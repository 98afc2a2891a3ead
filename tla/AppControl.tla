----------------------------- MODULE AppControl -----------------------------
(***************************************************************************)
(* The application callbacks, src/main.c, nf_callbacks.c and               *)
(* amazon_callbacks.c, over the two backends that control applications on  *)
(* the device: src/thunder_api.cpp and src/appman.cpp.                     *)
(*                                                                         *)
(* A callback is a chain of remote calls, one action each.  A call may be  *)
(* answered, refused, or lost: the caller gets an error after a timeout,   *)
(* and what it asked for never happens, or happens late, when the callback *)
(* has gone on.  Between any two calls the user acts on the device.  The   *)
(* server runs one callback at a time (ds->mux is held, see DialServer).   *)
(* What the services do (Possible, Effect) is external.                    *)
(***************************************************************************)
EXTENDS Integers, FiniteSets

CONSTANTS
  Payloads,    \* launch payloads: how long they are, see PayloadsAssumption
  UrlLen,      \* length of the configured url of an application
  AddLen,      \* length of additionalDataUrl
  MaxOps,      \* bound: callbacks in one behaviour
  MaxChanges,  \* bound: what the user does in one behaviour
  MaxLost      \* bound: lost calls that may still take effect

DIAL_MAX_PAYLOAD == 4096
DIAL_MAX_ADDITIONALURL == 1024

(* A payload has len characters, encoded when url_encode is done with it;  *)
(* loader is where its text "loader=yts" ends, 0 without one.  The server  *)
(* admits DIAL_MAX_PAYLOAD characters; it cuts additionalDataUrl.          *)
PayloadType ==
  {p \in [len : 0..DIAL_MAX_PAYLOAD, encoded : Nat, loader : 0..DIAL_MAX_PAYLOAD] :
     /\ p.encoded \in p.len..3 * p.len
     /\ p.loader <= p.len}

ASSUME PayloadsAssumption == Payloads \subseteq PayloadType
ASSUME LengthsAssumption == UrlLen \in Nat /\ AddLen \in 1..DIAL_MAX_ADDITIONALURL - 1
ASSUME BoundsAssumption == MaxOps \in Nat /\ MaxChanges \in Nat /\ MaxLost \in Nat

Names == {"YouTube", "YouTubeTV", "Netflix", "AmazonInstantVideo"}

handler == [YouTube |-> "YouTube", YouTubeTV |-> "YouTube", Netflix |-> "Netflix",
            AmazonInstantVideo |-> "Amazon"]

VARIABLES
  (* as loaded from the configuration *)
  backend, passive, name,
  (* the device: the application's state, the url it was configured with,  *)
  (* the url it shows, whether it has the focus, whether the power is on   *)
  app, config, shown, focus, power,
  (* the callback: the call it makes next, the url it passes, the status   *)
  (* it read, whether its last call was answered, and what it returned     *)
  op, payload, pc, url, appStatus, good, result,
  (* history: lost calls to come, a call failed, the device changed        *)
  (* otherwise than by this callback, milliseconds it may have waited      *)
  lost, failed, disturbed, waited,
  ops, changes

loaded == <<backend, passive, name>>
device == <<app, config, shown, focus, power>>
request == <<op, payload, url>>
bounds == <<ops, changes>>
vars == <<loaded, device, request, pc, appStatus, good, result,
          lost, failed, disturbed, waited, bounds>>

Thunder == backend = "Thunder"
Handler == handler[name]

Ops == {"none", "start", "hide", "stop", "status"}
States == {"deactivated", "suspended", "resumed", "other"}
Active == {"suspended", "resumed"}

(* A url carries the first kept characters of a payload. *)
Nothing == [payload |-> [len |-> 0, encoded |-> 0, loader |-> 0], kept |-> 0, len |-> 0]
Urls == [payload : Payloads \cup {Nothing.payload}, kept : Nat, len : Nat]
Configs == [set : BOOLEAN, url : Urls]

Calls ==
  {"broadcastEvent", "getPowerState", "setPowerState", "status@", "launch", "resumeFocus",
   "systemcommand", "configitem@", "activate", "deeplink", "setFocus", "suspend",
   "deactivate"}
AppManCalls ==
  {"GetAppState", "SetAppStateRunning", "LaunchApp", "SetDeepLink", "SetFocus",
   "SetAppStateSuspend", "KillApp"}

(* The calls that leave the device as it is. *)
Queries == {"broadcastEvent", "getPowerState", "status@", "GetAppState"}

(* The timeout a Thunder call is made with; AppMan's is the bus's own. *)
Timeout(c) == IF c \in {"configitem@", "activate"} THEN 1000 ELSE 2000

-----------------------------------------------------------------------------
(* The url each handler builds. *)
MinOf(a, b) == IF a < b THEN a ELSE b
MaxOf(a, b) == IF a > b THEN a ELSE b

UrlSize == 512                  \* char url[512]
InApp == 11                     \* "&inApp=true"

(* What stands before the payload: url?additionalDataUrl& *)
Before == UrlLen + AddLen + 2

(* The url made without minding the room.  Only a mutation uses it. *)
youtube_url_uncut(p) ==
  [payload |-> p, kept |-> p.len,
   len |-> IF p.len > 0 THEN Before + p.len + InApp ELSE UrlLen + InApp]

(* snprintf cuts what does not fit. *)
youtube_url(p) ==
  LET full == IF p.len > 0 THEN Before + p.len + InApp ELSE UrlLen + InApp
  IN [payload |-> p,
      kept |-> MaxOf(0, MinOf(p.len, UrlSize - 1 - Before)),
      len |-> MinOf(full, UrlSize - 1)]

QuerySize == 3 * DIAL_MAX_PAYLOAD + DIAL_MAX_ADDITIONALURL + 40
Launch == 20                    \* "source_type=12&dial="

(* The lengths netflix_start compares; the payload goes in encoded. *)
QueryFits(p) ==
  /\ Launch + p.encoded < QuerySize
  /\ Launch + p.encoded + 2 + AddLen < QuerySize

netflix_query(p) ==
  [payload |-> p, kept |-> p.len, len |-> Launch + p.encoded + 1 + AddLen]

UrlOf(p) ==
  CASE Handler = "YouTube" -> youtube_url(p)
    [] Handler = "Netflix" -> netflix_query(p)
    [] OTHER -> Nothing

(* strstr(url, "loader=yts") *)
HasLoader == 0 < url.payload.loader /\ url.payload.loader <= url.kept

-----------------------------------------------------------------------------
(* The services.  Possible: the service can do what it is asked.           *)
Possible(c) ==
  /\ c \in {"suspend", "SetAppStateSuspend", "SetAppStateRunning", "systemcommand", "deeplink",
            "SetDeepLink", "resumeFocus", "setFocus", "SetFocus"} => app \in Active
  /\ c = "activate" => app = "deactivated"
  /\ c \in {"launch", "deactivate"} => app # "other"

Sets(c, state, calls) == c \in calls /\ app' = state /\ UNCHANGED <<config, shown, focus, power>>

(* An application activated without a configuration may start suspended.   *)
Effect(c, u) ==
  \/ Sets(c, "resumed", {"launch", "SetAppStateRunning", "LaunchApp"})
  \/ Sets(c, "suspended", {"suspend", "SetAppStateSuspend"})
  \/ /\ c \in {"deactivate", "KillApp"}
     /\ app' = "deactivated" /\ shown' = Nothing /\ focus' = FALSE
     /\ UNCHANGED <<config, power>>
  \/ /\ c = "activate"
     /\ app' \in IF config.set THEN {"resumed"} ELSE Active
     /\ shown' = config.url
     /\ UNCHANGED <<config, focus, power>>
  \/ /\ c = "configitem@"
     /\ config' = [set |-> TRUE, url |-> u]
     /\ UNCHANGED <<app, shown, focus, power>>
  \/ /\ c \in {"systemcommand", "deeplink", "SetDeepLink"}
     /\ shown' = u
     /\ UNCHANGED <<app, config, focus, power>>
  \/ /\ c \in {"resumeFocus", "setFocus", "SetFocus"}
     /\ focus' = TRUE
     /\ UNCHANGED <<app, config, shown, power>>
  \/ /\ c = "setPowerState"
     /\ power' = TRUE
     /\ UNCHANGED <<app, config, shown, focus>>
  \/ c \in Queries /\ UNCHANGED device

(* A remote call.  Every failure is one: the code looks no further than    *)
(* whether the return value is ERROR_NONE.                                 *)
Answered(c, u) == Possible(c) /\ Effect(c, u) /\ good' = TRUE /\ UNCHANGED <<failed, lost>>

Refused(c) ==
  ~Possible(c) /\ good' = FALSE /\ failed' = TRUE /\ UNCHANGED <<device, lost>>

Lost(c, u) ==
  /\ good' = FALSE
  /\ failed' = TRUE
  /\ \/ lost' = lost
     \/ /\ c \notin Queries /\ Cardinality(lost) < MaxLost
        /\ lost' = lost \cup {[call |-> c, url |-> u, op |-> op]}
  /\ UNCHANGED device

Remote(c, u) ==
  /\ pc = c
  /\ Answered(c, u) \/ Refused(c) \/ Lost(c, u)
  /\ waited' = waited + Timeout(c)
  /\ UNCHANGED <<loaded, request, result, disturbed, bounds>>

(* A call whose answer decides nothing. *)
Ignored(c, u, next) == Remote(c, u) /\ pc' = next /\ UNCHANGED appStatus

-----------------------------------------------------------------------------
(* A callback begins: matchAppInfo, the url, and the first call, if any.   *)
FirstCall ==
  [Thunder |-> [start |-> "getPowerState", hide |-> "suspend", stop |-> "deactivate",
                status |-> "status@"],
   AppMan |-> [start |-> "GetAppState", hide |-> "SetAppStateSuspend", stop |-> "KillApp",
               status |-> "GetAppState"]]

(* The mode looked at only when an application is started.  Only a mutation
   uses it. *)
first_active(o) ==
  CASE passive /\ o = "start" -> IF Thunder THEN "broadcastEvent" ELSE "return"
    [] OTHER -> FirstCall[backend][o]

First(o) ==
  CASE passive /\ o # "status" -> IF Thunder THEN "broadcastEvent" ELSE "return"
    [] OTHER -> FirstCall[backend][o]

Begin(o, p) ==
  /\ pc = "idle" /\ ops < MaxOps
  /\ op' = o /\ payload' = p
  /\ url' = IF o = "start" THEN UrlOf(p) ELSE Nothing
  /\ IF o = "start" /\ Handler = "Netflix" /\ ~QueryFits(p)
     THEN pc' = "idle" /\ result' = "error"
     ELSE pc' = First(o) /\ result' = "none"
  /\ failed' = FALSE /\ disturbed' = FALSE /\ waited' = 0
  /\ appStatus' = "none" /\ good' = FALSE
  /\ ops' = ops + 1
  /\ UNCHANGED <<loaded, device, lost, changes>>

Start == \E p \in Payloads : Begin("start", p)
Other == \E o \in {"hide", "stop", "status"} : Begin(o, Nothing.payload)

(* In passive mode Thunder is told what was asked, for others to do it. *)
BroadcastEvent == Ignored("broadcastEvent", url, "return")

(* activateApp of thunder_api.cpp. *)
GetPowerState ==
  /\ Remote("getPowerState", url)
  /\ pc' = IF good' /\ power THEN "status@" ELSE "setPowerState"
  /\ UNCHANGED appStatus

SetPowerState == Ignored("setPowerState", url, "status@")

(* getAppStatus: the state reported, or error. *)
DialStatus(answered) ==
  CASE answered /\ app = "resumed" -> "running"
    [] answered /\ app = "suspended" -> "hide"
    [] answered /\ app = "deactivated" -> "stopped"
    [] OTHER -> "error"

(* What activateApp does once the application has been woken. *)
Woken == IF Handler = "YouTube" THEN "deeplink" ELSE "setFocus"

GetStatus ==
  /\ Remote("status@", url)
  /\ appStatus' = DialStatus(good')
  /\ pc' = CASE op = "status" -> "return"
             [] op = "start" /\ appStatus' = "hide" -> "launch"
             [] op = "start" /\ appStatus' = "stopped" -> "configitem@"
             [] OTHER -> Woken

(* resumeApp, and the url for Netflix whether or not it could be resumed. *)
Resumed == IF Handler = "Netflix" THEN "systemcommand" ELSE Woken

(* launch repeated until the application resumes.  Only a mutation uses it. *)
ResumeRepeated ==
  /\ Remote("launch", url)
  /\ pc' = IF good' THEN "resumeFocus" ELSE "launch"
  /\ UNCHANGED appStatus

Resume ==
  /\ Remote("launch", url)
  /\ pc' = IF good' THEN "resumeFocus" ELSE Resumed
  /\ UNCHANGED appStatus

(* No url for Netflix.  Only a mutation uses it. *)
ResumeFocusOnly == Ignored("resumeFocus", url, Woken)

ResumeFocus == Ignored("resumeFocus", url, Resumed)

SystemCommand == Ignored("systemcommand", url, "setFocus")

(* configitem@ left out.  Only a mutation uses it. *)
ConfigSkipped ==
  /\ pc = "configitem@" /\ pc' = "activate"
  /\ UNCHANGED <<loaded, device, request, appStatus, good, result, lost, failed, disturbed,
                 waited, bounds>>

ConfigItem ==
  LET passed ==
        CASE Handler = "YouTube" -> IF name = "YouTubeTV" /\ HasLoader THEN url ELSE Nothing
          [] Handler = "Netflix" -> url
          [] OTHER -> Nothing
  IN Ignored("configitem@", passed, "activate")

Activate == Ignored("activate", url, Woken)

DeepLink == Ignored("deeplink", url, "setFocus")

SetFocus == Ignored("setFocus", url, "return")

(* hideApp and deActivateApp. *)
Suspend == Ignored("suspend", url, "return")

Deactivate == Ignored("deactivate", url, "return")

(* activateApp, getAppStatus, hideApp, deActivateApp of appman.cpp. *)
AppManWoken == IF Handler = "YouTube" THEN "SetDeepLink" ELSE "SetFocus"

GetAppState ==
  /\ Remote("GetAppState", url)
  /\ appStatus' = DialStatus(good')
  /\ pc' = CASE op = "status" -> "return"
             [] op = "start" /\ appStatus' = "hide" -> "SetAppStateRunning"
             [] op = "start" /\ appStatus' \in {"stopped", "error"} -> "LaunchApp"
             [] OTHER -> AppManWoken

ResumeApp == Ignored("SetAppStateRunning", url, AppManWoken)

LaunchApp == Ignored("LaunchApp", url, AppManWoken)

SetDeepLink == Ignored("SetDeepLink", url, "SetFocus")

AppManFocus == Ignored("SetFocus", url, "return")

HideApp == Ignored("SetAppStateSuspend", url, "return")

KillApp == Ignored("KillApp", url, "return")

(* What the callback returns; stop returns nothing. *)
Returned ==
  CASE op = "start" -> "running"
    [] op = "status" -> appStatus
    [] op = "hide" -> IF passive \/ ~Thunder \/ good THEN "hide" ELSE "error"
    [] OTHER -> "none"

Return ==
  /\ pc = "return"
  /\ pc' = "idle" /\ result' = Returned
  /\ UNCHANGED <<loaded, device, request, appStatus, good, lost, failed, disturbed, waited,
                 bounds>>

Callback ==
  \/ BroadcastEvent \/ GetPowerState \/ SetPowerState \/ GetStatus \/ Resume \/ ResumeFocus
  \/ SystemCommand \/ ConfigItem \/ Activate \/ DeepLink \/ SetFocus \/ Suspend \/ Deactivate
  \/ GetAppState \/ ResumeApp \/ LaunchApp \/ SetDeepLink \/ AppManFocus \/ HideApp \/ KillApp
  \/ Return

(* A lost call takes effect after all. *)
Late ==
  \E l \in lost :
    /\ Possible(l.call) /\ Effect(l.call, l.url)
    /\ lost' = lost \ {l}
    /\ disturbed' = TRUE
    /\ UNCHANGED <<loaded, request, pc, appStatus, good, result, failed, waited, bounds>>

(* The user opens, leaves or closes the application, opens another, or     *)
(* switches the device on or off.                                          *)
User ==
  /\ changes < MaxChanges
  /\ changes' = changes + 1
  /\ disturbed' = TRUE
  /\ \/ app' \in States \ {app} /\ focus' \in BOOLEAN /\ UNCHANGED power
     \/ focus' = ~focus /\ UNCHANGED <<app, power>>
     \/ power' = ~power /\ UNCHANGED <<app, focus>>
  /\ UNCHANGED <<loaded, config, shown, request, pc, appStatus, good, result, lost, failed,
                 waited, ops>>

Init ==
  /\ backend \in {"Thunder", "AppMan"} /\ passive \in BOOLEAN /\ name \in Names
  /\ app \in {"deactivated", "suspended", "resumed"} /\ power \in BOOLEAN
  /\ config = [set |-> FALSE, url |-> Nothing] /\ shown = Nothing /\ focus = FALSE
  /\ op = "none" /\ payload = Nothing.payload /\ url = Nothing /\ pc = "idle"
  /\ appStatus = "none" /\ good = FALSE /\ result = "none"
  /\ lost = {} /\ failed = FALSE /\ disturbed = FALSE /\ waited = 0
  /\ ops = 0 /\ changes = 0

Next == Start \/ Other \/ Callback \/ Late \/ User

Spec == Init /\ [][Next]_vars

-----------------------------------------------------------------------------
(* Every variable has its type; a url fits the array it was written to,    *)
(* with its terminator, and a callback returns what the server expects.    *)
TypeOK ==
  /\ backend \in {"Thunder", "AppMan"} /\ passive \in BOOLEAN /\ name \in Names
  /\ app \in States /\ config \in Configs /\ shown \in Urls
  /\ focus \in BOOLEAN /\ power \in BOOLEAN
  /\ op \in Ops
  /\ payload \in Payloads \cup {Nothing.payload}
  /\ url \in Urls
  /\ url.len < IF Handler = "YouTube" THEN UrlSize ELSE QuerySize
  /\ pc \in {"idle", "return"} \cup IF Thunder THEN Calls ELSE AppManCalls
  /\ appStatus \in {"none", "running", "hide", "stopped", "error"}
  /\ good \in BOOLEAN
  /\ result \in {"none", "running", "hide", "stopped", "error"}
  /\ lost \subseteq [call : (Calls \cup AppManCalls) \ Queries, url : Urls, op : Ops]
  /\ failed \in BOOLEAN /\ disturbed \in BOOLEAN /\ waited \in Nat
  /\ ops \in 0..MaxOps /\ changes \in 0..MaxChanges

(* The callback is over and nothing else has changed the device since it   *)
(* began; every call it made was answered.                                 *)
Undisturbed == pc = "idle" /\ ~disturbed /\ ~passive
Smooth == Undisturbed /\ ~failed

(* After a callback the device is as the client asked: launched, with the  *)
(* focus and, with Thunder, the power on; or stopped; and what is reported *)
(* of the application is true.  Thunder's hide tells the truth even when   *)
(* its call fails.                                                         *)
LastCommandHolds ==
  /\ Smooth /\ op = "start" /\ result = "running" =>
       app = "resumed" /\ focus /\ (Thunder => power)
  /\ Smooth /\ op = "stop" => app = "deactivated"
  /\ Smooth /\ op = "hide" => app = "suspended" /\ result = "hide"
  /\ Smooth /\ op = "status" => (result = "running" <=> app = "resumed")
  /\ Undisturbed /\ Thunder /\ op = "hide" /\ result = "hide" => app = "suspended"

(* A launch shows the payload of its client, all of it unless url is too   *)
(* small: for the YouTube handler always, for Netflix with Thunder unless  *)
(* the application was already in front when it was asked for.             *)
PayloadDelivered ==
  Smooth /\ op = "start" =>
    /\ Handler = "YouTube" =>
         /\ shown.payload = payload
         /\ Before + payload.len < UrlSize => shown.kept = payload.len
    /\ Handler = "Netflix" /\ Thunder /\ appStatus # "running" =>
         shown.payload = payload /\ shown.kept = payload.len

(* The operations under way: the callback's, and those of lost calls.      *)
Wanted == (IF pc = "idle" THEN {} ELSE {op}) \cup {l.op : l \in lost}

(* Only a client who asked for it, and the user, change the application:   *)
(* it is resumed by a launch, suspended by a hide (or by a launch when it  *)
(* was not there), closed by a stop; the server never closes or suspends   *)
(* it on its own, a query changes nothing, and in passive mode the server  *)
(* leaves the device alone.                                                *)
OnlyAsAsked ==
  [][changes' = changes =>
       /\ passive => UNCHANGED device
       /\ app' # app =>
            \/ app' = "resumed" /\ "start" \in Wanted
            \/ app' = "suspended" /\ "hide" \in Wanted
            \/ app' = "suspended" /\ app = "deactivated" /\ "start" \in Wanted
            \/ app' = "deactivated" /\ "stop" \in Wanted
       /\ power' # power => "start" \in Wanted]_vars

(* A callback keeps the server's lock for at most seven remote calls of    *)
(* two seconds.                                                            *)
WaitBounded == Thunder => waited <= 14000
=============================================================================
