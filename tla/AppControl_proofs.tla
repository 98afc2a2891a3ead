------------------------- MODULE AppControl_proofs -------------------------
(* Theorems about AppControl, for all payloads, lengths and bounds. *)
EXTENDS AppControl, TLAPS

AllCalls == Calls \cup AppManCalls
Places == {"idle", "return"} \cup IF Thunder THEN Calls ELSE AppManCalls
Statuses == {"none", "running", "hide", "stopped", "error"}

-----------------------------------------------------------------------------
(* The texts that the handlers build. *)

LEMMA NothingType ==
  Nothing \in Urls /\ Nothing.len = 0 /\ Nothing.payload \in [len : Nat, encoded : Nat, loader : Nat]
BY DEF Nothing, Urls

LEMMA PayloadLengths ==
  ASSUME NEW p \in Payloads \cup {Nothing.payload}
  PROVE  p.len \in Nat /\ p.encoded \in Nat /\ p.encoded <= 12288
<1>1. CASE p \in Payloads
  <2>1. p \in PayloadType
    BY <1>1, PayloadsAssumption
  <2>2. DIAL_MAX_PAYLOAD \in Nat
    BY DEF DIAL_MAX_PAYLOAD
  <2>3. p \in [len : 0..DIAL_MAX_PAYLOAD, encoded : Nat, loader : 0..DIAL_MAX_PAYLOAD]
        /\ p.encoded \in p.len..3 * p.len
    BY <2>1 DEF PayloadType
  <2>4. p.len \in Nat /\ p.encoded \in Nat /\ p.encoded <= 3 * DIAL_MAX_PAYLOAD
    BY <2>2, <2>3
  <2> QED
    BY <2>4 DEF DIAL_MAX_PAYLOAD
<1>2. CASE p = Nothing.payload
  BY <1>2 DEF Nothing
<1> QED
  BY <1>1, <1>2

(* Every legal launch fits sQueryParam with its additional data url, even  *)
(* when url_encode makes each character of the payload three: the error    *)
(* returns of netflix_start are never taken.                               *)
THEOREM NetflixQueryFits == \A p \in Payloads \cup {Nothing.payload} : QueryFits(p)
<1> SUFFICES ASSUME NEW p \in Payloads \cup {Nothing.payload}
             PROVE  QueryFits(p)
  OBVIOUS
<1>1. p.encoded \in Nat /\ p.encoded <= 12288
  BY PayloadLengths
<1> QED
  BY <1>1, LengthsAssumption
  DEF QueryFits, QuerySize, Launch, DIAL_MAX_PAYLOAD, DIAL_MAX_ADDITIONALURL

(* A url never outgrows its array. *)
LEMMA UrlOfType ==
  ASSUME NEW p \in Payloads \cup {Nothing.payload}, name \in Names
  PROVE  /\ UrlOf(p) \in Urls
         /\ UrlOf(p).len < IF Handler = "YouTube" THEN UrlSize ELSE QuerySize
<1>1. p.len \in Nat /\ p.encoded \in Nat /\ p.encoded <= 12288
  BY PayloadLengths
<1>2. UrlLen \in Nat /\ AddLen \in Nat /\ AddLen <= 1023
  BY LengthsAssumption DEF DIAL_MAX_ADDITIONALURL
<1>3. youtube_url(p) \in Urls /\ youtube_url(p).len < UrlSize
  BY <1>1, <1>2 DEF youtube_url, Urls, MinOf, MaxOf, UrlSize, InApp, Before
<1>4. netflix_query(p) \in Urls /\ netflix_query(p).len < QuerySize
  BY <1>1, <1>2 DEF netflix_query, Urls, Launch, QuerySize, DIAL_MAX_PAYLOAD,
                    DIAL_MAX_ADDITIONALURL
<1>5. 0 < UrlSize /\ 0 < QuerySize
  BY DEF UrlSize, QuerySize, DIAL_MAX_PAYLOAD, DIAL_MAX_ADDITIONALURL
<1>6. CASE Handler = "YouTube"
  BY <1>3, <1>6 DEF UrlOf
<1>7. CASE Handler = "Netflix"
  BY <1>4, <1>7 DEF UrlOf
<1>8. CASE Handler \notin {"YouTube", "Netflix"}
  BY <1>5, <1>8, NothingType DEF UrlOf
<1> QED
  BY <1>6, <1>7, <1>8

-----------------------------------------------------------------------------
(* Types. *)
LEMMA EffectType ==
  ASSUME TypeOK, NEW c, NEW u \in Urls, Effect(c, u)
  PROVE  app' \in States /\ config' \in Configs /\ shown' \in Urls
         /\ focus' \in BOOLEAN /\ power' \in BOOLEAN
<1> USE DEF TypeOK
<1>1. config.url \in Urls
  BY DEF Configs
<1>2. CASE c = "activate"
  <2>1. /\ app' \in IF config.set THEN {"resumed"} ELSE Active
        /\ shown' = config.url /\ UNCHANGED <<config, focus, power>>
    BY <1>2 DEF Effect, Sets, Queries
  <2> QED
    BY <1>1, <2>1 DEF States, Active
<1>3. CASE c = "configitem@"
  <2>1. config' = [set |-> TRUE, url |-> u] /\ UNCHANGED <<app, shown, focus, power>>
    BY <1>3 DEF Effect, Sets, Queries
  <2> QED
    BY <2>1 DEF Configs
<1>4. CASE c \notin {"activate", "configitem@"}
  BY <1>4, NothingType DEF Effect, Sets, States, device
<1> QED
  BY <1>2, <1>3, <1>4

LEMMA RemoteType ==
  ASSUME TypeOK, NEW c \in AllCalls, NEW u \in Urls, Remote(c, u),
         pc' \in Places, appStatus' \in Statuses
  PROVE  TypeOK'
<1>1. /\ app' \in States /\ config' \in Configs /\ shown' \in Urls
      /\ focus' \in BOOLEAN /\ power' \in BOOLEAN
  <2>1. CASE Answered(c, u)
    BY <2>1, EffectType DEF Answered
  <2>2. CASE Refused(c) \/ Lost(c, u)
    BY <2>2 DEF Refused, Lost, TypeOK, device
  <2> QED
    BY <2>1, <2>2 DEF Remote
<1>2. good' \in BOOLEAN /\ failed' \in BOOLEAN
  BY DEF Remote, Answered, Refused, Lost, TypeOK
<1>3. waited' \in Nat
  BY DEF Remote, TypeOK, Timeout
<1>4. lost' \subseteq [call : AllCalls \ Queries, url : Urls, op : Ops]
  <2>1. CASE lost' = lost
    BY <2>1 DEF TypeOK, AllCalls
  <2>2. CASE c \notin Queries /\ lost' = lost \cup {[call |-> c, url |-> u, op |-> op]}
    BY <2>2 DEF TypeOK, AllCalls
  <2> QED
    BY <2>1, <2>2 DEF Remote, Answered, Refused, Lost
<1> QED
  BY <1>1, <1>2, <1>3, <1>4
  DEF TypeOK, Remote, loaded, request, bounds, Places, Statuses, AllCalls, Thunder, Handler

(* A call whose answer decides nothing, followed by one of its backend.    *)
LEMMA IgnoredType ==
  ASSUME TypeOK, NEW c \in AllCalls, NEW u \in Urls, NEW next, Ignored(c, u, next),
         c \in Calls => next \in Calls \cup {"return"},
         c \in AppManCalls => next \in AppManCalls \cup {"return"}
  PROVE  TypeOK'
<1>1. pc = c /\ pc' = next /\ appStatus' = appStatus /\ Remote(c, u)
  BY DEF Ignored, Remote
<1>2. c \notin {"idle", "return"}
  BY DEF AllCalls, Calls, AppManCalls
<1>3. pc' \in Places
  BY <1>1, <1>2 DEF TypeOK, Places
<1> QED
  BY <1>1, <1>3, RemoteType DEF TypeOK, Statuses

LEMMA BeginType ==
  ASSUME TypeOK, NEW o \in Ops \ {"none"}, NEW p \in Payloads \cup {Nothing.payload}, Begin(o, p)
  PROVE  TypeOK'
<1>1. name \in Names /\ UNCHANGED <<backend, passive, name>>
  BY DEF Begin, TypeOK, loaded
<1>2. url' \in Urls /\ url'.len < IF Handler = "YouTube" THEN UrlSize ELSE QuerySize
  BY <1>1, UrlOfType, NothingType
  DEF Begin, UrlSize, QuerySize, DIAL_MAX_PAYLOAD, DIAL_MAX_ADDITIONALURL
<1>3. First(o) \in Places
  BY DEF TypeOK, First, FirstCall, Places, Calls, AppManCalls, Ops, Thunder
<1>4. pc' \in Places /\ result' \in Statuses
  BY <1>3 DEF Begin, Places, Statuses
<1>5. ops' \in 0..MaxOps
  BY BoundsAssumption DEF Begin, TypeOK
<1> QED
  BY <1>1, <1>2, <1>4, <1>5
  DEF Begin, TypeOK, loaded, device, Places, Statuses, Ops, Thunder, Handler

LEMMA NextType == TypeOK /\ [Next]_vars => TypeOK'
<1> SUFFICES ASSUME TypeOK, [Next]_vars
             PROVE  TypeOK'
  OBVIOUS
<1> USE DEF AllCalls, Calls, AppManCalls
<1>0. url \in Urls /\ Nothing \in Urls
  BY NothingType DEF TypeOK
<1>1. CASE Start \/ Other
  BY <1>1, BeginType DEF Start, Other, Ops
<1>2. CASE BroadcastEvent \/ SetPowerState \/ SystemCommand \/ DeepLink \/ SetFocus \/ Suspend
           \/ Deactivate
  BY <1>0, <1>2, IgnoredType
  DEF BroadcastEvent, SetPowerState, SystemCommand, DeepLink, SetFocus, Suspend, Deactivate
<1>3. CASE ResumeFocus \/ Activate
  BY <1>0, <1>3, IgnoredType DEF ResumeFocus, Activate, Resumed, Woken
<1>4. CASE ConfigItem
  BY <1>0, <1>4, IgnoredType DEF ConfigItem
<1>5. CASE ResumeApp \/ LaunchApp \/ SetDeepLink \/ AppManFocus \/ HideApp \/ KillApp
  BY <1>0, <1>5, IgnoredType
  DEF ResumeApp, LaunchApp, SetDeepLink, AppManFocus, HideApp, KillApp, AppManWoken
<1>6. CASE GetPowerState
  <2>1. pc' \in Places /\ appStatus' \in Statuses /\ Remote("getPowerState", url)
    BY <1>6 DEF GetPowerState, Remote, Places, Statuses, TypeOK
  <2> QED
    BY <1>0, <2>1, RemoteType
<1>7. CASE GetStatus
  <2>1. pc' \in Places /\ appStatus' \in Statuses /\ Remote("status@", url)
    BY <1>7 DEF GetStatus, Remote, Places, Statuses, TypeOK, DialStatus, Woken
  <2> QED
    BY <1>0, <2>1, RemoteType
<1>8. CASE Resume
  <2>1. pc' \in Places /\ appStatus' \in Statuses /\ Remote("launch", url)
    BY <1>8 DEF Resume, Remote, Places, Statuses, TypeOK, Resumed, Woken
  <2> QED
    BY <1>0, <2>1, RemoteType
<1>9. CASE GetAppState
  <2>1. pc' \in Places /\ appStatus' \in Statuses /\ Remote("GetAppState", url)
    BY <1>9 DEF GetAppState, Remote, Places, Statuses, TypeOK, DialStatus, AppManWoken
  <2> QED
    BY <1>0, <2>1, RemoteType
<1>10. CASE Return
  BY <1>10 DEF Return, Returned, TypeOK, loaded, device, request, bounds, Thunder, Handler
<1>11. CASE Late
  <2>1. PICK l \in lost : /\ Effect(l.call, l.url) /\ lost' = lost \ {l} /\ disturbed' = TRUE
                          /\ UNCHANGED <<loaded, request, pc, appStatus, good, result, failed,
                                         waited, bounds>>
    BY <1>11 DEF Late
  <2>2. l.url \in Urls
    BY DEF TypeOK
  <2>3. app' \in States /\ config' \in Configs /\ shown' \in Urls
        /\ focus' \in BOOLEAN /\ power' \in BOOLEAN
    BY <2>1, <2>2, EffectType
  <2>4. lost' \subseteq lost
    BY <2>1
  <2>5. UNCHANGED <<backend, passive, name, op, payload, url, pc, appStatus, good, result, failed,
                    waited, ops, changes>>
    BY <2>1 DEF loaded, request, bounds
  <2>6. lost' \subseteq [call : (Calls \cup AppManCalls) \ Queries, url : Urls, op : Ops]
    BY <2>4 DEF TypeOK
  <2>7. disturbed' \in BOOLEAN
    BY <2>1
  <2> QED
    BY <2>3, <2>5, <2>6, <2>7 DEF TypeOK, Thunder, Handler
<1>12. CASE User
  <2>1. app' \in States /\ focus' \in BOOLEAN /\ power' \in BOOLEAN
    BY <1>12 DEF User, TypeOK
  <2>2. changes' \in 0..MaxChanges
    BY <1>12, BoundsAssumption DEF User, TypeOK
  <2>3. disturbed' \in BOOLEAN
    BY <1>12 DEF User
  <2>4. UNCHANGED <<loaded, config, shown, request, pc, appStatus, good, result, lost, failed,
                    waited, ops>>
    BY <1>12 DEF User
  <2> QED
    BY <2>1, <2>2, <2>3, <2>4 DEF TypeOK, loaded, request, Thunder, Handler
<1>13. CASE UNCHANGED vars
  BY <1>13 DEF vars, TypeOK, loaded, device, request, bounds, Thunder, Handler
<1> QED
  BY <1>1, <1>2, <1>3, <1>4, <1>5, <1>6, <1>7, <1>8, <1>9, <1>10, <1>11, <1>12, <1>13
  DEF Next, Callback

(* Types, and no text outgrows its array, whatever the lengths. *)
THEOREM TypeCorrect == Spec => []TypeOK
<1>1. Init => TypeOK
  <2> SUFFICES ASSUME Init
               PROVE  TypeOK
    OBVIOUS
  <2>1. config \in Configs /\ shown \in Urls /\ url \in Urls
    BY NothingType DEF Init, Configs
  <2>2. url.len < IF Handler = "YouTube" THEN UrlSize ELSE QuerySize
    BY NothingType DEF Init, UrlSize, QuerySize, DIAL_MAX_PAYLOAD, DIAL_MAX_ADDITIONALURL
  <2>3. ops \in 0..MaxOps /\ changes \in 0..MaxChanges
    BY BoundsAssumption DEF Init
  <2>4. payload \in Payloads \cup {Nothing.payload} /\ lost = {}
    BY DEF Init
  <2> QED
    BY <2>1, <2>2, <2>3, <2>4 DEF Init, TypeOK, States, Ops
<1> QED
  BY <1>1, NextType, PTL DEF Spec

-----------------------------------------------------------------------------
(* How long a callback can last. *)

(* What the calls made so far may have taken, at the call to be made next. *)
Spent ==
  Thunder =>
    /\ waited <= 14000
    /\ pc \in {"broadcastEvent", "getPowerState", "suspend", "deactivate"} => waited = 0
    /\ pc = "setPowerState" => waited <= 2000
    /\ pc = "status@" => waited <= 4000
    /\ pc \in {"launch", "configitem@"} => waited <= 6000
    /\ pc = "activate" => waited <= 7000
    /\ pc = "resumeFocus" => waited <= 8000
    /\ pc \in {"systemcommand", "deeplink"} => waited <= 10000
    /\ pc = "setFocus" => waited <= 12000

LEMMA SpentStep == TypeOK /\ Spent /\ [Next]_vars => Spent'
<1> SUFFICES ASSUME TypeOK, Spent, [Next]_vars, Thunder'
             PROVE  Spent'
  BY DEF Spent
<1>0. Thunder /\ waited \in Nat
  BY DEF Thunder, Next, vars, loaded, TypeOK, Start, Other, Begin, Callback, BroadcastEvent,
         GetPowerState, SetPowerState, GetStatus, Resume, ResumeFocus, SystemCommand, ConfigItem,
         Activate, DeepLink, SetFocus, Suspend, Deactivate, GetAppState, ResumeApp, LaunchApp,
         SetDeepLink, AppManFocus, HideApp, KillApp, Return, Late, User, Ignored, Remote
<1> USE <1>0 DEF Spent, Timeout
<1>1. CASE Start \/ Other
  <2>1. PICK o \in Ops \ {"none"} : \E p : Begin(o, p)
    BY <1>1 DEF Start, Other, Ops
  <2>2. waited' = 0 /\ (pc' = "idle" \/ pc' = First(o))
    BY <2>1 DEF Begin
  <2> QED
    BY <2>2
<1>2. CASE BroadcastEvent \/ SetPowerState \/ SystemCommand \/ DeepLink \/ SetFocus \/ Suspend
           \/ Deactivate
  BY <1>2 DEF BroadcastEvent, SetPowerState, SystemCommand, DeepLink, SetFocus, Suspend,
              Deactivate, Ignored, Remote
<1>3. CASE ResumeFocus \/ Activate \/ ConfigItem
  BY <1>3 DEF ResumeFocus, Activate, ConfigItem, Resumed, Woken, Ignored, Remote
<1>4. CASE GetPowerState
  BY <1>4 DEF GetPowerState, Remote
<1>5. CASE GetStatus
  <2>1. pc = "status@" /\ waited' = waited + 2000
        /\ pc' \in {"return", "launch", "configitem@", "deeplink", "setFocus"}
    BY <1>5 DEF GetStatus, Woken, Remote
  <2> QED
    BY <2>1
<1>6. CASE Resume
  BY <1>6 DEF Resume, Resumed, Woken, Remote
<1>7. CASE GetAppState \/ ResumeApp \/ LaunchApp \/ SetDeepLink \/ AppManFocus \/ HideApp
           \/ KillApp
  BY <1>7 DEF GetAppState, ResumeApp, LaunchApp, SetDeepLink, AppManFocus, HideApp, KillApp,
              Ignored, Remote, TypeOK, Calls
<1>8. CASE Return \/ Late \/ User \/ UNCHANGED vars
  BY <1>8 DEF Return, Late, User, vars
<1> QED
  BY <1>1, <1>2, <1>3, <1>4, <1>5, <1>6, <1>7, <1>8 DEF Next, Callback

(* A callback, which holds the server's lock, makes at most seven calls of *)
(* two seconds, whatever the device does meanwhile.                        *)
THEOREM LockHeldBriefly == Spec => []WaitBounded
<1>1. Init => Spent
  BY DEF Init, Spent
<1>2. Spent => WaitBounded
  BY DEF Spent, WaitBounded
<1> QED
  BY <1>1, <1>2, SpentStep, TypeCorrect, PTL DEF Spec

-----------------------------------------------------------------------------
(* Which operation makes a call. *)
StartCalls ==
  {"getPowerState", "setPowerState", "launch", "resumeFocus", "systemcommand", "configitem@",
   "activate", "deeplink", "setFocus", "SetAppStateRunning", "LaunchApp", "SetDeepLink",
   "SetFocus"}

Belongs(c, o) ==
  /\ c \in StartCalls => o = "start"
  /\ c \in {"suspend", "SetAppStateSuspend"} => o = "hide"
  /\ c \in {"deactivate", "KillApp"} => o = "stop"
  /\ c \in {"status@", "GetAppState"} => o \in {"start", "status"}

Asked ==
  /\ Belongs(pc, op)
  /\ pc = "broadcastEvent" => passive
  /\ \A l \in lost : Belongs(l.call, l.op)
  /\ passive =>
       /\ lost = {}
       /\ \/ pc \in {"idle", "return", "broadcastEvent"}
          \/ pc \in {"status@", "GetAppState"} /\ op = "status"

(* What a call may do to the application, and for whom.                    *)
Does(o) ==
  /\ app' # app =>
       \/ app' = "resumed" /\ o = "start"
       \/ app' = "suspended" /\ o = "hide"
       \/ app' = "suspended" /\ app = "deactivated" /\ o = "start"
       \/ app' = "deactivated" /\ o = "stop"
  /\ power' # power => o = "start"

LEMMA EffectAsked ==
  ASSUME NEW c \in AllCalls, NEW u, NEW o, Belongs(c, o), Possible(c), Effect(c, u)
  PROVE  Does(o)
BY DEF AllCalls, Calls, AppManCalls, Belongs, Possible, Effect, Sets, Does, StartCalls, Queries,
       device, Active

LEMMA QueryEffect ==
  ASSUME NEW c \in Queries, NEW u, Effect(c, u)
  PROVE  UNCHANGED device
BY DEF Queries, Effect, Sets

(* A call of the callback: what it does, and whose it is if it is lost.    *)
LEMMA RemoteAsked ==
  ASSUME TypeOK, Asked, NEW c \in AllCalls, NEW u, Remote(c, u)
  PROVE  /\ Does(op) /\ "idle" # pc
         /\ \A l \in lost' : Belongs(l.call, l.op)
         /\ passive => UNCHANGED device /\ lost' = {}
         /\ UNCHANGED <<loaded, op, changes>>
<1>1. pc = c /\ Belongs(c, op) /\ pc # "idle"
  BY DEF Remote, Asked, AllCalls, Calls, AppManCalls
<1>2. Does(op)
  <2>1. CASE Answered(c, u)
    BY <1>1, <2>1, EffectAsked DEF Answered
  <2>2. CASE Refused(c) \/ Lost(c, u)
    BY <2>2 DEF Refused, Lost, device, Does
  <2> QED
    BY <2>1, <2>2 DEF Remote
<1>3. \A l \in lost' : Belongs(l.call, l.op)
  <2>1. lost' = lost \/ lost' = lost \cup {[call |-> c, url |-> u, op |-> op]}
    BY DEF Remote, Answered, Refused, Lost
  <2> QED
    BY <1>1, <2>1 DEF Asked
<1>4. ASSUME passive
      PROVE  UNCHANGED device /\ lost' = {}
  <2>1. c \in Queries /\ lost = {}
    BY <1>1, <1>4 DEF Asked, Queries, AllCalls, Calls, AppManCalls
  <2>2. lost' = lost
    BY <2>1 DEF Remote, Answered, Refused, Lost
  <2>3. UNCHANGED device
    BY <2>1, QueryEffect DEF Remote, Answered, Refused, Lost
  <2> QED
    BY <2>1, <2>2, <2>3
<1> QED
  BY <1>1, <1>2, <1>3, <1>4 DEF Remote, request, bounds

(* A step is one of these. *)
RemoteStep == \E c \in AllCalls, u \in Urls : Remote(c, u)

LEMMA CallbackSteps ==
  ASSUME TypeOK, Callback
  PROVE  RemoteStep \/ Return
<1>1. url \in Urls /\ Nothing \in Urls
  BY NothingType DEF TypeOK
<1>2. CASE ConfigItem
  <2>1. \E u \in {url, Nothing} : Remote("configitem@", u)
    BY <1>2 DEF ConfigItem, Ignored
  <2> QED
    BY <1>1, <2>1 DEF RemoteStep, AllCalls, Calls
<1>3. CASE ~ConfigItem /\ ~Return
  <2>1. \E c \in AllCalls : Remote(c, url)
    BY <1>3 DEF Callback, AllCalls, Calls, AppManCalls, BroadcastEvent, GetPowerState,
                SetPowerState, GetStatus, Resume, ResumeFocus, SystemCommand, Activate, DeepLink,
                SetFocus, Suspend, Deactivate, GetAppState, ResumeApp, LaunchApp, SetDeepLink,
                AppManFocus, HideApp, KillApp, Ignored
  <2> QED
    BY <1>1, <2>1 DEF RemoteStep
<1> QED
  BY <1>2, <1>3

LEMMA AskedStep == TypeOK /\ Asked /\ [Next]_vars => Asked'
<1> SUFFICES ASSUME TypeOK, Asked, [Next]_vars
             PROVE  Asked'
  OBVIOUS
<1>1. CASE Start \/ Other
  <2>1. PICK o \in Ops \ {"none"} : \E p : Begin(o, p)
    BY <1>1 DEF Start, Other, Ops
  <2>2. op' = o /\ (pc' = "idle" \/ pc' = First(o)) /\ lost' = lost /\ UNCHANGED loaded
    BY <2>1 DEF Begin
  <2>3. Belongs(First(o), o) /\ Belongs("idle", o)
    BY DEF Belongs, StartCalls, First, FirstCall, Ops, TypeOK, Thunder
  <2>5. First(o) = "broadcastEvent" => passive
    <3>1. FirstCall[backend][o] # "broadcastEvent"
      BY DEF FirstCall, TypeOK, Ops
    <3> QED
      BY <3>1 DEF First
  <2>4. ASSUME passive
        PROVE  \/ First(o) \in {"return", "broadcastEvent"}
               \/ First(o) \in {"status@", "GetAppState"} /\ o = "status"
    <3>1. CASE o = "status"
      BY <3>1 DEF First, FirstCall, TypeOK
    <3>2. CASE o # "status"
      <4>1. First(o) = IF Thunder THEN "broadcastEvent" ELSE "return"
        BY <2>4, <3>2 DEF First
      <4> QED
        BY <4>1
    <3> QED
      BY <3>1, <3>2
  <2> QED
    BY <2>2, <2>3, <2>4, <2>5 DEF Asked, loaded
<1>2. CASE Callback /\ ~Return
  <2>1. PICK c \in AllCalls, u \in Urls : Remote(c, u)
    BY <1>2, CallbackSteps DEF RemoteStep
  <2>2. /\ \A l \in lost' : Belongs(l.call, l.op)
        /\ passive => lost' = {}
        /\ passive' = passive /\ op' = op
    BY <2>1, RemoteAsked DEF loaded
  <2>3. Belongs(pc', op)
    BY <1>2
    DEF Asked, Belongs, StartCalls, Callback, BroadcastEvent, GetPowerState, SetPowerState,
        GetStatus, Resume, ResumeFocus, SystemCommand, ConfigItem, Activate, DeepLink, SetFocus,
        Suspend, Deactivate, GetAppState, ResumeApp, LaunchApp, SetDeepLink, AppManFocus, HideApp,
        KillApp, Ignored, Remote, Woken, Resumed, AppManWoken
  <2>5. pc' # "broadcastEvent"
    BY <1>2
    DEF Callback, BroadcastEvent, GetPowerState, SetPowerState, GetStatus, Resume, ResumeFocus,
        SystemCommand, ConfigItem, Activate, DeepLink, SetFocus, Suspend, Deactivate, GetAppState,
        ResumeApp, LaunchApp, SetDeepLink, AppManFocus, HideApp, KillApp, Ignored, Woken, Resumed,
        AppManWoken
  <2>4. passive => pc' = "return"
    BY <1>2
    DEF Asked, Belongs, StartCalls, Callback, BroadcastEvent, GetPowerState, SetPowerState,
        GetStatus, Resume, ResumeFocus, SystemCommand, ConfigItem, Activate, DeepLink, SetFocus,
        Suspend, Deactivate, GetAppState, ResumeApp, LaunchApp, SetDeepLink, AppManFocus, HideApp,
        KillApp, Ignored, Remote
  <2> QED
    BY <2>2, <2>3, <2>4, <2>5 DEF Asked
<1>3. CASE Return
  BY <1>3 DEF Return, Asked, Belongs, StartCalls, loaded, request
<1>4. CASE Late
  BY <1>4 DEF Late, Asked, loaded, request
<1>5. CASE User
  BY <1>5 DEF User, Asked, loaded, request
<1>6. CASE UNCHANGED vars
  BY <1>6 DEF vars, Asked, loaded, request
<1> QED
  BY <1>1, <1>2, <1>3, <1>4, <1>5, <1>6 DEF Next

(* The server changes the device only for a client who asked for it, and   *)
(* never in passive mode: no late effect of a lost call, and no failure    *)
(* between two calls, makes it do anything else.                           *)
THEOREM ChangesAsAsked == Spec => OnlyAsAsked
<1>1. Init => Asked
  BY DEF Init, Asked, Belongs, StartCalls
<1> DEFINE Step ==
      changes' = changes =>
        /\ passive => UNCHANGED device
        /\ app' # app =>
             \/ app' = "resumed" /\ "start" \in Wanted
             \/ app' = "suspended" /\ "hide" \in Wanted
             \/ app' = "suspended" /\ app = "deactivated" /\ "start" \in Wanted
             \/ app' = "deactivated" /\ "stop" \in Wanted
        /\ power' # power => "start" \in Wanted
<1>2. ASSUME TypeOK, Asked, [Next]_vars
      PROVE  Step
  <2>1. CASE Start \/ Other \/ Return \/ UNCHANGED vars
    BY <2>1 DEF Start, Other, Begin, Return, vars, device
  <2>2. CASE Callback /\ ~Return
    <3>1. PICK c \in AllCalls, u \in Urls : Remote(c, u)
      BY <1>2, <2>2, CallbackSteps DEF RemoteStep
    <3>2. Does(op) /\ op \in Wanted /\ (passive => UNCHANGED device)
      BY <1>2, <3>1, RemoteAsked DEF Wanted
    <3> QED
      BY <3>2 DEF Does
  <2>3. CASE Late
    <3>1. PICK l \in lost : Possible(l.call) /\ Effect(l.call, l.url)
      BY <2>3 DEF Late
    <3>2. l.call \in AllCalls /\ Belongs(l.call, l.op) /\ l.op \in Wanted /\ ~passive
      BY <1>2 DEF TypeOK, Asked, Wanted, AllCalls
    <3>3. Does(l.op)
      BY <3>1, <3>2, EffectAsked
    <3> QED
      BY <3>2, <3>3 DEF Does
  <2>4. CASE User
    BY <1>2, <2>4 DEF User, TypeOK
  <2> QED
    BY <1>2, <2>1, <2>2, <2>3, <2>4 DEF Next
<1>3. TypeOK /\ Asked /\ [Next]_vars => [Step]_vars
  BY <1>2
<1> QED
  BY <1>1, <1>3, AskedStep, TypeCorrect, PTL DEF Spec, OnlyAsAsked

-----------------------------------------------------------------------------
(* What a callback has achieved when it comes to its next call. *)
Clear == ~failed /\ ~disturbed /\ ~passive

(* The payload is where it should be. *)
Delivered ==
  /\ Handler = "YouTube" => shown = url
  /\ Handler = "Netflix" /\ Thunder /\ appStatus # "running" => shown = url

Over == pc \in {"return", "idle"}

ThunderReady ==
  /\ op = "start" /\ pc \notin {"getPowerState", "setPowerState"} => power
  /\ pc = "launch" => app = "suspended"
  /\ pc \in {"resumeFocus", "systemcommand"} => app = "resumed"
  /\ pc \in {"configitem@", "activate"} => app = "deactivated"
  /\ pc = "activate" => config.set /\ (Handler = "Netflix" => config.url = url)
  /\ pc = "deeplink" => app \in {"resumed", "other"} /\ Handler = "YouTube"
  /\ pc = "setFocus" => app = "other" \/ (app = "resumed" /\ Delivered)

AppManReady ==
  /\ pc = "SetAppStateRunning" => app = "suspended"
  /\ pc = "SetDeepLink" => app = "resumed" /\ Handler = "YouTube"
  /\ pc = "SetFocus" => app = "resumed" /\ Delivered

Achieved ==
  Over =>
    /\ op = "start" => app = "resumed" /\ focus /\ Delivered
    /\ op = "stop" => app = "deactivated"
    /\ op = "hide" => app = "suspended" /\ good
    /\ op = "status" => (appStatus = "running" <=> app = "resumed")

Progress ==
  /\ op = "start" => url = UrlOf(payload)
  /\ pc = "idle" => result = Returned
  /\ Over /\ ~disturbed /\ ~passive /\ Thunder /\ op = "hide" /\ good => app = "suspended"
  /\ Clear /\ Thunder => ThunderReady
  /\ Clear /\ ~Thunder => AppManReady
  /\ Clear => Achieved

(* A callback that is still clear after a call: the call was answered.     *)
LEMMA ClearRemote ==
  ASSUME NEW c, NEW u, Remote(c, u), Clear'
  PROVE  /\ Clear /\ pc = c /\ Possible(c) /\ Effect(c, u) /\ good'
         /\ UNCHANGED <<backend, passive, name, op, payload, url, result>>
BY DEF Remote, Answered, Refused, Lost, Clear, loaded, request

(* What each url carries. *)
LEMMA UrlCarries ==
  ASSUME NEW p \in Payloads \cup {Nothing.payload}, UrlOf(p) = shown, name \in Names
  PROVE  /\ Handler = "YouTube" =>
              /\ shown.payload = p
              /\ Before + p.len < UrlSize => shown.kept = p.len
         /\ Handler = "Netflix" => shown.payload = p /\ shown.kept = p.len
<1>1. p.len \in Nat /\ UrlLen \in Nat /\ AddLen \in Nat
  BY PayloadLengths, LengthsAssumption
<1>2. CASE Handler = "YouTube"
  <2>1. shown.payload = p /\ shown.kept = MaxOf(0, MinOf(p.len, UrlSize - 1 - Before))
    BY <1>2 DEF UrlOf, youtube_url
  <2>2. Before + p.len < UrlSize => MaxOf(0, MinOf(p.len, UrlSize - 1 - Before)) = p.len
    BY <1>1 DEF MaxOf, MinOf, UrlSize, Before
  <2> QED
    BY <1>2, <2>1, <2>2
<1>3. CASE Handler = "Netflix"
  BY <1>3 DEF UrlOf, netflix_query
<1> QED
  BY <1>2, <1>3

LEMMA ProgressGivesProperties ==
  ASSUME TypeOK, Progress
  PROVE  LastCommandHolds /\ PayloadDelivered
<1>1. LastCommandHolds
  BY DEF Progress, LastCommandHolds, Smooth, Undisturbed, Clear, Achieved, Over, ThunderReady,
         Returned
<1>2. ASSUME Smooth, op = "start"
      PROVE  Delivered /\ url = UrlOf(payload)
  BY <1>2 DEF Progress, Smooth, Undisturbed, Clear, Achieved, Over
<1>3. PayloadDelivered
  BY <1>2, UrlCarries DEF PayloadDelivered, Delivered, TypeOK
<1> QED
  BY <1>1, <1>3

(* The parts of Progress that do not depend on what the device did.        *)
LEMMA ProgressFrame ==
  ASSUME TypeOK, Asked, Progress, NEW c \in AllCalls, NEW u, Remote(c, u), pc' # "idle",
         pc' = "return" => op \in {"start", "stop", "status"} \/ c = "suspend" \/ ~Thunder \/ passive,
         c = "suspend" => op = "hide",
         Clear' /\ Thunder => ThunderReady',
         Clear' /\ ~Thunder => AppManReady',
         Clear' => Achieved'
  PROVE  Progress'
<1>1. /\ UNCHANGED <<backend, passive, name, op, payload, url, result, disturbed>>
      /\ pc = c /\ pc # "idle"
  BY DEF Remote, loaded, request, AllCalls, Calls, AppManCalls
<1>2. UNCHANGED <<Thunder, Handler, UrlOf(payload)>>
  BY <1>1 DEF Thunder, Handler, UrlOf
<1>3. ASSUME Over', ~disturbed', ~passive', Thunder', op' = "hide", good'
      PROVE  app' = "suspended"
  <2>1. c = "suspend"
    BY <1>1, <1>2, <1>3 DEF Over
  <2>2. Answered(c, u)
    BY <1>3 DEF Remote, Refused, Lost
  <2> QED
    BY <2>1, <2>2 DEF Answered, Effect, Sets, Queries
<1> QED
  BY <1>1, <1>2, <1>3 DEF Progress

LEMMA ProgressStep ==
  ASSUME TypeOK, Asked, Progress, [Next]_vars
  PROVE  Progress'
<1> USE DEF AllCalls, Calls, AppManCalls
<1>1. CASE Start \/ Other
  <2>1. PICK o \in Ops \ {"none"}, p \in Payloads \cup {Nothing.payload} : Begin(o, p)
    BY <1>1 DEF Start, Other, Ops
  <2>2. QueryFits(p)
    BY NetflixQueryFits
  <2>3. pc' = First(o) /\ op' = o /\ payload' = p /\ url' = (IF o = "start" THEN UrlOf(p) ELSE Nothing)
        /\ UNCHANGED <<backend, passive, name>>
    BY <2>1, <2>2 DEF Begin, loaded
  <2>4. UNCHANGED <<Thunder, Handler, UrlOf(p)>>
    BY <2>3 DEF Thunder, Handler, UrlOf
  <2>5. First(o) \in {"broadcastEvent", "return"} \/ First(o) = FirstCall[backend][o]
    BY DEF First
  <2>6. First(o) # "idle" /\ (First(o) \in {"return", "broadcastEvent"} => passive)
    BY DEF First, FirstCall, TypeOK, Ops, Thunder
  <2>7. ASSUME ~passive
        PROVE  /\ Thunder => First(o) \in {"getPowerState", "suspend", "deactivate", "status@"}
               /\ Thunder /\ o = "start" => First(o) = "getPowerState"
               /\ ~Thunder => First(o) \in {"GetAppState", "SetAppStateSuspend", "KillApp"}
    BY <2>7 DEF First, FirstCall, TypeOK, Ops, Thunder
  <2>8. Over' => passive'
    BY <2>3, <2>6 DEF Over
  <2>9. Clear' => ~passive
    BY <2>3 DEF Clear
  <2>10. Clear' /\ Thunder' => ThunderReady'
    BY <2>3, <2>4, <2>7, <2>9 DEF ThunderReady
  <2>11. Clear' /\ ~Thunder' => AppManReady'
    BY <2>3, <2>4, <2>7, <2>9 DEF AppManReady
  <2>12. Clear' => Achieved'
    BY <2>8 DEF Achieved, Clear
  <2>13. pc' # "idle" /\ (op' = "start" => url' = UrlOf(payload)')
    BY <2>3, <2>4, <2>6 DEF UrlOf
  <2> QED
    BY <2>8, <2>10, <2>11, <2>12, <2>13 DEF Progress
<1>2. CASE BroadcastEvent
  <2>1. pc = "broadcastEvent" /\ pc' = "return" /\ Remote("broadcastEvent", url)
    BY <1>2 DEF BroadcastEvent, Ignored, Remote
  <2>2. Thunder /\ passive /\ ~Clear'
    BY <2>1 DEF TypeOK, Asked, Remote, loaded, Clear
  <2> QED
    BY <2>1, <2>2, ProgressFrame
<1>3. CASE GetPowerState
  <2>1. /\ Remote("getPowerState", url) /\ pc' \in {"status@", "setPowerState"}
        /\ pc' = "status@" => good' /\ power
    BY <1>3 DEF GetPowerState
  <2>2. ASSUME Clear', Thunder
        PROVE  ThunderReady'
    BY <2>1, <2>2, ClearRemote DEF ThunderReady, Effect, Sets, Queries, device
  <2>3. Thunder /\ ~Over'
    BY <2>1 DEF Remote, TypeOK, Over
  <2> QED
    BY <2>1, <2>2, <2>3, ProgressFrame DEF Achieved, Over
<1>4. CASE SetPowerState
  <2>1. Remote("setPowerState", url) /\ pc' = "status@"
    BY <1>4 DEF SetPowerState, Ignored
  <2>2. ASSUME Clear', Thunder
        PROVE  ThunderReady'
    <3>1. Effect("setPowerState", url)
      BY <2>1, <2>2, ClearRemote
    <3>2. power' = TRUE
      BY <3>1 DEF Effect, Sets, Queries
    <3> QED
      BY <2>1, <3>2 DEF ThunderReady
  <2>3. Thunder /\ ~Over'
    BY <2>1 DEF Remote, TypeOK, Over
  <2> QED
    BY <2>1, <2>2, <2>3, ProgressFrame DEF Achieved, Over
<1>5. CASE GetStatus
  <2>1. /\ Remote("status@", url) /\ appStatus' = DialStatus(good')
        /\ op \in {"start", "status"}
        /\ op = "status" => pc' = "return"
        /\ op = "start" /\ appStatus' = "hide" => pc' = "launch"
        /\ op = "start" /\ appStatus' = "stopped" => pc' = "configitem@"
        /\ op = "start" /\ appStatus' \notin {"hide", "stopped"} => pc' = Woken
    BY <1>5 DEF GetStatus, Remote, Asked, Belongs
  <2>2. pc = "status@" /\ Thunder /\ pc' # "idle"
    BY <2>1 DEF Remote, TypeOK, Woken
  <2>3. ASSUME Clear'
        PROVE  UNCHANGED device /\ Clear /\ good' = TRUE /\ op' = op
    BY <2>1, <2>3, ClearRemote DEF Effect, Sets, Queries, Remote, Answered, Refused, Lost
  <2>4. ASSUME Clear'
        PROVE  /\ app' = app /\ config' = config /\ shown' = shown
               /\ op' = "start" => power'
               /\ appStatus' = "running" <=> app = "resumed"
               /\ appStatus' = "hide" <=> app = "suspended"
               /\ appStatus' = "stopped" <=> app = "deactivated"
               /\ app \in {"suspended", "deactivated", "resumed", "other"}
    <3>1. op = "start" => power
      BY <2>2, <2>3, <2>4 DEF Progress, ThunderReady
    <3>2. power' = power /\ app' = app /\ config' = config /\ shown' = shown
      BY <2>3, <2>4 DEF device
    <3>3. appStatus' = DialStatus(TRUE)
      BY <2>1, <2>3, <2>4
    <3> QED
      BY <2>3, <2>4, <3>1, <3>2, <3>3 DEF DialStatus, TypeOK, States
  <2>5. ASSUME Clear'
        PROVE  ThunderReady'
    <3>1. /\ pc' \in {"return", "launch", "configitem@", Woken}
          /\ pc' = "launch" => appStatus' = "hide"
          /\ pc' = "configitem@" => appStatus' = "stopped"
          /\ pc' = Woken => appStatus' \notin {"hide", "stopped"}
      BY <2>1 DEF Woken
    <3>2. pc' = "deeplink" => Handler' = "YouTube"
      BY <2>1, <3>1 DEF Woken, Remote, loaded, Handler
    <3>3. pc' = "setFocus" => Handler' # "YouTube"
      BY <2>1, <3>1 DEF Woken, Remote, loaded, Handler
    <3>4. pc' = Woken => app' \in {"resumed", "other"}
      BY <2>4, <2>5, <3>1
    <3>5. pc' = "setFocus" /\ app' = "resumed" => Delivered'
      BY <2>4, <2>5, <3>3 DEF Delivered
    <3>6. pc' \notin {"resumeFocus", "systemcommand", "activate"}
      BY <3>1 DEF Woken
    <3>7. pc' \in {"deeplink", "setFocus"} => pc' = Woken
      BY <3>1
    <3>8. /\ op' = "start" => power'
          /\ pc' = "launch" => app' = "suspended"
          /\ pc' = "configitem@" => app' = "deactivated"
          /\ pc' \in {"deeplink", "setFocus"} => app' \in {"resumed", "other"}
      BY <2>4, <2>5, <3>1, <3>4, <3>7
    <3> QED
      BY <3>2, <3>5, <3>6, <3>8 DEF ThunderReady
  <2>6. ASSUME Clear'
        PROVE  Achieved'
    BY <2>1, <2>4, <2>6 DEF Achieved, Over, Woken, Remote, request
  <2> QED
    BY <2>1, <2>2, <2>5, <2>6, ProgressFrame
<1>6. CASE Resume
  <2>1. /\ Remote("launch", url) /\ pc' \in {"resumeFocus", "systemcommand", "deeplink", "setFocus"}
        /\ good' => pc' = "resumeFocus"
        /\ appStatus' = appStatus
    BY <1>6 DEF Resume, Resumed, Woken
  <2>2. Thunder /\ ~Over' /\ pc = "launch"
    BY <2>1 DEF Remote, TypeOK, Over
  <2>3. ASSUME Clear'
        PROVE  ThunderReady'
    BY <2>1, <2>2, <2>3, ClearRemote DEF ThunderReady, Effect, Sets, Queries, Progress
  <2> QED
    BY <2>1, <2>2, <2>3, ProgressFrame DEF Achieved, Over
<1>7. CASE ResumeFocus
  <2>1. Remote("resumeFocus", url) /\ pc' = Resumed /\ appStatus' = appStatus
    BY <1>7 DEF ResumeFocus, Ignored
  <2>2. Thunder /\ ~Over' /\ pc = "resumeFocus"
    BY <2>1 DEF Remote, TypeOK, Over, Resumed, Woken
  <2>3. ASSUME Clear'
        PROVE  ThunderReady'
    <3>1. ThunderReady /\ Effect("resumeFocus", url) /\ UNCHANGED <<op, Handler>>
      BY <2>1, <2>2, <2>3, ClearRemote DEF Progress, Handler
    <3>2. app' = "resumed" /\ (op = "start" => power') /\ op' = op
      BY <2>2, <3>1 DEF ThunderReady, Effect, Sets, Queries
    <3>3. \/ Handler = "Netflix" /\ pc' = "systemcommand"
          \/ Handler = "YouTube" /\ pc' = "deeplink"
          \/ Handler \notin {"Netflix", "YouTube"} /\ pc' = "setFocus"
      BY <2>1 DEF Resumed, Woken
    <3> QED
      BY <3>1, <3>2, <3>3 DEF ThunderReady, Delivered
  <2> QED
    BY <2>1, <2>2, <2>3, ProgressFrame DEF Achieved, Over
<1>8. CASE SystemCommand
  <2>1. Remote("systemcommand", url) /\ pc' = "setFocus" /\ appStatus' = appStatus
    BY <1>8 DEF SystemCommand, Ignored
  <2>2. Thunder /\ ~Over' /\ pc = "systemcommand"
    BY <2>1 DEF Remote, TypeOK, Over
  <2>3. ASSUME Clear'
        PROVE  ThunderReady'
    <3>1. ThunderReady /\ Effect("systemcommand", url) /\ UNCHANGED <<op, url>>
      BY <2>1, <2>2, <2>3, ClearRemote DEF Progress
    <3>2. app' = "resumed" /\ (op = "start" => power') /\ shown' = url
      BY <2>2, <3>1 DEF ThunderReady, Effect, Sets, Queries
    <3> QED
      BY <2>1, <3>1, <3>2 DEF ThunderReady, Delivered
  <2> QED
    BY <2>1, <2>2, <2>3, ProgressFrame DEF Achieved, Over
<1>9. CASE ConfigItem
  <2>1. PICK u : /\ Remote("configitem@", u) /\ pc' = "activate" /\ appStatus' = appStatus
                 /\ Handler = "Netflix" => u = url
    BY <1>9 DEF ConfigItem, Ignored
  <2>2. Thunder /\ ~Over' /\ pc = "configitem@"
    BY <2>1 DEF Remote, TypeOK, Over
  <2>3. ASSUME Clear'
        PROVE  ThunderReady'
    <3>1. ThunderReady /\ Effect("configitem@", u) /\ UNCHANGED <<op, url, Handler>>
      BY <2>1, <2>2, <2>3, ClearRemote DEF Progress, Handler
    <3>2. app' = "deactivated" /\ (op = "start" => power') /\ config' = [set |-> TRUE, url |-> u]
      BY <2>2, <3>1 DEF ThunderReady, Effect, Sets, Queries
    <3> QED
      BY <2>1, <3>1, <3>2 DEF ThunderReady
  <2> QED
    BY <2>1, <2>2, <2>3, ProgressFrame DEF Achieved, Over
<1>10. CASE Activate
  <2>1. Remote("activate", url) /\ pc' = Woken /\ appStatus' = appStatus
    BY <1>10 DEF Activate, Ignored
  <2>2. Thunder /\ ~Over' /\ pc = "activate"
    BY <2>1 DEF Remote, TypeOK, Over, Woken
  <2>3. ASSUME Clear'
        PROVE  ThunderReady'
    <3>1. ThunderReady /\ Effect("activate", url) /\ UNCHANGED <<op, url, Handler>>
      BY <2>1, <2>2, <2>3, ClearRemote DEF Progress, Handler
    <3>2. /\ app' = "resumed" /\ (op = "start" => power')
          /\ Handler = "Netflix" => shown' = url
      BY <2>2, <3>1 DEF ThunderReady, Effect, Sets, Queries
    <3>3. \/ Handler = "YouTube" /\ pc' = "deeplink"
          \/ Handler # "YouTube" /\ pc' = "setFocus"
      BY <2>1 DEF Woken
    <3> QED
      BY <3>1, <3>2, <3>3 DEF ThunderReady, Delivered
  <2> QED
    BY <2>1, <2>2, <2>3, ProgressFrame DEF Achieved, Over
<1>11. CASE DeepLink
  <2>1. Remote("deeplink", url) /\ pc' = "setFocus" /\ appStatus' = appStatus
    BY <1>11 DEF DeepLink, Ignored
  <2>2. Thunder /\ ~Over' /\ pc = "deeplink"
    BY <2>1 DEF Remote, TypeOK, Over
  <2>3. ASSUME Clear'
        PROVE  ThunderReady'
    <3>1. ThunderReady /\ Possible("deeplink") /\ Effect("deeplink", url) /\ UNCHANGED <<op, url>>
      BY <2>1, <2>2, <2>3, ClearRemote DEF Progress
    <3>2. app' = "resumed" /\ (op = "start" => power') /\ shown' = url
      BY <2>2, <3>1 DEF ThunderReady, Possible, Active, Effect, Sets, Queries
    <3> QED
      BY <2>1, <3>1, <3>2 DEF ThunderReady, Delivered
  <2> QED
    BY <2>1, <2>2, <2>3, ProgressFrame DEF Achieved, Over
<1>12. CASE SetFocus
  <2>1. Remote("setFocus", url) /\ pc' = "return" /\ appStatus' = appStatus
    BY <1>12 DEF SetFocus, Ignored
  <2>2. Thunder /\ pc = "setFocus" /\ op = "start"
    BY <2>1 DEF Remote, TypeOK, Asked, Belongs, StartCalls
  <2>3. ASSUME Clear'
        PROVE  ThunderReady' /\ Achieved'
    <3>1. /\ ThunderReady /\ Possible("setFocus") /\ Effect("setFocus", url)
          /\ UNCHANGED <<op, url, Handler, Thunder>>
      BY <2>1, <2>2, <2>3, ClearRemote DEF Progress, Handler, Thunder
    <3>2. app' = "resumed" /\ power' /\ shown' = shown /\ focus' /\ Delivered
      BY <2>2, <3>1 DEF ThunderReady, Possible, Active, Effect, Sets, Queries
    <3> QED
      BY <2>1, <2>2, <3>1, <3>2 DEF ThunderReady, Achieved, Delivered
  <2> QED
    BY <2>1, <2>2, <2>3, ProgressFrame
<1>13. CASE Suspend \/ Deactivate
  <2>1. PICK c \in {"suspend", "deactivate"} : Remote(c, url) /\ pc' = "return" /\ pc = c
    BY <1>13 DEF Suspend, Deactivate, Ignored, Remote
  <2>2. Thunder /\ op = IF c = "suspend" THEN "hide" ELSE "stop"
    BY <2>1 DEF TypeOK, Asked, Belongs
  <2>3. ASSUME Clear'
        PROVE  ThunderReady' /\ Achieved'
    <3>1. Effect(c, url) /\ op' = op /\ good'
      BY <2>1, <2>3, ClearRemote
    <3>2. app' = IF c = "suspend" THEN "suspended" ELSE "deactivated"
      BY <3>1 DEF Effect, Sets, Queries
    <3> QED
      BY <2>1, <2>2, <3>1, <3>2 DEF ThunderReady, Achieved
  <2> QED
    BY <2>1, <2>2, <2>3, ProgressFrame
<1>14. CASE GetAppState
  <2>1. /\ Remote("GetAppState", url) /\ appStatus' = DialStatus(good')
        /\ op \in {"start", "status"}
        /\ op = "status" => pc' = "return"
        /\ op = "start" /\ appStatus' = "hide" => pc' = "SetAppStateRunning"
        /\ op = "start" /\ appStatus' \in {"stopped", "error"} => pc' = "LaunchApp"
        /\ op = "start" /\ appStatus' \notin {"hide", "stopped", "error"} => pc' = AppManWoken
    BY <1>14 DEF GetAppState, Remote, Asked, Belongs
  <2>2. ~Thunder /\ pc' # "idle" /\ UNCHANGED <<op, Handler>>
    BY <2>1 DEF Remote, TypeOK, AppManWoken, Thunder, request, loaded, Handler
  <2>3. ASSUME Clear'
        PROVE  /\ app' = app
               /\ appStatus' = "running" <=> app = "resumed"
               /\ appStatus' = "hide" <=> app = "suspended"
               /\ appStatus' = "stopped" <=> app = "deactivated"
               /\ appStatus' \in {"running", "hide", "stopped", "error"}
    <3>1. Effect("GetAppState", url) /\ good' = TRUE
      BY <2>1, <2>3, ClearRemote DEF Remote, Answered, Refused, Lost, Clear
    <3>2. app' = app
      BY <3>1 DEF Effect, Sets, Queries, device
    <3>3. appStatus' = DialStatus(TRUE)
      BY <2>1, <3>1
    <3> QED
      BY <3>2, <3>3 DEF DialStatus, TypeOK, States
  <2>4. ASSUME Clear'
        PROVE  AppManReady'
    <3>1. pc' \in {"return", "SetAppStateRunning", "LaunchApp", AppManWoken}
      BY <2>1, <2>3, <2>4
    <3>2. pc' = AppManWoken => appStatus' = "running" /\ app' = "resumed"
      BY <2>1, <2>3, <2>4 DEF AppManWoken
    <3>3. pc' = "SetAppStateRunning" => app' = "suspended"
      BY <2>1, <2>3, <2>4 DEF AppManWoken
    <3>4. /\ pc' = "SetDeepLink" => pc' = AppManWoken /\ Handler' = "YouTube"
          /\ pc' = "SetFocus" => pc' = AppManWoken /\ Handler' # "YouTube"
      BY <2>1, <2>2, <3>1 DEF AppManWoken
    <3>5. pc' = "SetFocus" => Delivered'
      BY <3>2, <3>4 DEF Delivered
    <3> QED
      BY <3>2, <3>3, <3>4, <3>5 DEF AppManReady
  <2>5. ASSUME Clear'
        PROVE  Achieved'
    BY <2>1, <2>2, <2>3, <2>5 DEF Achieved, Over, AppManWoken
  <2> QED
    BY <2>1, <2>2, <2>4, <2>5, ProgressFrame
<1>15. CASE ResumeApp \/ LaunchApp
  <2>1. PICK c \in {"SetAppStateRunning", "LaunchApp"} :
          Remote(c, url) /\ pc' = AppManWoken /\ appStatus' = appStatus /\ pc = c
    BY <1>15 DEF ResumeApp, LaunchApp, Ignored, Remote
  <2>2. ~Thunder /\ ~Over' /\ UNCHANGED <<Handler, Thunder>>
    BY <2>1 DEF Remote, TypeOK, Over, AppManWoken, loaded, Handler, Thunder
  <2>3. ASSUME Clear'
        PROVE  AppManReady'
    <3>1. Effect(c, url)
      BY <2>1, <2>3, ClearRemote
    <3>2. app' = "resumed"
      BY <3>1 DEF Effect, Sets, Queries
    <3> QED
      BY <2>1, <2>2, <3>2 DEF AppManReady, AppManWoken, Delivered
  <2> QED
    BY <2>1, <2>2, <2>3, ProgressFrame DEF Achieved, Over
<1>16. CASE SetDeepLink
  <2>1. Remote("SetDeepLink", url) /\ pc' = "SetFocus" /\ appStatus' = appStatus
    BY <1>16 DEF SetDeepLink, Ignored
  <2>2. ~Thunder /\ ~Over' /\ pc = "SetDeepLink" /\ UNCHANGED <<Handler, Thunder, url>>
    BY <2>1 DEF Remote, TypeOK, Over, loaded, request, Handler, Thunder
  <2>3. ASSUME Clear'
        PROVE  AppManReady'
    <3>1. AppManReady /\ Effect("SetDeepLink", url)
      BY <2>1, <2>2, <2>3, ClearRemote DEF Progress
    <3>2. app' = "resumed" /\ shown' = url
      BY <2>2, <3>1 DEF AppManReady, Effect, Sets, Queries
    <3> QED
      BY <2>1, <2>2, <3>2 DEF AppManReady, Delivered
  <2> QED
    BY <2>1, <2>2, <2>3, ProgressFrame DEF Achieved, Over
<1>17. CASE AppManFocus
  <2>1. Remote("SetFocus", url) /\ pc' = "return" /\ appStatus' = appStatus
    BY <1>17 DEF AppManFocus, Ignored
  <2>2. /\ ~Thunder /\ pc = "SetFocus" /\ op = "start"
        /\ UNCHANGED <<Handler, Thunder, url, op>>
    BY <2>1 DEF Remote, TypeOK, Asked, Belongs, StartCalls, loaded, request, Handler, Thunder
  <2>3. ASSUME Clear'
        PROVE  AppManReady' /\ Achieved'
    <3>1. AppManReady /\ Effect("SetFocus", url)
      BY <2>1, <2>2, <2>3, ClearRemote DEF Progress
    <3>2. app' = "resumed" /\ shown' = shown /\ focus' /\ Delivered
      BY <2>2, <3>1 DEF AppManReady, Effect, Sets, Queries
    <3> QED
      BY <2>1, <2>2, <3>2 DEF AppManReady, Achieved, Delivered
  <2> QED
    BY <2>1, <2>2, <2>3, ProgressFrame
<1>18. CASE HideApp \/ KillApp
  <2>1. PICK c \in {"SetAppStateSuspend", "KillApp"} :
          Remote(c, url) /\ pc' = "return" /\ pc = c
    BY <1>18 DEF HideApp, KillApp, Ignored, Remote
  <2>2. ~Thunder /\ op = IF c = "SetAppStateSuspend" THEN "hide" ELSE "stop"
    BY <2>1 DEF TypeOK, Asked, Belongs
  <2>3. ASSUME Clear'
        PROVE  AppManReady' /\ Achieved'
    <3>1. Effect(c, url) /\ op' = op /\ good'
      BY <2>1, <2>3, ClearRemote
    <3>2. app' = IF c = "SetAppStateSuspend" THEN "suspended" ELSE "deactivated"
      BY <3>1 DEF Effect, Sets, Queries
    <3> QED
      BY <2>1, <2>2, <3>1, <3>2 DEF AppManReady, Achieved
  <2> QED
    BY <2>1, <2>2, <2>3, ProgressFrame
<1>19. CASE Return
  <2>1. /\ pc = "return" /\ pc' = "idle" /\ result' = Returned
        /\ UNCHANGED <<backend, passive, name, app, config, shown, focus, power, op, payload, url,
                       appStatus, good, failed, disturbed>>
    BY <1>19 DEF Return, loaded, device, request
  <2>2. UNCHANGED <<Thunder, Handler, UrlOf(payload), Clear, Returned>> /\ (Delivered' <=> Delivered)
    BY <2>1 DEF Thunder, Handler, UrlOf, Clear, Returned, Delivered
  <2>3. (Achieved => Achieved') /\ (ThunderReady => ThunderReady') /\ AppManReady'
    BY <2>1, <2>2 DEF Achieved, ThunderReady, AppManReady, Over
  <2> QED
    BY <2>1, <2>2, <2>3 DEF Progress, Over
<1>20. CASE Late \/ User
  <2>1. disturbed' /\ UNCHANGED <<backend, passive, name, op, payload, url, pc, result, appStatus, good>>
    BY <1>20 DEF Late, User, loaded, request
  <2>2. UNCHANGED <<UrlOf(payload), Returned>> /\ ~Clear'
    BY <2>1 DEF Thunder, Handler, UrlOf, Clear, Returned
  <2> QED
    BY <2>1, <2>2 DEF Progress
<1>21. CASE UNCHANGED vars
  <2>1. UNCHANGED <<backend, passive, name, app, config, shown, focus, power, op, payload, url, pc,
                    appStatus, good, result, failed, disturbed>>
    BY <1>21 DEF vars, loaded, device, request
  <2>2. UNCHANGED <<Thunder, Handler, UrlOf(payload), Clear, Returned>> /\ (Delivered' <=> Delivered)
    BY <2>1 DEF Thunder, Handler, UrlOf, Clear, Returned, Delivered
  <2>3. (Achieved => Achieved') /\ (ThunderReady => ThunderReady') /\ (AppManReady => AppManReady')
    BY <2>1, <2>2 DEF Achieved, ThunderReady, AppManReady, Over
  <2> QED
    BY <2>1, <2>2, <2>3 DEF Progress, Over
<1> QED
  BY <1>1, <1>2, <1>3, <1>4, <1>5, <1>6, <1>7, <1>8, <1>9, <1>10, <1>11, <1>12, <1>13, <1>14,
     <1>15, <1>16, <1>17, <1>18, <1>19, <1>20, <1>21
  DEF Next, Callback

LEMMA Inductive ==
  /\ Init => Asked /\ Progress
  /\ TypeOK /\ Asked /\ Progress /\ [Next]_vars => (Asked /\ Progress)'
<1>1. Init => Asked
  BY DEF Init, Asked, Belongs, StartCalls
<1>2. Init => Progress
  BY DEF Init, Progress, Over, Returned, Clear, ThunderReady, AppManReady, Achieved
<1> QED
  BY <1>1, <1>2, AskedStep, ProgressStep

(* When no call failed and nothing else touched the device, every callback *)
(* leaves the application as the client asked, for every backend, handler  *)
(* and payload, whatever earlier callbacks, users and late calls did.      *)
THEOREM CommandHolds == Spec => []LastCommandHolds
<1>1. Spec => [](TypeOK /\ Asked /\ Progress)
  BY Inductive, TypeCorrect, PTL DEF Spec
<1>2. TypeOK /\ Asked /\ Progress => LastCommandHolds
  BY ProgressGivesProperties
<1> QED
  BY <1>1, <1>2, PTL

(* And a launch that needs the payload shows it.                           *)
THEOREM PayloadShown == Spec => []PayloadDelivered
<1>1. Spec => [](TypeOK /\ Asked /\ Progress)
  BY Inductive, TypeCorrect, PTL DEF Spec
<1>2. TypeOK /\ Asked /\ Progress => PayloadDelivered
  BY ProgressGivesProperties
<1> QED
  BY <1>1, <1>2, PTL
=============================================================================
