----------------------------- MODULE DialServer -----------------------------
(***************************************************************************)
(* The DIAL REST server, src/dial_server.c, with the application callbacks *)
(* of src/main.c, nf_callbacks.c and amazon_callbacks.c: worker threads    *)
(* handle requests for registered applications, and the program that       *)
(* embeds the server registers and unregisters applications.               *)
(*                                                                         *)
(* One mutex, ds->mux, protects the applications.  A handler holds it from *)
(* find_app to its reply, across the reading of the request body and       *)
(* across the callbacks, so that a critical section is several steps here. *)
(* A callback is two steps: matchAppInfo, which sets the one global        *)
(* curAppForDial, and the remote call for the application found there.     *)
(* Memory allocation and locking succeed.                                  *)
(***************************************************************************)
EXTENDS Naturals

CONSTANTS
  Threads,      \* the worker threads of the web server
  Host,         \* the thread of the embedding program
  Nobody,       \* the holder of a free mutex
  Apps,         \* application names
  NoApp,        \* curAppForDial is NULL
  YouTubeApps,  \* names that contain "YouTube"
  SystemApps,   \* the name "system"
  Origins,      \* values of the Origin header
  NoOrigin,     \* the request has no Origin header
  EmptyOrigin,  \* the header is there, without a value
  CorsArgs,     \* what corsAllowedOrigin can be: the origins a list matches,
  NoList,       \* or this one: NULL, or too long for 255 bytes
  MaxRequests   \* bound: requests in one behaviour

ASSUME ThreadsAssumption == Host \notin Threads /\ Nobody \notin Threads \cup {Host}
ASSUME AppsAssumption == YouTubeApps \subseteq Apps /\ SystemApps \subseteq Apps
ASSUME OriginsAssumption == NoOrigin \notin Origins /\ EmptyOrigin \in Origins
ASSUME CorsAssumption == CorsArgs \ {NoList} \subseteq SUBSET Origins
ASSUME RequestsAssumption == MaxRequests \in Nat

(* DIALStatus.  A status callback reports one of the first four. *)
Reported == {"stopped", "hide", "running", "error"}
Status == Reported \cup {"forbidden", "unauth", "not_implemented"}

Ops == {"start", "status", "stop", "hide", "data_get", "data_post", "options"}
DataOps == {"data_get", "data_post"}

(* What a request body, or the query of a GET to dial_data, can be: usable *)
(* text, bytes isBadPayload refuses, or too long.                          *)
Texts == {"one", "two"}
Bodies == Texts \cup {"unprintable", "oversize"}

(* The DIAL data of an application: the list that parse_params makes of a  *)
(* text, or whatever retrieve_dial_data found in the file.  How a list is  *)
(* written there and read back is the subject of DialData.                 *)
Lists == Texts \cup {"file"}

Requests == [op : Ops, app : Apps, origin : Origins \cup {NoOrigin}]

CONSTANTS
  Arrivals,   \* the requests that can arrive
  Garbage,    \* app->payload as malloc left it
  NoRequest   \* what an idle thread works on

ASSUME ArrivalsAssumption == Arrivals \subseteq Requests /\ NoRequest \notin Requests

VARIABLES
  mux,        \* who holds ds->mux
  apps,       \* the applications in the list ds->apps
  cors,       \* the origins that app->corsAllowedOrigin matches
  state,      \* app->state
  payload,    \* app->payload
  dial_data,  \* app->dial_data
  curApp,     \* curAppForDial
  launched,   \* history: the payload of the last launch that succeeded since
              \* the application was registered
  pc,         \* where each thread is in its handler
  req,        \* the request each thread handles
  body,       \* what it read of the request's body
  seen,       \* what status_cb returned to it
  result,     \* what start_cb or hide_cb returned to it
  answer,     \* its last reply
  left,       \* requests that can still arrive
  up,         \* the process has not exited
  dropped     \* history: the threads whose application was unregistered
              \* after the check of their origin

vars == <<mux, apps, cors, state, payload, dial_data, curApp, launched,
          pc, req, body, seen, result, answer, left, up, dropped>>

appvars == <<apps, cors, state, payload, dial_data>>
locals == <<req, body, seen, result, dropped>>

Init ==
  /\ mux = Nobody
  /\ apps = {}
  /\ cors = [a \in Apps |-> {}]
  /\ state = [a \in Apps |-> "stopped"]
  /\ payload = [a \in Apps |-> Garbage]
  /\ dial_data = [a \in Apps |-> "file"]
  /\ curApp = NoApp
  /\ launched = [a \in Apps |-> Garbage]
  /\ pc = [t \in Threads |-> "idle"]
  /\ req = [t \in Threads |-> NoRequest]
  /\ body = [t \in Threads |-> Garbage]
  /\ seen = [t \in Threads |-> "stopped"]
  /\ result = [t \in Threads |-> "stopped"]
  /\ answer = [t \in Threads |-> "none"]
  /\ left = MaxRequests
  /\ up = TRUE
  /\ dropped = {}

App(t) == req[t].app
Op(t) == req[t].op

Goto(t, place) == pc' = [pc EXCEPT ![t] = place]

(* The thread replies and is done with the request. *)
Reply(t, code) ==
  /\ pc' = [pc EXCEPT ![t] = "idle"]
  /\ answer' = [answer EXCEPT ![t] = code]
  /\ req' = [req EXCEPT ![t] = NoRequest]
  /\ body' = [body EXCEPT ![t] = Garbage]
  /\ seen' = [seen EXCEPT ![t] = "stopped"]
  /\ result' = [result EXCEPT ![t] = "stopped"]
  /\ dropped' = dropped \ {t}

(* The reply under the mutex, and ds_unlock. *)
ReplyUnlock(t, code) == Reply(t, code) /\ mux' = Nobody

-----------------------------------------------------------------------------
(* request_handler: routing and the check of the origin.                   *)

Receive(t) ==
  /\ pc[t] = "idle" /\ left > 0
  /\ left' = left - 1
  /\ \E r \in Arrivals : req' = [req EXCEPT ![t] = r]
  /\ answer' = [answer EXCEPT ![t] = "none"]
  /\ Goto(t, "check")
  /\ UNCHANGED <<mux, appvars, curApp, launched, body, seen, result, dropped>>

(* is_allowed_origin, with its own critical section; apps in the guard is  *)
(* the search of the list, which ends the same way when nothing matches.   *)
allows_unknown_app(o, a) ==                     \* mutant of is_allowed_origin
  o = EmptyOrigin \/ (a \in apps => o \in cors[a])

is_allowed_origin(o, a) == o = EmptyOrigin \/ (a \in apps /\ o \in cors[a])

Check(t) ==
  /\ pc[t] = "check"
  /\ req[t].origin \in {NoOrigin, EmptyOrigin} \/ mux = Nobody
  /\ IF req[t].origin # NoOrigin /\ ~is_allowed_origin(req[t].origin, App(t))
     THEN Reply(t, "refused")
     ELSE IF Op(t) = "options"
          THEN Reply(t, "no_content")
          ELSE Goto(t, "enter") /\ UNCHANGED <<locals, answer>>
  /\ UNCHANGED <<mux, appvars, curApp, launched, left>>

-----------------------------------------------------------------------------
(* handle_app_start, handle_app_status, handle_app_stop, handle_app_hide   *)
(* and handle_dial_data: ds_lock and find_app.                             *)

FirstStep == [start |-> "read", status |-> "query_match", stop |-> "query_match",
              hide |-> "query_match", data_get |-> "read", data_post |-> "read"]

Enter(t) ==
  /\ pc[t] = "enter" /\ mux = Nobody
  /\ IF Op(t) = "stop" /\ App(t) \in SystemApps
     THEN ReplyUnlock(t, "forbidden")
     ELSE IF App(t) \notin apps
          THEN ReplyUnlock(t, "not_found")
          ELSE /\ mux' = t
               /\ Goto(t, FirstStep[Op(t)])
               /\ UNCHANGED <<locals, answer>>
  /\ UNCHANGED <<appvars, curApp, launched, left>>

NeverTooLarge(b) == FALSE                       \* mutant of TooLarge
TooLarge(b) == b = "oversize"

(* mg_read returns what came before the client stopped or the receive time *)
(* ran out.                                                                *)
ReadStart(t) ==
  /\ pc[t] = "read" /\ Op(t) = "start"
  /\ \E b \in Bodies :
       IF TooLarge(b) THEN ReplyUnlock(t, "too_large")
       ELSE IF b = "unprintable" THEN ReplyUnlock(t, "bad_request")
       ELSE IF req[t].origin = NoOrigin /\ App(t) \in YouTubeApps
            THEN ReplyUnlock(t, "forbidden")
            ELSE /\ body' = [body EXCEPT ![t] = b]
                 /\ Goto(t, "query_match")
                 /\ UNCHANGED <<mux, req, seen, result, dropped, answer>>
  /\ UNCHANGED <<appvars, curApp, launched, left>>

(* A POST to dial_data is never too large: no more is read than the limit. *)
DataBodies(t) == IF Op(t) = "data_post" THEN Bodies \ {"oversize"} ELSE Bodies

(* The list is replaced by what parse_params makes of the text, and the    *)
(* new list is written to the file.                                        *)
StoreData(t) ==
  /\ pc[t] = "read" /\ Op(t) \in DataOps
  /\ \E b \in DataBodies(t) :
       IF TooLarge(b) THEN ReplyUnlock(t, "too_large") /\ UNCHANGED dial_data
       ELSE IF b = "unprintable"
            THEN ReplyUnlock(t, "bad_request") /\ UNCHANGED dial_data
            ELSE /\ dial_data' = [dial_data EXCEPT ![App(t)] = b]
                 /\ ReplyUnlock(t, "ok")
  /\ UNCHANGED <<apps, cors, state, payload, curApp, launched, left>>

(* store_dial_data exits when it cannot open the file: the process ends,   *)
(* with this request and all others as they are.                           *)
StoreFails(t) ==
  /\ pc[t] = "read" /\ Op(t) \in DataOps
  /\ up' = FALSE
  /\ UNCHANGED <<mux, appvars, curApp, launched, pc, locals, answer, left>>

-----------------------------------------------------------------------------
(* status_cb: matchAppInfo, then getAppStatus of curAppForDial.            *)

KeepsMatch(t) ==                                \* mutant of matchAppInfo
  curApp' = IF curApp \in apps THEN curApp ELSE App(t)

matchAppInfo(t) == curApp' = App(t)

QueryMatch(t) ==
  /\ pc[t] = "query_match"
  /\ matchAppInfo(t)
  /\ Goto(t, "query_rpc")
  /\ UNCHANGED <<mux, appvars, launched, locals, answer, left>>

(* What the status decides: the reply to a status request, or whether the  *)
(* application is told to start, stop or hide.                             *)
Proceeds(t, s) ==
  \/ Op(t) = "start"
  \/ Op(t) = "stop" /\ s # "stopped"
  \/ Op(t) = "hide" /\ s \in {"running", "hide"}

QueryRpc(t) ==
  /\ pc[t] = "query_rpc"
  /\ \E s \in Reported :
       /\ state' = [state EXCEPT ![App(t)] = s]
       /\ IF Proceeds(t, s)
          THEN /\ seen' = [seen EXCEPT ![t] = s]
               /\ Goto(t, "cmd_match")
               /\ UNCHANGED <<mux, req, body, result, dropped, answer>>
          ELSE ReplyUnlock(t, IF Op(t) = "status" THEN "ok" ELSE "not_found")
  /\ UNCHANGED <<apps, cors, payload, dial_data, curApp, launched, left>>

-----------------------------------------------------------------------------
(* start_cb, stop_cb and hide_cb, and what the handler makes of the result.*)

CmdMatch(t) ==
  /\ pc[t] = "cmd_match"
  /\ matchAppInfo(t)
  /\ Goto(t, "cmd_rpc")
  /\ UNCHANGED <<mux, appvars, launched, locals, answer, left>>

(* start_cb may return any DIALStatus; hide_cb hides or fails; stop_cb     *)
(* returns nothing.                                                        *)
CmdResults(op) ==
  CASE op = "start" -> Status [] op = "hide" -> {"hide", "error"}
    [] OTHER -> {"stopped"}

CmdRpc(t) ==
  /\ pc[t] = "cmd_rpc"
  /\ \E r \in CmdResults(Op(t)) :
       /\ result' = [result EXCEPT ![t] = r]
       /\ launched' = IF Op(t) = "start" /\ r = "running"
                      THEN [launched EXCEPT ![curApp] = body[t]] ELSE launched
  /\ Goto(t, "settle")
  /\ UNCHANGED <<mux, appvars, curApp, req, body, seen, dropped, answer, left>>

(* The replies of handle_app_start to a launch, by the state it left.      *)
LaunchCode(t) ==
  CASE result[t] = "running" ->
         IF seen[t] = "running" /\ App(t) \in YouTubeApps THEN "ok" ELSE "created"
    [] result[t] \in {"forbidden", "unauth", "not_implemented"} -> result[t]
    [] OTHER -> "unavailable"

SettleStartAlways(t) ==                         \* mutant of SettleStart
  /\ pc[t] = "settle" /\ Op(t) = "start"
  /\ state' = [state EXCEPT ![App(t)] = result[t]]
  /\ payload' = [payload EXCEPT ![App(t)] = body[t]]
  /\ ReplyUnlock(t, LaunchCode(t))
  /\ UNCHANGED <<apps, cors, dial_data, curApp, launched, left>>

SettleStart(t) ==
  /\ pc[t] = "settle" /\ Op(t) = "start"
  /\ state' = [state EXCEPT ![App(t)] = result[t]]
  /\ payload' = IF result[t] = "running"
                THEN [payload EXCEPT ![App(t)] = body[t]] ELSE payload
  /\ ReplyUnlock(t, LaunchCode(t))
  /\ UNCHANGED <<apps, cors, dial_data, curApp, launched, left>>

SettleStop(t) ==
  /\ pc[t] = "settle" /\ Op(t) = "stop"
  /\ state' = [state EXCEPT ![App(t)] = "stopped"]
  /\ ReplyUnlock(t, "ok")
  /\ UNCHANGED <<apps, cors, payload, dial_data, curApp, launched, left>>

SettleHideLocked(t) ==                          \* mutant of SettleHide
  /\ pc[t] = "settle" /\ Op(t) = "hide"
  /\ IF result[t] = "hide"
     THEN state' = [state EXCEPT ![App(t)] = "hide"] /\ ReplyUnlock(t, "ok")
     ELSE Reply(t, "not_implemented") /\ UNCHANGED <<state, mux>>
  /\ UNCHANGED <<apps, cors, payload, dial_data, curApp, launched, left>>

SettleHide(t) ==
  /\ pc[t] = "settle" /\ Op(t) = "hide"
  /\ IF result[t] = "hide"
     THEN state' = [state EXCEPT ![App(t)] = "hide"] /\ ReplyUnlock(t, "ok")
     ELSE ReplyUnlock(t, "not_implemented") /\ UNCHANGED state
  /\ UNCHANGED <<apps, cors, payload, dial_data, curApp, launched, left>>

-----------------------------------------------------------------------------
(* DIAL_register_app and DIAL_unregister_app.                              *)

(* With no CORS list, or one that is too long, the function returns before *)
(* the application is linked and before ds_unlock.                         *)
Register(a, list) ==
  /\ mux = Nobody /\ a \notin apps
  /\ IF list # NoList
     THEN /\ apps' = apps \cup {a}
          /\ cors' = [cors EXCEPT ![a] = list]
          /\ state' = [state EXCEPT ![a] = "stopped"]
          /\ payload' = [payload EXCEPT ![a] = Garbage]
          /\ dial_data' = [dial_data EXCEPT ![a] = "file"]
          /\ UNCHANGED mux
     ELSE mux' = Host /\ UNCHANGED appvars
  /\ UNCHANGED <<curApp, launched, pc, locals, answer, left>>

(* The application is unlinked and freed: its fields mean nothing now.     *)
Freed(a) ==
  /\ apps' = apps \ {a}
  /\ cors' = [cors EXCEPT ![a] = {}]
  /\ state' = [state EXCEPT ![a] = "stopped"]
  /\ payload' = [payload EXCEPT ![a] = Garbage]
  /\ dial_data' = [dial_data EXCEPT ![a] = "file"]
  /\ launched' = [launched EXCEPT ![a] = Garbage]
  /\ dropped' = dropped \cup {t \in Threads : pc[t] = "enter" /\ App(t) = a}
  /\ UNCHANGED <<curApp, pc, req, body, seen, result, answer, left>>

UnregisterUnlocked(a) ==                        \* mutant of Unregister
  a \in apps /\ Freed(a) /\ UNCHANGED mux

UnregisterKeepsLock(a) ==                       \* mutant of Unregister
  mux = Nobody /\ a \in apps /\ Freed(a) /\ mux' = Host

Unregister(a) == mux = Nobody /\ a \in apps /\ Freed(a) /\ UNCHANGED mux

-----------------------------------------------------------------------------
Proceed(t) ==
  \/ Check(t) \/ Enter(t) \/ ReadStart(t) \/ StoreData(t)
  \/ QueryMatch(t) \/ QueryRpc(t) \/ CmdMatch(t) \/ CmdRpc(t)
  \/ SettleStart(t) \/ SettleStop(t) \/ SettleHide(t)

HandlerStep(t) == up /\ (StoreFails(t) \/ (Proceed(t) /\ UNCHANGED up))

HostStep ==
  \E a \in Apps : (\E list \in CorsArgs : Register(a, list)) \/ Unregister(a)

Next ==
  \/ up /\ HostStep /\ UNCHANGED up
  \/ \E t \in Threads : (up /\ Receive(t) /\ UNCHANGED up) \/ HandlerStep(t)

Spec == Init /\ [][Next]_vars

(* A thread in a handler keeps running.  Its remote calls have timeouts;   *)
(* mg_read ends after DIAL_MAX_PAYLOAD bytes, and each of its reads ends   *)
(* after the socket's receive timeout, so a slow client holds the handler  *)
(* for long but not for ever.  Requests and registrations need not happen. *)
FairSpec == Spec /\ \A t \in Threads : WF_vars(HandlerStep(t))

-----------------------------------------------------------------------------
(* Properties.                                                             *)

Critical == {"read", "query_match", "query_rpc", "cmd_match", "cmd_rpc", "settle"}
Commanding == {"cmd_match", "cmd_rpc", "settle"}

(* Every variable keeps its type. *)
TypeOK ==
  /\ mux \in Threads \cup {Host, Nobody}
  /\ apps \subseteq Apps
  /\ cors \in [Apps -> SUBSET Origins]
  /\ state \in [Apps -> Status]
  /\ payload \in [Apps -> Texts \cup {Garbage}]
  /\ dial_data \in [Apps -> Lists]
  /\ curApp \in Apps \cup {NoApp}
  /\ launched \in [Apps -> Texts \cup {Garbage}]
  /\ pc \in [Threads -> {"idle", "check", "enter"} \cup Critical]
  /\ req \in [Threads -> Requests \cup {NoRequest}]
  /\ \A t \in Threads : pc[t] # "idle" => req[t] \in Requests
  /\ body \in [Threads -> Texts \cup {Garbage}]
  /\ seen \in [Threads -> Reported]
  /\ result \in [Threads -> Status]
  /\ answer \in [Threads -> {"none", "refused", "no_content", "forbidden",
       "not_found", "too_large", "bad_request", "ok", "created", "unauth",
       "not_implemented", "unavailable"}]
  /\ left \in 0..MaxRequests
  /\ up \in BOOLEAN
  /\ dropped \subseteq Threads

(* Every path of every handler, early returns included, releases the mutex *)
(* it took, and no two handlers are in their critical sections.            *)
LockHeldByHandler == \A t \in Threads : mux = t <=> pc[t] \in Critical

(* A callback finds its application through one global that every callback *)
(* overwrites; the remote call still goes to the application of its own    *)
(* request, whatever other requests are in progress.                       *)
CallbackTargetsOwnApp ==
  \A t \in Threads : pc[t] \in {"query_rpc", "cmd_rpc"} => curApp = App(t)

(* From find_app to the reply the application stays registered (its memory *)
(* is not freed under the handler), and a stop, hide or start is carried   *)
(* out on the status that was reported for this very request: nobody else  *)
(* changes the recorded state between the query and the command.           *)
DecisionIsFresh ==
  \A t \in Threads :
    /\ pc[t] \in Critical => App(t) \in apps
    /\ pc[t] \in Commanding => state[App(t)] = seen[t] /\ Proceeds(t, seen[t])

(* Nobody tells an application what to do for an origin that the list of   *)
(* its registration does not match, although the origin is checked in      *)
(* another critical section than the one that acts; the one exception is a *)
(* request whose application was unregistered in between, and registered   *)
(* again, perhaps with another list.  YouTube is never launched for a      *)
(* request without an Origin header, and the system application is never   *)
(* told to stop.                                                           *)
CommandsAuthorised ==
  \A t \in Threads : pc[t] \in Commanding =>
    /\ \/ req[t].origin \in {NoOrigin, EmptyOrigin} \cup cors[App(t)]
       \/ t \in dropped
    /\ Op(t) = "start" /\ App(t) \in YouTubeApps => req[t].origin # NoOrigin
    /\ Op(t) = "stop" => App(t) \notin SystemApps

(* "Get the last payload delivered to an application" (dial_server.h:174): *)
(* with concurrent launches, of one application or of several, the payload *)
(* recorded for an application is the one it was launched with last.       *)
PayloadMatchesLaunch ==
  mux = Nobody => \A a \in apps : payload[a] \in {Garbage, launched[a]}

(* Every request is answered, unless the process exits because the file of *)
(* DIAL data cannot be opened for writing.                                 *)
RequestsAnswered == \A t \in Threads : pc[t] # "idle" ~> pc[t] = "idle" \/ ~up

(* Although a handler takes many steps and shares the list, the mutex and  *)
(* curAppForDial with others, every request is carried out as by           *)
(* DialService: its origin is judged by the list of the registration of    *)
(* that moment, and then it is carried out in one step, when it is         *)
(* answered, on an application that is registered then.                    *)
Service == INSTANCE DialService WITH
             Clients <- Threads,
             Payloads <- Texts,
             Values <- Texts,
             OwnValue <- "file",
             CorsLists <- CorsArgs \ {NoList},
             NoPayload <- Garbage,
             request <- req,
             admitted <- {t \in Threads : pc[t] \notin {"idle", "check"}}

RequestsAtomic == Service!Spec
=============================================================================
