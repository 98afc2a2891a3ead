-------------------------- MODULE DialServer_proofs --------------------------
(***************************************************************************)
(* Theorems about DialServer, for any number of threads, applications,     *)
(* origins and requests, any CORS lists, and registrations of any kind.    *)
(***************************************************************************)
EXTENDS DialServer, TLAPS

CmdOps == {"start", "stop", "hide"}
QueryOps == CmdOps \cup {"status"}
Querying == {"query_match", "query_rpc"}

(* What each handler knows of its request at each of its steps. *)
OpAtStep ==
  \A t \in Threads :
    /\ pc[t] = "idle" => req[t] = NoRequest
    /\ pc[t] = "enter" => Op(t) # "options"
    /\ pc[t] = "read" => Op(t) \in {"start"} \cup DataOps
    /\ pc[t] \in Querying => Op(t) \in QueryOps
    /\ pc[t] \in Commanding => Op(t) \in CmdOps

Authorised ==
  /\ \A a \in Apps \ apps : cors[a] = {}
  /\ \A t \in Threads :
       /\ pc[t] \in {"enter"} \cup Critical =>
            \/ req[t].origin \in {NoOrigin, EmptyOrigin} \cup cors[App(t)]
            \/ t \in dropped
       /\ pc[t] \in Querying \cup Commanding =>
            (Op(t) = "start" /\ App(t) \in YouTubeApps => req[t].origin # NoOrigin)
       /\ pc[t] \in Critical => (Op(t) = "stop" => App(t) \notin SystemApps)

BodyRead ==
  \A t \in Threads :
    pc[t] \in Querying \cup Commanding /\ Op(t) = "start" => body[t] \in Texts

(* A launch that succeeded and is not recorded yet. *)
Unrecorded(t) ==
  pc[t] = "settle" /\ Op(t) = "start" /\ result[t] = "running"

(* The payload of an application differs from its last launch only while   *)
(* the handler of that launch has still to record it.                      *)
PayloadInv ==
  /\ \A t \in Threads : Unrecorded(t) => launched[App(t)] = body[t]
  /\ \A a \in apps :
       \/ payload[a] \in {Garbage, launched[a]}
       \/ \E t \in Threads : Unrecorded(t) /\ App(t) = a

(* The inductive invariant. *)
Inv ==
  /\ TypeOK
  /\ OpAtStep
  /\ LockHeldByHandler
  /\ CallbackTargetsOwnApp
  /\ DecisionIsFresh
  /\ Authorised
  /\ BodyRead
  /\ PayloadInv

-----------------------------------------------------------------------------
LEMMA InitInv == Init => Inv
<1> SUFFICES ASSUME Init PROVE Inv
  OBVIOUS
<1>2. TypeOK
  BY RequestsAssumption DEF Init, TypeOK, Status, Reported, Lists
<1>3. LockHeldByHandler
  BY ThreadsAssumption DEF Init, LockHeldByHandler, Critical
<1>4. OpAtStep /\ CallbackTargetsOwnApp /\ DecisionIsFresh /\ Authorised /\ BodyRead
  BY DEF Init, OpAtStep, CallbackTargetsOwnApp, DecisionIsFresh, Authorised,
         BodyRead, Critical, Commanding, Querying
<1>5. PayloadInv
  BY DEF Init, PayloadInv, Unrecorded
<1> QED
  BY <1>2, <1>3, <1>4, <1>5 DEF Inv

-----------------------------------------------------------------------------
LEMMA TypeStep == Inv /\ [Next]_vars => TypeOK'
<1> SUFFICES ASSUME Inv, [Next]_vars PROVE TypeOK'
  OBVIOUS
<1>u. up' \in BOOLEAN
  BY DEF Inv, TypeOK, Next, HandlerStep, StoreFails, vars
<1> USE <1>u DEF TypeOK
<1>a. TypeOK /\ OpAtStep /\ BodyRead
  BY DEF Inv
<1>1. ASSUME NEW t \in Threads, Receive(t) PROVE TypeOK'
  BY <1>1, <1>a, RequestsAssumption, ArrivalsAssumption DEF Receive, Goto, appvars
<1>2. ASSUME NEW t \in Threads, Check(t) PROVE TypeOK'
  BY <1>2, <1>a DEF Check, Reply, Goto, appvars, locals, Reported, Status
<1>3. ASSUME NEW t \in Threads, Enter(t) PROVE TypeOK'
  <2>1. FirstStep[Op(t)] \in Critical
    BY <1>3, <1>a DEF Enter, OpAtStep, FirstStep, Requests, Ops, Op, Critical
  <2> QED
    BY <1>3, <1>a, <2>1 DEF Enter, ReplyUnlock, Reply, Goto, appvars, locals,
                           Reported, Status
<1>4. ASSUME NEW t \in Threads, ReadStart(t) PROVE TypeOK'
  BY <1>4, <1>a DEF ReadStart, TooLarge, Bodies, ReplyUnlock, Reply, Goto,
                    appvars, Reported, Status, Critical
<1>5. ASSUME NEW t \in Threads, StoreData(t) PROVE TypeOK'
  BY <1>5, <1>a DEF StoreData, DataBodies, TooLarge, Bodies, Lists, ReplyUnlock, Reply, Reported, Status
<1>6. ASSUME NEW t \in Threads, QueryMatch(t) \/ CmdMatch(t) PROVE TypeOK'
  BY <1>6, <1>a DEF QueryMatch, CmdMatch, matchAppInfo, App, Requests, Goto,
                    appvars, locals, Critical
<1>7. ASSUME NEW t \in Threads, QueryRpc(t) PROVE TypeOK'
  <2>1. PICK s \in Reported :
          /\ state' = [state EXCEPT ![App(t)] = s]
          /\ \/ /\ seen' = [seen EXCEPT ![t] = s]
                /\ Goto(t, "cmd_match")
                /\ UNCHANGED <<mux, req, body, result, dropped, answer>>
             \/ \E code \in {"ok", "not_found"} : ReplyUnlock(t, code)
    BY <1>7 DEF QueryRpc
  <2>2. s \in Status
    BY DEF Status
  <2>3. UNCHANGED <<apps, cors, payload, dial_data, curApp, launched, left>>
    BY <1>7 DEF QueryRpc
  <2>4. CASE /\ seen' = [seen EXCEPT ![t] = s]
             /\ Goto(t, "cmd_match")
             /\ UNCHANGED <<mux, req, body, result, dropped, answer>>
    <3>1. state' = [state EXCEPT ![App(t)] = s] /\ pc[t] = "query_rpc"
      BY <1>7, <2>1 DEF QueryRpc
    <3> QED
      BY <1>a, <2>2, <2>3, <2>4, <3>1 DEF Goto, Critical
  <2>5. ASSUME NEW code \in {"ok", "not_found"}, ReplyUnlock(t, code)
        PROVE  TypeOK'
    BY <1>a, <2>1, <2>2, <2>3, <2>5 DEF ReplyUnlock, Reply, Reported, Status
  <2> QED
    BY <2>1, <2>4, <2>5
<1>8. ASSUME NEW t \in Threads, CmdRpc(t) PROVE TypeOK'
  <2>1. CmdResults(Op(t)) \subseteq Status
    BY DEF CmdResults, Status, Reported
  <2>2. Op(t) = "start" => body[t] \in Texts
    BY <1>8, <1>a DEF CmdRpc, BodyRead, Commanding
  <2> QED
    BY <1>8, <1>a, <2>1, <2>2 DEF CmdRpc, Goto, appvars, Critical
<1>9. ASSUME NEW t \in Threads, SettleStart(t) PROVE TypeOK'
  <2>1. LaunchCode(t) \in {"ok", "created", "forbidden", "unauth",
                           "not_implemented", "unavailable"}
    BY DEF LaunchCode
  <2> QED
    BY <1>9, <1>a, <2>1 DEF SettleStart, ReplyUnlock, Reply, Reported, Status
<1>10. ASSUME NEW t \in Threads, SettleStop(t) \/ SettleHide(t) PROVE TypeOK'
  BY <1>10, <1>a DEF SettleStop, SettleHide, ReplyUnlock, Reply, Reported, Status
<1>11. ASSUME NEW a \in Apps, NEW list \in CorsArgs, Register(a, list) PROVE TypeOK'
  BY <1>11, <1>a, CorsAssumption
     DEF Register, appvars, locals, Status, Reported, Lists
<1>12. ASSUME NEW a \in Apps, Unregister(a) PROVE TypeOK'
  BY <1>12, <1>a DEF Unregister, Freed, Status, Reported, Lists
<1>13. ASSUME NEW t \in Threads, StoreFails(t) PROVE TypeOK'
  BY <1>13, <1>a DEF StoreFails, appvars, locals
<1>14. CASE UNCHANGED vars
  BY <1>14, <1>a DEF vars
<1> QED
  BY <1>1, <1>2, <1>3, <1>4, <1>5, <1>6, <1>7, <1>8, <1>9, <1>10, <1>11,
     <1>12, <1>13, <1>14 DEF Next, HostStep, HandlerStep, Proceed

-----------------------------------------------------------------------------
(* The mutex, and the place of each thread. *)
LEMMA LockStep == Inv /\ [Next]_vars => LockHeldByHandler'
<1> SUFFICES ASSUME Inv, [Next]_vars PROVE LockHeldByHandler'
  OBVIOUS
<1> USE ThreadsAssumption DEF LockHeldByHandler, Critical
<1>a. /\ LockHeldByHandler
      /\ pc \in [Threads -> {"idle", "check", "enter"} \cup Critical]
      /\ OpAtStep
      /\ req \in [Threads -> Requests \cup {NoRequest}]
      /\ \A t \in Threads : pc[t] # "idle" => req[t] \in Requests
  BY DEF Inv, TypeOK
<1>1. ASSUME NEW t \in Threads, Receive(t) \/ Check(t) PROVE LockHeldByHandler'
  BY <1>1, <1>a DEF Receive, Check, Reply, Goto
<1>2. ASSUME NEW t \in Threads, Enter(t) PROVE LockHeldByHandler'
  <2>1. FirstStep[Op(t)] \in {"read", "query_match"}
    BY <1>2, <1>a DEF Enter, OpAtStep, FirstStep, Requests, Ops, Op
  <2> QED
    BY <1>2, <1>a, <2>1 DEF Enter, ReplyUnlock, Reply, Goto
<1>3. ASSUME NEW t \in Threads, ReadStart(t) \/ StoreData(t) PROVE LockHeldByHandler'
  BY <1>3, <1>a DEF ReadStart, StoreData, ReplyUnlock, Reply, Goto
<1>4. ASSUME NEW t \in Threads, QueryMatch(t) \/ CmdMatch(t) \/ CmdRpc(t)
      PROVE  LockHeldByHandler'
  BY <1>4, <1>a DEF QueryMatch, CmdMatch, CmdRpc, Goto
<1>5. ASSUME NEW t \in Threads, QueryRpc(t) PROVE LockHeldByHandler'
  BY <1>5, <1>a DEF QueryRpc, ReplyUnlock, Reply, Goto
<1>6. ASSUME NEW t \in Threads, SettleStart(t) \/ SettleStop(t) \/ SettleHide(t)
      PROVE  LockHeldByHandler'
  BY <1>6, <1>a DEF SettleStart, SettleStop, SettleHide, ReplyUnlock, Reply
<1>7. CASE HostStep
  BY <1>7, <1>a DEF HostStep, Register, Unregister, Freed
<1>8. ASSUME NEW t \in Threads, StoreFails(t) PROVE LockHeldByHandler'
  BY <1>8, <1>a DEF StoreFails
<1>9. CASE UNCHANGED vars
  BY <1>9, <1>a DEF vars
<1> QED
  BY <1>1, <1>2, <1>3, <1>4, <1>5, <1>6, <1>7, <1>8, <1>9
     DEF Next, HandlerStep, Proceed

(* What a handler knows of its own request. *)
LEMMA LocalStep == Inv /\ [Next]_vars => OpAtStep' /\ BodyRead'
<1> SUFFICES ASSUME Inv, [Next]_vars PROVE OpAtStep' /\ BodyRead'
  OBVIOUS
<1> USE DEF OpAtStep, BodyRead, Querying, Commanding, QueryOps, CmdOps, DataOps, Op
<1>a. OpAtStep /\ BodyRead /\ TypeOK
  BY DEF Inv
<1> USE DEF TypeOK
<1>1. ASSUME NEW t \in Threads, Receive(t) \/ Check(t)
      PROVE  OpAtStep' /\ BodyRead'
  BY <1>1, <1>a, ArrivalsAssumption DEF Receive, Check, Reply, Goto, locals
<1>2. ASSUME NEW t \in Threads, Enter(t) PROVE OpAtStep' /\ BodyRead'
  <2>1. /\ FirstStep[Op(t)] \in {"read", "query_match"}
        /\ FirstStep[Op(t)] = "read" <=> Op(t) \in {"start"} \cup DataOps
        /\ FirstStep[Op(t)] = "query_match" <=> Op(t) \in {"status", "stop", "hide"}
    BY <1>2, <1>a DEF Enter, FirstStep, Requests, Ops
  <2> QED
    BY <1>2, <1>a, <2>1 DEF Enter, ReplyUnlock, Reply, Goto, locals
<1>3. ASSUME NEW t \in Threads, ReadStart(t) PROVE OpAtStep' /\ BodyRead'
  BY <1>3, <1>a DEF ReadStart, TooLarge, Bodies, ReplyUnlock, Reply, Goto
<1>4. ASSUME NEW t \in Threads, StoreData(t) PROVE OpAtStep' /\ BodyRead'
  BY <1>4, <1>a DEF StoreData, ReplyUnlock, Reply
<1>5. ASSUME NEW t \in Threads, QueryMatch(t) \/ CmdMatch(t) \/ CmdRpc(t)
      PROVE  OpAtStep' /\ BodyRead'
  BY <1>5, <1>a DEF QueryMatch, CmdMatch, CmdRpc, Goto, locals
<1>6. ASSUME NEW t \in Threads, QueryRpc(t) PROVE OpAtStep' /\ BodyRead'
  BY <1>6, <1>a DEF QueryRpc, Proceeds, ReplyUnlock, Reply, Goto
<1>7. ASSUME NEW t \in Threads, SettleStart(t) \/ SettleStop(t) \/ SettleHide(t)
      PROVE  OpAtStep' /\ BodyRead'
  BY <1>7, <1>a DEF SettleStart, SettleStop, SettleHide, ReplyUnlock, Reply
<1>8. CASE HostStep
  BY <1>8, <1>a DEF HostStep, Register, Unregister, Freed, locals
<1>9. ASSUME NEW t \in Threads, StoreFails(t) PROVE OpAtStep' /\ BodyRead'
  BY <1>9, <1>a DEF StoreFails, locals
<1>10. CASE UNCHANGED vars
  BY <1>10, <1>a DEF vars
<1> QED
  BY <1>1, <1>2, <1>3, <1>4, <1>5, <1>6, <1>7, <1>8, <1>9, <1>10
     DEF Next, HandlerStep, Proceed

-----------------------------------------------------------------------------
(* The callbacks and the decisions.  A handler in its critical section is  *)
(* alone there, so that curAppForDial, the list and the recorded states    *)
(* are as it left them; only the origin is checked before the section.     *)
CallbackInv == CallbackTargetsOwnApp /\ DecisionIsFresh /\ Authorised

LEMMA CallbackStep == Inv /\ [Next]_vars => CallbackInv'
<1> SUFFICES ASSUME Inv, [Next]_vars PROVE CallbackInv'
  OBVIOUS
<1> USE DEF CallbackInv, CallbackTargetsOwnApp, DecisionIsFresh, Authorised,
            Critical, Querying, Commanding, App, Op
<1>a. CallbackInv /\ OpAtStep /\ TypeOK
  BY DEF Inv
<1>l. /\ \A t \in Threads : mux = t <=> pc[t] \in Critical
      /\ Nobody \notin Threads
  BY ThreadsAssumption DEF Inv, LockHeldByHandler
<1> USE DEF TypeOK
<1>1. ASSUME NEW t \in Threads, Receive(t) PROVE CallbackInv'
  BY <1>1, <1>a, ArrivalsAssumption DEF Receive, Goto, appvars, Proceeds
<1>2. ASSUME NEW t \in Threads, Check(t) PROVE CallbackInv'
  BY <1>2, <1>a DEF Check, Reply, Goto, is_allowed_origin, appvars, locals, Proceeds
<1>3. ASSUME NEW t \in Threads, Enter(t) PROVE CallbackInv'
  <2>1. /\ FirstStep[Op(t)] \in {"read", "query_match"}
        /\ FirstStep[Op(t)] = "query_match" => Op(t) # "start"
    BY <1>3, <1>a DEF Enter, OpAtStep, FirstStep, Requests, Ops
  <2>2. Op(t) = "stop" /\ App(t) \in SystemApps => pc'[t] = "idle"
    BY <1>3, <1>a DEF Enter, ReplyUnlock, Reply
  <2> QED
    BY <1>3, <1>a, <2>1, <2>2
       DEF Enter, ReplyUnlock, Reply, Goto, appvars, locals, Proceeds
<1>4. ASSUME NEW t \in Threads, ReadStart(t) PROVE CallbackInv'
  BY <1>4, <1>a DEF ReadStart, ReplyUnlock, Reply, Goto, appvars, Proceeds
<1>5. ASSUME NEW t \in Threads, StoreData(t) PROVE CallbackInv'
  BY <1>5, <1>a DEF StoreData, ReplyUnlock, Reply, Proceeds
<1>6. ASSUME NEW t \in Threads, QueryMatch(t) \/ CmdMatch(t) PROVE CallbackInv'
  BY <1>6, <1>a, <1>l DEF QueryMatch, CmdMatch, matchAppInfo, Goto, appvars,
                          locals, Proceeds
<1>7. ASSUME NEW t \in Threads, QueryRpc(t) PROVE CallbackInv'
  <2>1. \A u \in Threads \ {t} : pc[u] \notin Critical
    BY <1>7, <1>l DEF QueryRpc
  <2>2. \A u \in Threads \ {t} : pc'[u] = pc[u] /\ req'[u] = req[u]
    BY <1>7, <1>a DEF QueryRpc, ReplyUnlock, Reply, Goto
  <2>d. dropped' \in {dropped, dropped \ {t}}
    BY <1>7 DEF QueryRpc, ReplyUnlock, Reply
  <2>3. CASE pc'[t] = "idle"
    BY <1>7, <1>a, <2>1, <2>2, <2>d, <2>3 DEF QueryRpc
  <2>4. CASE pc'[t] # "idle"
    BY <1>7, <1>a, <2>1, <2>2, <2>4 DEF QueryRpc, ReplyUnlock, Reply, Goto, Proceeds
  <2> QED
    BY <2>3, <2>4
<1>8. ASSUME NEW t \in Threads, CmdRpc(t) PROVE CallbackInv'
  BY <1>8, <1>a DEF CmdRpc, Goto, appvars, Proceeds
<1>9. ASSUME NEW t \in Threads, SettleStart(t) \/ SettleStop(t) \/ SettleHide(t)
      PROVE  CallbackInv'
  <2>1. \A u \in Threads \ {t} : pc[u] \notin Critical
    BY <1>9, <1>l DEF SettleStart, SettleStop, SettleHide
  <2>2. /\ pc' = [pc EXCEPT ![t] = "idle"]
        /\ req' = [req EXCEPT ![t] = NoRequest]
        /\ UNCHANGED <<apps, cors, curApp>> /\ dropped' = dropped \ {t}
    BY <1>9 DEF SettleStart, SettleStop, SettleHide, ReplyUnlock, Reply
  <2> QED
    BY <1>a, <2>1, <2>2
<1>10. CASE HostStep
  <2>1. mux = Nobody /\ UNCHANGED <<curApp, pc, req>>
    BY <1>10 DEF HostStep, Register, Unregister, Freed, locals
  <2>2. \A u \in Threads : pc[u] \notin Critical
    BY <1>l, <2>1
  <2>3. \A u \in Threads : pc[u] = "enter" /\ u \notin dropped' =>
          /\ req[u].origin \in {NoOrigin, EmptyOrigin} \cup cors[App(u)]
    BY <1>a, <1>10 DEF HostStep, Register, Unregister, Freed, appvars, locals
  <2>4. \A u \in Threads : pc[u] = "enter" /\ u \notin dropped' =>
          /\ req[u].origin \in {NoOrigin, EmptyOrigin} \cup cors'[App(u)]
    <3>1. PICK a \in Apps : (\E list \in CorsArgs : Register(a, list)) \/ Unregister(a)
      BY <1>10 DEF HostStep
    <3>2. CASE \E list \in CorsArgs : Register(a, list)
      <4>1. a \notin apps /\ cors[a] = {}
        BY <1>a, <3>2 DEF Register
      <4>2. \A b \in Apps \ {a} : cors'[b] = cors[b]
        BY <1>a, <3>2 DEF Register, appvars
      <4> QED
        BY <1>a, <2>3, <4>1, <4>2 DEF Requests
    <3>3. CASE Unregister(a)
      <4>1. \A b \in Apps \ {a} : cors'[b] = cors[b]
        BY <1>a, <3>3 DEF Unregister, Freed
      <4>2. \A u \in Threads : pc[u] = "enter" /\ u \notin dropped' => App(u) # a
        BY <3>3 DEF Unregister, Freed
      <4> QED
        BY <1>a, <2>3, <4>1, <4>2 DEF Requests
    <3> QED
      BY <3>1, <3>2, <3>3
  <2>5. \A b \in Apps \ apps' : cors'[b] = {}
    BY <1>a, <1>10 DEF HostStep, Register, Unregister, Freed, appvars
  <2> QED
    BY <1>a, <2>1, <2>2, <2>4, <2>5
<1>11. ASSUME NEW t \in Threads, StoreFails(t) PROVE CallbackInv'
  BY <1>11, <1>a DEF StoreFails, appvars, locals, Proceeds
<1>12. CASE UNCHANGED vars
  BY <1>12, <1>a DEF vars, Proceeds
<1> QED
  BY <1>1, <1>2, <1>3, <1>4, <1>5, <1>6, <1>7, <1>8, <1>9, <1>10, <1>11,
     <1>12 DEF Next, HandlerStep, Proceed

-----------------------------------------------------------------------------
(* The payload. *)
LEMMA PayloadStep == Inv /\ [Next]_vars => PayloadInv'
<1> SUFFICES ASSUME Inv, [Next]_vars PROVE PayloadInv'
  OBVIOUS
<1> USE DEF PayloadInv, Unrecorded, App, Op, Critical
<1>a. /\ PayloadInv /\ TypeOK
      /\ CallbackTargetsOwnApp /\ DecisionIsFresh
  BY DEF Inv
<1>l. /\ \A t \in Threads : mux = t <=> pc[t] \in Critical
      /\ Nobody \notin Threads
  BY ThreadsAssumption DEF Inv, LockHeldByHandler
<1> USE DEF TypeOK
<1>s. ASSUME UNCHANGED <<apps, cors, payload, dial_data, launched>>,
             NEW t \in Threads, pc[t] # "settle", pc'[t] # "settle",
             \A u \in Threads \ {t} : /\ pc'[u] = pc[u] /\ req'[u] = req[u]
                                     /\ body'[u] = body[u] /\ result'[u] = result[u]
      PROVE  PayloadInv'
  <2>1. \A u \in Threads : Unrecorded(u)' => Unrecorded(u)
    BY <1>s
  <2>2. \A u \in Threads : Unrecorded(u) => Unrecorded(u)' /\ App(u)' = App(u)
    BY <1>s
  <2>3. PayloadInv'
    BY <1>a, <1>s, <2>1, <2>2
  <2> QED
    BY <2>3
<1>1. ASSUME NEW t \in Threads, Receive(t) \/ Check(t)
      PROVE  PayloadInv'
  BY <1>1, <1>a, <1>s DEF Receive, Check, Reply, Goto, appvars, locals
<1>2. ASSUME NEW t \in Threads, Enter(t) PROVE PayloadInv'
  <2>1. pc'[t] # "settle"
    <3>1. FirstStep[Op(t)] \in {"read", "query_match"}
      BY <1>2, <1>a DEF Inv, OpAtStep, Enter, FirstStep, Requests, Ops
    <3> QED
      BY <1>2, <1>a, <3>1 DEF Enter, ReplyUnlock, Reply, Goto
  <2> QED
    BY <1>2, <1>a, <1>s, <2>1 DEF Enter, ReplyUnlock, Reply, Goto, appvars, locals
<1>3. ASSUME NEW t \in Threads, ReadStart(t) PROVE PayloadInv'
  BY <1>3, <1>a, <1>s DEF ReadStart, ReplyUnlock, Reply, Goto, appvars
<1>4. ASSUME NEW t \in Threads, StoreData(t) PROVE PayloadInv'
  BY <1>4, <1>a DEF StoreData, ReplyUnlock, Reply
<1>5. ASSUME NEW t \in Threads, QueryMatch(t) \/ CmdMatch(t)
      PROVE  PayloadInv'
  BY <1>5, <1>a, <1>s DEF QueryMatch, CmdMatch, Goto, appvars, locals
<1>6. ASSUME NEW t \in Threads, QueryRpc(t) PROVE PayloadInv'
  BY <1>6, <1>a, <1>s DEF QueryRpc, ReplyUnlock, Reply, Goto
<1>7. ASSUME NEW t \in Threads, CmdRpc(t) PROVE PayloadInv'
  <2>1. \A u \in Threads \ {t} : pc[u] \notin Critical
    BY <1>7, <1>l DEF CmdRpc
  <2>2. curApp = App(t) /\ pc[t] = "cmd_rpc"
    BY <1>7, <1>a DEF CmdRpc, CallbackTargetsOwnApp
  <2>3. /\ pc' = [pc EXCEPT ![t] = "settle"]
        /\ UNCHANGED <<apps, cors, payload, dial_data, req, body>>
    BY <1>7 DEF CmdRpc, Goto, appvars
  <2>4. PICK r : /\ result' = [result EXCEPT ![t] = r]
                 /\ launched' = IF Op(t) = "start" /\ r = "running"
                                THEN [launched EXCEPT ![curApp] = body[t]]
                                ELSE launched
    BY <1>7 DEF CmdRpc
  <2>5. \A a \in apps : payload[a] \in {Garbage, launched[a]}
    BY <1>a, <2>1, <2>2
  <2>6. CASE Op(t) = "start" /\ r = "running"
    <3>1. App(t) \in Apps
      BY <1>a, <2>2 DEF Requests
    <3>2. launched'[App(t)] = body[t] /\ Unrecorded(t)'
      BY <1>a, <2>2, <2>3, <2>4, <2>6, <3>1
    <3>3. \A a \in apps : a # App(t) => launched'[a] = launched[a]
      BY <1>a, <2>2, <2>4, <2>6
    <3>4. \A u \in Threads \ {t} : ~Unrecorded(u)'
      BY <1>a, <2>1, <2>3
    <3> QED
      BY <2>3, <2>5, <3>2, <3>3, <3>4
  <2>7. CASE ~(Op(t) = "start" /\ r = "running")
    BY <1>a, <2>1, <2>2, <2>3, <2>4, <2>5, <2>7
  <2> QED
    BY <2>6, <2>7
<1>8. ASSUME NEW t \in Threads, SettleStart(t) PROVE PayloadInv'
  <2>1. \A u \in Threads \ {t} : pc[u] \notin Critical
    BY <1>8, <1>l DEF SettleStart
  <2>2. \A u \in Threads : pc'[u] # "settle"
    BY <1>8, <1>a, <2>1 DEF SettleStart, ReplyUnlock, Reply
  <2>3. /\ UNCHANGED <<apps, cors, dial_data, launched>>
        /\ payload' = IF result[t] = "running"
                      THEN [payload EXCEPT ![App(t)] = body[t]] ELSE payload
        /\ pc[t] = "settle" /\ Op(t) = "start"
    BY <1>8 DEF SettleStart
  <2>4. \A a \in apps : payload'[a] \in {Garbage, launched[a]}
    BY <1>a, <2>1, <2>3
  <2> QED
    BY <1>a, <2>2, <2>3, <2>4
<1>9. ASSUME NEW t \in Threads, SettleStop(t) \/ SettleHide(t)
      PROVE  PayloadInv'
  <2>1. /\ UNCHANGED <<apps, cors, payload, dial_data, launched>>
        /\ pc' = [pc EXCEPT ![t] = "idle"] /\ Op(t) # "start"
        /\ \A u \in Threads \ {t} : /\ req'[u] = req[u] /\ body'[u] = body[u]
                                    /\ result'[u] = result[u]
    BY <1>9, <1>a DEF SettleStop, SettleHide, ReplyUnlock, Reply
  <2> QED
    BY <1>a, <2>1
<1>10. CASE HostStep
  <2>1. mux = Nobody /\ UNCHANGED <<pc, req, body, result>>
    BY <1>10 DEF HostStep, Register, Unregister, Freed, locals
  <2>2. \A u \in Threads : pc[u] \notin Critical
    BY <1>l, <2>1
  <2>3. \A a \in apps : payload[a] \in {Garbage, launched[a]}
    BY <1>a, <2>2
  <2>4. ASSUME NEW a \in Apps, NEW list \in CorsArgs, Register(a, list)
        PROVE  PayloadInv'
    BY <1>a, <2>1, <2>2, <2>3, <2>4 DEF Register, appvars
  <2>5. ASSUME NEW a \in Apps, Unregister(a) PROVE PayloadInv'
    BY <1>a, <2>1, <2>2, <2>3, <2>5 DEF Unregister, Freed
  <2> QED
    BY <1>10, <2>4, <2>5 DEF HostStep
<1>11. ASSUME NEW t \in Threads, StoreFails(t) PROVE PayloadInv'
  BY <1>11, <1>a DEF StoreFails, appvars, locals
<1>12. CASE UNCHANGED vars
  BY <1>12, <1>a DEF vars
<1> QED
  BY <1>1, <1>2, <1>3, <1>4, <1>5, <1>6, <1>7, <1>8, <1>9, <1>10, <1>11,
     <1>12 DEF Next, HandlerStep, Proceed

-----------------------------------------------------------------------------
(* Inv is an invariant of the server. *)
THEOREM Invariance == Spec => []Inv
<1>1. Inv /\ [Next]_vars => Inv'
  BY TypeStep, LockStep, LocalStep, CallbackStep, PayloadStep DEF Inv, CallbackInv
<1> QED
  BY InitInv, <1>1, PTL DEF Spec

(* Every variable keeps its type. *)
THEOREM TypeCorrect == Spec => []TypeOK
<1>1. Inv => TypeOK
  BY DEF Inv
<1> QED
  BY Invariance, <1>1, PTL

(* Every path through every handler gives the mutex back, and handlers are *)
(* never in their critical sections together.                              *)
THEOREM LockDiscipline == Spec => []LockHeldByHandler
<1>1. Inv => LockHeldByHandler
  BY DEF Inv
<1> QED
  BY Invariance, <1>1, PTL

(* The one global that names the current application never leads a         *)
(* callback to another application than its request's.                     *)
THEOREM CallbacksReachTheirApp == Spec => []CallbackTargetsOwnApp
<1>1. Inv => CallbackTargetsOwnApp
  BY DEF Inv
<1> QED
  BY Invariance, <1>1, PTL

(* No application is freed under a handler, and commands follow from the   *)
(* status reported for the same request.                                   *)
THEOREM DecisionsFresh == Spec => []DecisionIsFresh
<1>1. Inv => DecisionIsFresh
  BY DEF Inv
<1> QED
  BY Invariance, <1>1, PTL

(* Only authorised requests command an application. *)
THEOREM OnlyAuthorisedCommands == Spec => []CommandsAuthorised
<1>1. Inv => CommandsAuthorised
  BY DEF Inv, Authorised, CommandsAuthorised, Critical, Commanding
<1> QED
  BY Invariance, <1>1, PTL

(* What DIAL_get_payload finds when no handler is at work is the payload   *)
(* of the last launch.                                                     *)
THEOREM PayloadIsLastLaunch == Spec => []PayloadMatchesLaunch
<1>1. Inv => PayloadMatchesLaunch
  <2> SUFFICES ASSUME Inv, mux = Nobody, NEW a \in apps
               PROVE  payload[a] \in {Garbage, launched[a]}
    BY DEF PayloadMatchesLaunch
  <2>1. \A t \in Threads : pc[t] \notin Critical
    BY ThreadsAssumption DEF Inv, LockHeldByHandler
  <2>2. \A t \in Threads : ~Unrecorded(t)
    BY <2>1 DEF Unrecorded, Critical
  <2> QED
    BY <2>2 DEF Inv, PayloadInv
<1> QED
  BY Invariance, <1>1, PTL

-----------------------------------------------------------------------------
(* The server implements DialService.                                      *)

(* A reply is the end of the request for the service, whichever step of    *)
(* whichever handler sends it.                                             *)
LEMMA ReplyEnds ==
  ASSUME TypeOK, NEW t \in Threads, NEW code, Reply(t, code)
  PROVE  Service!Done(t, code)
<1>1. pc \in [Threads -> {"idle", "check", "enter"} \cup Critical]
  BY DEF TypeOK
<1>2. /\ pc' = [pc EXCEPT ![t] = "idle"]
      /\ answer' = [answer EXCEPT ![t] = code]
      /\ req' = [req EXCEPT ![t] = NoRequest]
  BY DEF Reply
<1>3. \A u \in Threads : pc'[u] = IF u = t THEN "idle" ELSE pc[u]
  BY <1>1, <1>2
<1>4. {u \in Threads : pc'[u] \notin {"idle", "check"}}
      = {u \in Threads : pc[u] \notin {"idle", "check"}} \ {t}
  BY <1>3
<1> QED
  BY <1>2, <1>4 DEF Service!Done

(* A step between two places after the check of the origin is invisible if *)
(* it answers nothing and leaves the applications' data as they are.       *)
LEMMA Invisible ==
  ASSUME TypeOK, NEW t \in Threads, NEW place \in Critical,
         pc[t] \notin {"idle", "check"}, Goto(t, place),
         UNCHANGED <<apps, cors, payload, dial_data, req, answer>>
  PROVE  UNCHANGED Service!served
<1>1. pc \in [Threads -> {"idle", "check", "enter"} \cup Critical]
  BY DEF TypeOK
<1>2. \A u \in Threads : pc'[u] = IF u = t THEN place ELSE pc[u]
  BY <1>1 DEF Goto
<1>3. place \notin {"idle", "check"}
  BY DEF Critical
<1>4. {u \in Threads : pc'[u] \notin {"idle", "check"}}
      = {u \in Threads : pc[u] \notin {"idle", "check"}}
  BY <1>2, <1>3
<1> QED
  BY <1>4 DEF Service!served

LEMMA ServiceInit == Init => Service!Init
<1> SUFFICES ASSUME Init PROVE Service!Init
  OBVIOUS
<1>1. {t \in Threads : pc[t] \notin {"idle", "check"}} = {}
  BY DEF Init
<1> QED
  BY <1>1 DEF Init, Service!Init

(* Every step of the server is a step of the service, or invisible: the    *)
(* request is carried out when it is answered, in the critical section of  *)
(* its handler, where the application is still registered.                 *)
LEMMA ServiceStep == Inv /\ [Next]_vars => [Service!Next]_(Service!vars)
<1> SUFFICES ASSUME Inv, [Next]_vars
             PROVE  Service!Next \/ UNCHANGED Service!vars
  OBVIOUS
<1>a. TypeOK /\ OpAtStep /\ LockHeldByHandler /\ DecisionIsFresh /\ Authorised
      /\ BodyRead
  BY DEF Inv
<1>b. /\ pc \in [Threads -> {"idle", "check", "enter"} \cup Critical]
      /\ \A t \in Threads : pc[t] # "idle" => req[t] \in Requests
  BY <1>a DEF TypeOK
<1>p. \A t \in Threads : pc[t] \in {"enter"} \cup Critical =>
        t \in {u \in Threads : pc[u] \notin {"idle", "check"}}
  BY DEF Critical
<1>c. \A t \in Threads : pc[t] \in Critical => App(t) \in apps /\ ~Service!Protected(t)
  BY <1>a DEF DecisionIsFresh, Authorised, Service!Protected, App, Op
<1>n. ASSUME NEW t \in Threads,
             \/ Service!Request(t) \/ Service!Judge(t) \/ Service!Forbid(t)
             \/ Service!Miss(t) \/ Service!RejectBody(t) \/ Service!Launch(t)
             \/ Service!Command(t) \/ Service!SetData(t)
      PROVE  Service!Serve
  BY <1>n DEF Service!Serve
<1>1. ASSUME NEW t \in Threads, Receive(t) PROVE Service!Request(t)
  <2>1. \A u \in Threads : pc'[u] = IF u = t THEN "check" ELSE pc[u]
    BY <1>1, <1>b DEF Receive, Goto
  <2>2. {u \in Threads : pc'[u] \notin {"idle", "check"}}
        = {u \in Threads : pc[u] \notin {"idle", "check"}}
    BY <1>1, <2>1 DEF Receive
  <2>3. req[t] = NoRequest
    BY <1>1, <1>a DEF Receive, OpAtStep
  <2> QED
    BY <1>1, <2>2, <2>3, ArrivalsAssumption DEF Receive, appvars, Service!Request
<1>2. ASSUME NEW t \in Threads, Check(t) PROVE Service!Judge(t)
  <2>1. pc[t] = "check" /\ req[t] \in Requests /\ req[t] # NoRequest
    BY <1>2, <1>b, ArrivalsAssumption DEF Check
  <2>2. t \notin {u \in Threads : pc[u] \notin {"idle", "check"}}
    BY <2>1
  <2>3. Service!Covered(req[t])
        <=> req[t].origin = NoOrigin \/ is_allowed_origin(req[t].origin, App(t))
    BY DEF Service!Covered, is_allowed_origin, App
  <2>4. UNCHANGED <<apps, cors, payload, dial_data>>
    BY <1>2 DEF Check, appvars
  <2>5. CASE ~Service!Covered(req[t])
    <3>1. Service!Done(t, "refused")
      BY <1>2, <1>a, <2>3, <2>5, ReplyEnds DEF Check
    <3> QED
      BY <2>1, <2>2, <2>4, <2>5, <3>1 DEF Service!Judge
  <2>6. CASE Service!Covered(req[t]) /\ Op(t) = "options"
    <3>1. Service!Done(t, "no_content")
      BY <1>2, <1>a, <2>3, <2>6, ReplyEnds DEF Check
    <3> QED
      BY <2>1, <2>2, <2>4, <2>6, <3>1 DEF Service!Judge, Op
  <2>7. CASE Service!Covered(req[t]) /\ Op(t) # "options"
    <3>1. Goto(t, "enter") /\ UNCHANGED <<req, answer>>
      BY <1>2, <2>3, <2>7 DEF Check, locals
    <3>2. \A u \in Threads : pc'[u] = IF u = t THEN "enter" ELSE pc[u]
      BY <1>b, <3>1 DEF Goto
    <3>3. {u \in Threads : pc'[u] \notin {"idle", "check"}}
          = {u \in Threads : pc[u] \notin {"idle", "check"}} \cup {t}
      BY <3>2
    <3> QED
      BY <2>1, <2>2, <2>4, <2>7, <3>1, <3>3 DEF Service!Judge, Op
  <2> QED
    BY <2>5, <2>6, <2>7
<1>3. ASSUME NEW t \in Threads, Enter(t)
      PROVE  Service!Forbid(t) \/ Service!Miss(t) \/ UNCHANGED Service!served
  <2>1. /\ pc[t] = "enter" /\ req[t] \in Requests
        /\ UNCHANGED <<apps, cors, payload, dial_data>>
    BY <1>3, <1>b DEF Enter, appvars
  <2>2. t \in {u \in Threads : pc[u] \notin {"idle", "check"}}
    BY <2>1
  <2>3. CASE Op(t) = "stop" /\ App(t) \in SystemApps
    <3>1. Service!Done(t, "forbidden")
      BY <1>3, <1>a, <2>3, ReplyEnds DEF Enter, ReplyUnlock
    <3> QED
      BY <2>1, <2>2, <2>3, <3>1 DEF Service!Forbid, Service!Protected, Op, App
  <2>4. CASE ~(Op(t) = "stop" /\ App(t) \in SystemApps) /\ App(t) \notin apps
    <3>1. Service!Done(t, "not_found")
      BY <1>3, <1>a, <2>4, ReplyEnds DEF Enter, ReplyUnlock
    <3> QED
      BY <2>1, <2>2, <2>4, <3>1 DEF Service!Miss, Service!Protected, Op, App
  <2>5. CASE ~(Op(t) = "stop" /\ App(t) \in SystemApps) /\ App(t) \in apps
    <3>1. FirstStep[Op(t)] \in Critical
      BY <2>1, <1>a DEF OpAtStep, FirstStep, Requests, Ops, Op, Critical
    <3>2. Goto(t, FirstStep[Op(t)]) /\ UNCHANGED <<req, answer>>
      BY <1>3, <2>5 DEF Enter, locals
    <3> QED
      BY <1>a, <2>1, <3>1, <3>2, Invisible
  <2> QED
    BY <2>3, <2>4, <2>5
<1>4. ASSUME NEW t \in Threads, ReadStart(t)
      PROVE  \/ Service!RejectBody(t) \/ Service!Launch(t)
             \/ UNCHANGED Service!served
  <2>1. /\ pc[t] = "read" /\ Op(t) = "start"
        /\ UNCHANGED <<apps, cors, payload, dial_data>>
    BY <1>4 DEF ReadStart, appvars
  <2>2. /\ t \in {u \in Threads : pc[u] \notin {"idle", "check"}}
        /\ req[t].app \in apps /\ req[t].op = "start"
    BY <2>1, <1>p, <1>c DEF Critical, App, Op
  <2>3. PICK b \in Bodies :
          \/ ReplyUnlock(t, "too_large") \/ ReplyUnlock(t, "bad_request")
          \/ /\ req[t].origin = NoOrigin /\ App(t) \in YouTubeApps
             /\ ReplyUnlock(t, "forbidden")
          \/ Goto(t, "query_match") /\ UNCHANGED <<req, answer>>
    BY <1>4 DEF ReadStart
  <2>4. CASE ReplyUnlock(t, "too_large") \/ ReplyUnlock(t, "bad_request")
    <3>1. Service!Done(t, "too_large") \/ Service!Done(t, "bad_request")
      BY <1>a, <2>4, ReplyEnds DEF ReplyUnlock
    <3> QED
      BY <2>1, <2>2, <3>1 DEF Service!RejectBody, Service!Asks
  <2>5. CASE /\ req[t].origin = NoOrigin /\ App(t) \in YouTubeApps
             /\ ReplyUnlock(t, "forbidden")
    <3>1. Service!Done(t, "forbidden")
      BY <1>a, <2>5, ReplyEnds DEF ReplyUnlock
    <3> QED
      BY <2>1, <2>2, <3>1 DEF Service!Launch, Service!Asks
  <2>6. CASE Goto(t, "query_match") /\ UNCHANGED <<req, answer>>
    BY <1>a, <2>1, <2>6, Invisible DEF Critical
  <2> QED
    BY <2>3, <2>4, <2>5, <2>6
<1>5. ASSUME NEW t \in Threads, StoreData(t)
      PROVE  Service!RejectBody(t) \/ Service!SetData(t)
  <2>1. /\ pc[t] = "read" /\ Op(t) \in DataOps
        /\ UNCHANGED <<apps, cors, payload>>
    BY <1>5 DEF StoreData
  <2>2. /\ t \in {u \in Threads : pc[u] \notin {"idle", "check"}}
        /\ req[t].app \in apps /\ req[t].op \in {"data_get", "data_post"}
    BY <2>1, <1>p, <1>c DEF Critical, App, Op, DataOps
  <2>3. PICK b \in Bodies :
          \/ /\ Op(t) # "data_post" /\ ReplyUnlock(t, "too_large")
             /\ UNCHANGED dial_data
          \/ ReplyUnlock(t, "bad_request") /\ UNCHANGED dial_data
          \/ /\ dial_data' = [dial_data EXCEPT ![App(t)] = b] /\ b \in Texts
             /\ ReplyUnlock(t, "ok")
    BY <1>5 DEF StoreData, DataBodies, TooLarge, Bodies
  <2>4. CASE /\ Op(t) # "data_post" /\ ReplyUnlock(t, "too_large")
             /\ UNCHANGED dial_data
    <3>1. Service!Done(t, "too_large")
      BY <1>a, <2>4, ReplyEnds DEF ReplyUnlock
    <3> QED
      BY <2>1, <2>2, <2>4, <3>1 DEF Service!RejectBody, Service!Asks, Op
  <2>5. CASE ReplyUnlock(t, "bad_request") /\ UNCHANGED dial_data
    <3>1. Service!Done(t, "bad_request")
      BY <1>a, <2>5, ReplyEnds DEF ReplyUnlock
    <3> QED
      BY <2>1, <2>2, <2>5, <3>1 DEF Service!RejectBody, Service!Asks
  <2>6. CASE /\ dial_data' = [dial_data EXCEPT ![App(t)] = b] /\ b \in Texts
             /\ ReplyUnlock(t, "ok")
    <3>1. Service!Done(t, "ok")
      BY <1>a, <2>6, ReplyEnds DEF ReplyUnlock
    <3> QED
      BY <2>1, <2>2, <2>6, <3>1 DEF Service!SetData, Service!Asks, App
  <2> QED
    BY <2>3, <2>4, <2>5, <2>6
<1>6. ASSUME NEW t \in Threads, QueryMatch(t) \/ CmdMatch(t) \/ CmdRpc(t)
      PROVE  UNCHANGED Service!served
  <2>1. PICK place \in {"query_rpc", "cmd_rpc", "settle"} : Goto(t, place)
    BY <1>6 DEF QueryMatch, CmdMatch, CmdRpc
  <2>2. /\ pc[t] \notin {"idle", "check"}
        /\ UNCHANGED <<apps, cors, payload, dial_data, req, answer>>
    BY <1>6 DEF QueryMatch, CmdMatch, CmdRpc, appvars, locals
  <2> QED
    BY <1>a, <2>1, <2>2, Invisible DEF Critical
<1>7. ASSUME NEW t \in Threads, QueryRpc(t)
      PROVE  Service!Command(t) \/ UNCHANGED Service!served
  <2>1. pc[t] = "query_rpc" /\ UNCHANGED <<apps, cors, payload, dial_data>>
    BY <1>7 DEF QueryRpc
  <2>2. /\ t \in {u \in Threads : pc[u] \notin {"idle", "check"}}
        /\ req[t].app \in apps /\ ~Service!Protected(t)
    BY <2>1, <1>p, <1>c DEF Critical, App
  <2>3. req[t].op \in {"start", "status", "stop", "hide"}
    BY <2>1, <1>a DEF OpAtStep, Querying, QueryOps, CmdOps, Op
  <2>4. \/ Goto(t, "cmd_match") /\ UNCHANGED <<req, answer>>
        \/ req[t].op = "status" /\ ReplyUnlock(t, "ok")
        \/ req[t].op \in {"stop", "hide"} /\ ReplyUnlock(t, "not_found")
    BY <1>7, <2>3 DEF QueryRpc, Proceeds, Op
  <2>5. CASE Goto(t, "cmd_match") /\ UNCHANGED <<req, answer>>
    BY <1>a, <2>1, <2>5, Invisible DEF Critical
  <2>6. CASE req[t].op = "status" /\ ReplyUnlock(t, "ok")
    <3>1. Service!Done(t, "ok")
      BY <1>a, <2>6, ReplyEnds DEF ReplyUnlock
    <3> QED
      BY <2>1, <2>2, <2>6, <3>1 DEF Service!Command, Service!Asks, Service!Answers
  <2>7. CASE req[t].op \in {"stop", "hide"} /\ ReplyUnlock(t, "not_found")
    <3>1. Service!Done(t, "not_found")
      BY <1>a, <2>7, ReplyEnds DEF ReplyUnlock
    <3> QED
      BY <2>1, <2>2, <2>7, <3>1 DEF Service!Command, Service!Asks, Service!Answers
  <2> QED
    BY <2>4, <2>5, <2>6, <2>7
<1>8. ASSUME NEW t \in Threads, SettleStart(t) PROVE Service!Launch(t)
  <2>1. /\ pc[t] = "settle" /\ Op(t) = "start"
        /\ payload' = IF result[t] = "running"
                      THEN [payload EXCEPT ![App(t)] = body[t]] ELSE payload
        /\ UNCHANGED <<apps, cors, dial_data>>
    BY <1>8 DEF SettleStart
  <2>2. /\ t \in {u \in Threads : pc[u] \notin {"idle", "check"}}
        /\ req[t].app \in apps /\ req[t].op = "start"
    BY <2>1, <1>p, <1>c DEF Critical, App, Op
  <2>3. /\ body[t] \in Texts
        /\ req[t].origin # NoOrigin \/ req[t].app \notin YouTubeApps
    BY <2>1, <1>a DEF BodyRead, Authorised, Commanding, App
  <2>4. PICK code : code = LaunchCode(t)
    OBVIOUS
  <2>5. Service!Done(t, code)
    <3>1. Reply(t, code)
      BY <1>8, <2>4 DEF SettleStart, ReplyUnlock
    <3> QED
      BY <1>a, <3>1, ReplyEnds
  <2>6. Service!Asks(t, {"start"})
    BY <2>2 DEF Service!Asks
  <2>7. CASE result[t] = "running"
    <3>1. code = "created" \/ (code = "ok" /\ req[t].app \in YouTubeApps)
      BY <2>4, <2>7 DEF LaunchCode, App
    <3>2. Service!Done(t, "created") \/ (req[t].app \in YouTubeApps /\ Service!Done(t, "ok"))
      BY <2>5, <3>1
    <3>3. \E p \in Texts : payload' = [payload EXCEPT ![req[t].app] = p]
      BY <2>1, <2>3, <2>7 DEF App
    <3> QED
      BY <2>1, <2>2, <2>3, <2>6, <3>2, <3>3, Zenon DEF Service!Launch
  <2>8. CASE result[t] # "running"
    <3>1. code \in {"unavailable", "forbidden", "unauth", "not_implemented"}
      BY <2>4, <2>8 DEF LaunchCode
    <3>2. UNCHANGED payload
      BY <2>1, <2>8
    <3> QED
      BY <2>1, <2>2, <2>3, <2>5, <2>6, <3>1, <3>2, Zenon DEF Service!Launch
  <2> QED
    BY <2>7, <2>8
<1>9. ASSUME NEW t \in Threads, SettleStop(t) \/ SettleHide(t)
      PROVE  Service!Command(t)
  <2>1. /\ pc[t] = "settle" /\ UNCHANGED <<apps, cors, payload, dial_data>>
        /\ \/ Op(t) = "stop" /\ ReplyUnlock(t, "ok")
           \/ Op(t) = "hide" /\ ReplyUnlock(t, "ok")
           \/ Op(t) = "hide" /\ ReplyUnlock(t, "not_implemented")
    BY <1>9 DEF SettleStop, SettleHide
  <2>2. /\ t \in {u \in Threads : pc[u] \notin {"idle", "check"}}
        /\ req[t].app \in apps /\ ~Service!Protected(t)
    BY <2>1, <1>p, <1>c DEF Critical, App
  <2>3. PICK code : ReplyUnlock(t, code) /\ code \in Service!Answers[req[t].op]
                    /\ req[t].op \in {"stop", "hide"}
    BY <2>1 DEF Service!Answers, Op
  <2>4. Service!Done(t, code)
    BY <1>a, <2>3, ReplyEnds DEF ReplyUnlock
  <2>5. req[t].op \in DOMAIN Service!Answers
    BY <2>3 DEF Service!Answers
  <2> QED
    BY <2>1, <2>2, <2>3, <2>4, <2>5 DEF Service!Command, Service!Asks
<1>10. ASSUME HostStep PROVE Service!Serve \/ UNCHANGED Service!served
  <2>1. ASSUME NEW a \in Apps, NEW list \in CorsArgs, Register(a, list)
        PROVE  Service!Register(a) \/ UNCHANGED <<apps, cors, payload, dial_data, req, answer, pc>>
    <3>1. CASE list = NoList
      BY <2>1, <3>1 DEF Register, appvars, locals
    <3>2. CASE list # NoList
      BY <2>1, <3>2 DEF Register, locals, Service!Register
    <3> QED
      BY <3>1, <3>2
  <2>2. ASSUME NEW a \in Apps, Unregister(a) PROVE Service!Unregister(a)
    BY <2>2 DEF Unregister, Freed, Service!Unregister
  <2>3. ASSUME UNCHANGED <<apps, cors, payload, dial_data, req, answer, pc>>
        PROVE  UNCHANGED Service!served
    BY <2>3 DEF Service!served
  <2> QED
    BY <1>10, <2>1, <2>2, <2>3 DEF HostStep, Service!Serve
<1>11. ASSUME NEW t \in Threads, StoreFails(t) PROVE Service!Exit(t)
  <2>1. /\ pc[t] = "read" /\ Op(t) \in DataOps /\ up' = FALSE
        /\ UNCHANGED <<apps, cors, payload, dial_data, req, answer, pc>>
    BY <1>11 DEF StoreFails, appvars, locals
  <2>2. /\ t \in {u \in Threads : pc[u] \notin {"idle", "check"}}
        /\ req[t].app \in apps /\ req[t].op \in {"data_get", "data_post"}
    BY <2>1, <1>p, <1>c DEF Critical, App, Op, DataOps
  <2> QED
    BY <2>1, <2>2 DEF Service!Exit, Service!Asks, Service!served
<1>12. ASSUME NEW t \in Threads, Receive(t) \/ Proceed(t)
       PROVE  Service!Serve \/ UNCHANGED Service!served
  BY <1>12, <1>n, <1>1, <1>2, <1>3, <1>4, <1>5, <1>6, <1>7, <1>8, <1>9 DEF Proceed
<1>13. CASE \/ up /\ HostStep /\ UNCHANGED up
            \/ \E t \in Threads : up /\ (Receive(t) \/ Proceed(t)) /\ UNCHANGED up
  <2>1. up /\ UNCHANGED up /\ (Service!Serve \/ UNCHANGED Service!served)
    BY <1>10, <1>12, <1>13
  <2> QED
    BY <2>1 DEF Service!Next, Service!vars
<1>14. CASE \E t \in Threads : up /\ StoreFails(t)
  BY <1>11, <1>14 DEF Service!Next
<1>15. CASE UNCHANGED vars
  BY <1>15 DEF vars, Service!vars, Service!served
<1> QED
  BY <1>13, <1>14, <1>15 DEF Next, HandlerStep

(* The handlers, threads and callbacks of the server implement the service *)
(* that carries out a request in one step.                                 *)
THEOREM ServerImplementsService == Spec => RequestsAtomic
<1>1. Spec => Service!Spec
  BY Invariance, ServiceInit, ServiceStep, PTL DEF Spec, Service!Spec
<1> QED
  BY <1>1 DEF RequestsAtomic
=============================================================================
