---------------------------- MODULE DialService ----------------------------
(***************************************************************************)
(* What the DIAL REST server (dial_server.c) promises its clients, without *)
(* a mutex, callbacks or threads: a request arrives, its origin is         *)
(* admitted or refused, and then it is carried out and answered in one     *)
(* step, as if nobody else had a request and no application were           *)
(* registered or unregistered meanwhile.  What the body of a request says, *)
(* and what the device reports and achieves, is open.  DialServer          *)
(* implements this specification.                                          *)
(***************************************************************************)
CONSTANTS
  Clients,      \* those who can have a request in progress
  Apps,         \* application names
  YouTubeApps,  \* those that are not launched without an origin
  SystemApps,   \* those that cannot be stopped
  CorsLists,    \* the sets of origins an application can admit
  NoOrigin,     \* a request without an origin
  EmptyOrigin,  \* and with an empty one: both are admitted
  Requests,     \* records of an operation, an application and an origin
  Payloads,     \* what an application can be launched with
  Values,       \* what a client can set as DIAL data
  OwnValue,     \* the DIAL data that an application starts with
  NoPayload,    \* of an application that was not launched
  NoRequest     \* of a client that has none

VARIABLES
  up,           \* the server has not exited
  apps,         \* the registered applications
  cors,         \* the origins that each of them admits
  payload,      \* what each of them was last launched with
  dial_data,    \* its DIAL data
  request,      \* the request of each client
  admitted,     \* the clients whose requests are admitted
  answer        \* the last answer to each client

served == <<apps, cors, payload, dial_data, request, admitted, answer>>
vars == <<up, served>>

Init ==
  /\ up = TRUE
  /\ apps = {}
  /\ cors = [a \in Apps |-> {}]
  /\ payload = [a \in Apps |-> NoPayload]
  /\ dial_data = [a \in Apps |-> OwnValue]
  /\ request = [c \in Clients |-> NoRequest]
  /\ admitted = {}
  /\ answer = [c \in Clients |-> "none"]

Done(c, code) ==
  /\ answer' = [answer EXCEPT ![c] = code]
  /\ request' = [request EXCEPT ![c] = NoRequest]
  /\ admitted' = admitted \ {c}

-----------------------------------------------------------------------------
Request(c) ==
  /\ request[c] = NoRequest
  /\ \E r \in Requests : request' = [request EXCEPT ![c] = r]
  /\ answer' = [answer EXCEPT ![c] = "none"]
  /\ UNCHANGED <<apps, cors, payload, dial_data, admitted>>

Covered(r) ==
  \/ r.origin \in {NoOrigin, EmptyOrigin}
  \/ r.app \in apps /\ r.origin \in cors[r.app]

(* A request to learn the options is answered with the verdict. *)
Judge(c) ==
  /\ request[c] # NoRequest /\ c \notin admitted
  /\ \/ ~Covered(request[c]) /\ Done(c, "refused")
     \/ Covered(request[c]) /\ request[c].op = "options" /\ Done(c, "no_content")
     \/ /\ Covered(request[c]) /\ request[c].op # "options"
        /\ admitted' = admitted \cup {c} /\ UNCHANGED <<request, answer>>
  /\ UNCHANGED <<apps, cors, payload, dial_data>>

-----------------------------------------------------------------------------
(* What an admitted request does, in one step. *)

Asks(c, ops) == c \in admitted /\ request[c].op \in ops

Protected(c) == request[c].op = "stop" /\ request[c].app \in SystemApps

Forbid(c) ==
  /\ c \in admitted /\ Protected(c)
  /\ Done(c, "forbidden")
  /\ UNCHANGED <<apps, cors, payload, dial_data>>

Miss(c) ==
  /\ c \in admitted /\ ~Protected(c) /\ request[c].app \notin apps
  /\ Done(c, "not_found")
  /\ UNCHANGED <<apps, cors, payload, dial_data>>

(* The body is unprintable, or too long; too much DIAL data is cut.        *)
RejectBody(c) ==
  /\ Asks(c, {"start", "data_get", "data_post"}) /\ request[c].app \in apps
  /\ \/ Done(c, "bad_request")
     \/ request[c].op # "data_post" /\ Done(c, "too_large")
  /\ UNCHANGED <<apps, cors, payload, dial_data>>

(* A launch that succeeds is recorded with the payload of this request.    *)
Launch(c) ==
  LET app == request[c].app
      safe == request[c].origin # NoOrigin \/ app \notin YouTubeApps
  IN  /\ Asks(c, {"start"}) /\ app \in apps
      /\ \/ /\ safe
            /\ Done(c, "created") \/ (app \in YouTubeApps /\ Done(c, "ok"))
            /\ \E p \in Payloads : payload' = [payload EXCEPT ![app] = p]
         \/ /\ \E code \in {"unavailable", "forbidden", "unauth", "not_implemented"} :
                 (safe \/ code = "forbidden") /\ Done(c, code)
            /\ UNCHANGED payload
      /\ UNCHANGED <<apps, cors, dial_data>>

(* The application is where the client wants it, or had been there, or is  *)
(* not able to.                                                            *)
Answers == [status |-> {"ok"}, stop |-> {"ok", "not_found"},
            hide |-> {"ok", "not_found", "not_implemented"}]

Command(c) ==
  /\ Asks(c, DOMAIN Answers) /\ ~Protected(c) /\ request[c].app \in apps
  /\ \E code \in Answers[request[c].op] : Done(c, code)
  /\ UNCHANGED <<apps, cors, payload, dial_data>>

SetData(c) ==
  /\ Asks(c, {"data_get", "data_post"}) /\ request[c].app \in apps
  /\ \E v \in Values : dial_data' = [dial_data EXCEPT ![request[c].app] = v]
  /\ Done(c, "ok")
  /\ UNCHANGED <<apps, cors, payload>>

-----------------------------------------------------------------------------
Register(a) ==
  /\ a \notin apps
  /\ apps' = apps \cup {a}
  /\ \E list \in CorsLists : cors' = [cors EXCEPT ![a] = list]
  /\ payload' = [payload EXCEPT ![a] = NoPayload]
  /\ dial_data' = [dial_data EXCEPT ![a] = OwnValue]
  /\ UNCHANGED <<request, admitted, answer>>

Unregister(a) ==
  /\ a \in apps
  /\ apps' = apps \ {a}
  /\ cors' = [cors EXCEPT ![a] = {}]
  /\ payload' = [payload EXCEPT ![a] = NoPayload]
  /\ dial_data' = [dial_data EXCEPT ![a] = OwnValue]
  /\ UNCHANGED <<request, admitted, answer>>

(* DIAL data that cannot be kept ends the server.                          *)
Exit(c) ==
  /\ Asks(c, {"data_get", "data_post"}) /\ request[c].app \in apps
  /\ up' = FALSE
  /\ UNCHANGED served

Serve ==
  \/ \E a \in Apps : Register(a) \/ Unregister(a)
  \/ \E c \in Clients :
       \/ Request(c) \/ Judge(c)
       \/ Forbid(c) \/ Miss(c) \/ RejectBody(c)
       \/ Launch(c) \/ Command(c) \/ SetData(c)

Next == up /\ ((Serve /\ UNCHANGED up) \/ \E c \in Clients : Exit(c))

Spec == Init /\ [][Next]_vars
=============================================================================
