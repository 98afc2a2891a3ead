---------------------------- MODULE RestRequest ----------------------------
(***************************************************************************)
(* The web server's connections with the DIAL server's callback in place:  *)
(* request_handler of src/dial_server.c, which finds out from the URI what *)
(* is asked of which application, admits or refuses the origin, and lets   *)
(* the handler of the request read its body.  What the handlers do to the  *)
(* applications is in module DialServer.                                   *)
(***************************************************************************)
EXTENDS HttpConnection, Cors

CONSTANTS
  Lists,      \* for each registered application the origins it lets in
  Schemes,    \* the schemes of these and of the origins of requests
  NameMax,    \* the room for a name in app_name[256]
  StartRoom,  \* what handle_app_start passes to mg_read
  DataRoom    \* what handle_dial_data passes to it

(* What a request says besides what HttpConnection looks at: its method    *)
(* and URI, whether it comes from the device itself, its Origin header     *)
(* (<<>> if there is none), and the value of the application's DIAL data   *)
(* as it was sent earlier.                                                 *)
RestFields == {"method", "uri", "local", "origin", "stored"}

(* What its client meant: a form of URI ("none" if it is no form of the    *)
(* protocol) and an application, spelled with repeated slashes (path),     *)
(* then with escapes (uri), and where in each the characters of the one    *)
(* before begin (start, at); an origin by its parts; and the value, with   *)
(* the places where its characters begin in the data that was sent.        *)
Meanings == {"form", "app", "path", "start", "at", "from", "plain", "places"}

ASSUME RestAssumption ==
  /\ \A r \in Requests :
       /\ RestFields \cup Meanings \subseteq DOMAIN r
       /\ {r.uri, r.origin, r.stored, r.app, r.path, r.plain} \subseteq Text
       /\ r.from \in Parts
  /\ Limits = {0, StartRoom, DataRoom}
  /\ NameMax \in Nat \ {0}

ASSUME ListsAssumption ==
  /\ Schemes \subseteq Text /\ gHttpsProto \in Schemes
  /\ \A s \in Schemes : Without(s, {Space}) /\ \A t \in Schemes \ {s} : ~StartsWith(t, s)
  /\ \A app \in DOMAIN Lists :
       Lists[app] \in Seq(Parts) /\ \A i \in 1..Len(Lists[app]) :
         Lists[app][i].scheme \in Schemes /\ IsCandidate(Lists[app][i])

APPS_URI == <<"/", "a", "p", "p", "s", "/">>
RUN_URI == <<"/", "r", "u", "n">>
HIDE_URI == <<"/", "h", "i", "d", "e">>
DIAL_DATA_URI == <<"/", "d", "i", "a", "l", "_", "d", "a", "t", "a">>

(* The name is what the URI has between parts of known length. *)
Name(u, others) ==
  SubSeq(u, Len(APPS_URI) + 1, Len(APPS_URI) + Least(Len(u) - others, NameMax))

Route(uri) ==
  LET u == path(uri)
      apps == Len(APPS_URI)
      run == apps + Len(RUN_URI)
      hide == run + Len(HIDE_URI)
  IN  IF Len(u) > run /\ EndsWith(u, RUN_URI)
      THEN [form |-> "run", app |-> Name(u, run)]
      ELSE IF Len(u) > apps /\ StartsWith(u, APPS_URI) /\ Places(From(u, apps + 1), "/") = {}
      THEN [form |-> "app", app |-> From(u, apps + 1)]
      ELSE IF Len(u) > hide /\ EndsWith(u, HIDE_URI)
      THEN [form |-> "hide", app |-> Name(u, hide)]
      ELSE IF Occurs(DIAL_DATA_URI, u)
      THEN [form |-> "data", app |-> parse_app_name(u)]
      ELSE [form |-> "none", app |-> <<>>]

is_allowed_origin(r, app) ==
  \/ r.origin = <<>>
  \/ app \in DOMAIN Lists /\ (Lists[app] = <<>> \/ is_uri_in_list(r.origin, WrittenList(Lists[app])))

Handler(form, method) ==
  CASE form = "run" /\ method = "DELETE" -> "stop"
    [] form = "app" /\ method = "POST" -> "start"
    [] form = "app" /\ method = "GET" -> "status"
    [] form = "hide" /\ method = "POST" -> "hide"
    [] form = "data" /\ method = "POST" -> "data_body"
    [] form = "data" /\ method # "POST" -> "data_query"
    [] OTHER -> "501"

(* What request_handler does: a handler it calls, or a status it sends. *)
Outcome(r) ==
  LET route == Route(r.uri)
  IN  IF route.form = "none" THEN "404"
      ELSE IF route.form = "data" /\ ~r.local THEN "403"
      ELSE IF ~is_allowed_origin(r, route.app) THEN "refused"
      ELSE IF r.method = "OPTIONS" THEN "204"
      ELSE Handler(route.form, r.method)

(* The body is read for an application that is registered. *)
Room[r \in Requests] ==
  CASE Route(r.uri).app \notin DOMAIN Lists -> 0
    [] Route(r.uri).app \in DOMAIN Lists /\ Outcome(r) = "start" -> StartRoom
    [] Route(r.uri).app \in DOMAIN Lists /\ Outcome(r) = "data_body" -> DataRoom
    [] OTHER -> 0

RequestHandler == Callback(Room[req])

RestStep ==
  \/ Receive \/ ReceiveNothing \/ Frame
  \/ RequestHandler \/ Reply
  \/ Discard \/ Discarded \/ Drain \/ Close

RestNext ==
  \/ \E r \in Requests : Accept(r) \/ AcceptBroken(r)
  \/ RestStep

RestSpec == Init /\ [][RestNext]_vars

RestFairSpec == RestSpec /\ WF_vars(RestStep)

-----------------------------------------------------------------------------
(* handle_app_status shows DIAL data in XML; url_decode_xml_encode.        *)
Shown(src) == xmlencode(urldecode(src, Len(src)), 2 * Len(src))

-----------------------------------------------------------------------------
(* Properties.                                                             *)

Suffix(form) ==
  CASE form = "run" -> RUN_URI
    [] form = "app" -> <<>>
    [] form = "hide" -> RUN_URI \o HIDE_URI
    [] form = "data" -> DIAL_DATA_URI

AppName(app) ==
  /\ Len(app) \in 1..NameMax
  /\ \A i \in 1..Len(app) : app[i] \notin Slashes
  /\ ~StartsWith(app, <<".", ".">>)

(* The request's URI names an application in a form of the protocol. *)
Names(r) ==
  /\ r.form \in {"run", "app", "hide", "data"} /\ AppName(r.app)
  /\ RepeatsSlashes(r.path, APPS_URI \o (r.app \o Suffix(r.form)), r.start)
  /\ SpellsUri(WithoutQuery(r.uri), r.path, r.at)

(* A URI that names an application in one of the forms of the protocol,    *)
(* however it spells the characters of the name, reaches the handler of    *)
(* its form and method with that name, and the origin is checked for it.   *)
RoutedAsWritten ==
  pc = "reply" /\ Names(req) => Route(req.uri) = [form |-> req.form, app |-> req.app]

(* The request has the Origin header of an origin, or none. *)
SaysOrigin(r) ==
  \/ r.origin = <<>>
  \/ r.from.scheme \in Schemes /\ IsOrigin(r.from) /\ r.origin = Written(r.from)

(* A request whose origin the application's list does not cover, by its    *)
(* scheme, first label, domain and port, reaches no handler; one whose     *)
(* origin it covers is not refused.  That a wildcard covers one label and  *)
(* no more is what the code does: see SubdomainsAdmitted.                  *)
OriginAsListed ==
  pc = "reply" /\ Names(req) /\ SaysOrigin(req) /\ (req.form = "data" => req.local) =>
    (Outcome(req) = "refused" <=>
       /\ req.origin # <<>>
       /\ \/ req.app \notin DOMAIN Lists
          \/ Lists[req.app] # <<>>
             /\ \A i \in 1..Len(Lists[req.app]) : ~Covers(Lists[req.app][i], req.from))

(* "The candidate may accept any subdomain if its domain begins with *."   *)
(* (dial_server.c:518), so that "the origin ends with the portion of the   *)
(* host that occurs after the subdomain wildcard" (592): an origin under   *)
(* the domain of a wildcard in the list is admitted, however deep.         *)
UnderWildcard(c, o) ==
  /\ c.scheme = gHttpsProto /\ o.scheme = gHttpsProto
  /\ c.label = <<"*">> /\ c.domain # <<>> /\ c.port \in {<<>>, o.port}
  /\ EndsWith(o.label \o After(".", o.domain), After(".", c.domain))

SubdomainsAdmitted ==
  /\ pc = "reply" /\ Names(req) /\ SaysOrigin(req) /\ (req.form = "data" => req.local)
  /\ req.origin # <<>> /\ req.app \in DOMAIN Lists
  /\ \E i \in 1..Len(Lists[req.app]) : UnderWildcard(Lists[req.app][i], req.from)
  => Outcome(req) # "refused"

(* A value of DIAL data is shown within the room that is allocated for it, *)
(* never with a part of an entity or a bare "<", and as the client meant   *)
(* it if that is shorter than twice what it sent.  What becomes of a       *)
(* longer one is the subject of DataShownInFull.                           *)
ShownWhole ==
  pc = "reply" /\ Outcome(req) = "status" =>
    LET s == Shown(req.stored)
    IN  /\ Len(s) <= 2 * Len(req.stored)
        /\ \A i \in 1..Len(s) :
             /\ s[i] \notin {"<", ">", "\"", "'"}
             /\ s[i] = "&" => \E e \in Entities : PartAt(s, i, e)
        /\ SpellsData(req.stored, req.plain, req.places)
             /\ Len(Meant(req.plain)) < 2 * Len(req.stored) => s = Meant(req.plain)

(* "Must be large enough for the resulting string (technically as much as  *)
(* 6x the raw string length ...)" (dial_server.c:121), of the array that a *)
(* value is decoded and encoded into: it is shown as the client meant it,  *)
(* whatever its length.                                                    *)
DataShownInFull ==
  pc = "reply" /\ Outcome(req) = "status" /\ SpellsData(req.stored, req.plain, req.places) =>
    Shown(req.stored) = Meant(req.plain)
=============================================================================
