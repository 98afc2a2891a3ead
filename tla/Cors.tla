-------------------------------- MODULE Cors --------------------------------
(***************************************************************************)
(* Which origins an application's list lets in: is_uri_in_list of          *)
(* src/dial_server.c with the two comparisons it calls, on texts.          *)
(***************************************************************************)
EXTENDS UrlText

gHttpsProto == <<"h", "t", "t", "p", "s", ":", "/", "/">>

(* A port is left out of the comparison where the candidate has none, or   *)
(* has 443 and the origin has none.                                        *)
WithoutPort(host, colon) == IF colon = 0 THEN host ELSE SubSeq(host, 1, colon - 1)

host_matches_suffix(origin, candidate) ==         \* mutant of host_matches
  /\ StartsWith(origin, gHttpsProto) /\ StartsWith(candidate, gHttpsProto)
  /\ LET origin_host == From(origin, 9)
         host == From(candidate, 9)
     IN  IF StartsWith(host, <<"*", ".">>) THEN EndsWith(origin_host, From(host, 3))
         ELSE origin_host = host

host_matches(origin, candidate) ==
  /\ StartsWith(origin, gHttpsProto) /\ StartsWith(candidate, gHttpsProto)
  /\ LET origin_host == From(origin, Len(gHttpsProto) + 1)
         host == From(candidate, Len(gHttpsProto) + 1)
         origin_colon == LastOf(origin_host, ":")
         host_colon == LastOf(host, ":")
         o == IF host_colon = 0 THEN WithoutPort(origin_host, origin_colon)
              ELSE origin_host
         h == IF /\ host_colon # 0 /\ From(host, host_colon) = <<":", "4", "4", "3">>
                 /\ origin_colon = 0
              THEN WithoutPort(host, host_colon) ELSE host
         dot == FirstOf(o, ".")
     IN  /\ o # <<>> /\ h # <<>>
         /\ IF Len(h) > 2 /\ StartsWith(h, <<"*", ".">>)
            THEN Len(o) >= Len(h) /\ dot # 0 /\ From(o, dot) = From(h, 2)
            ELSE o = h

(* A candidate that ends with "*" asks for what precedes it, and for at    *)
(* least one character more.                                               *)
origin_matches(origin, candidate) ==
  LET n == Len(candidate)
  IN  IF n > 1 /\ candidate[n] = "*"
      THEN Len(origin) >= n /\ StartsWith(origin, SubSeq(candidate, 1, n - 1))
      ELSE origin = candidate

(* The candidates of a list stand between single spaces. *)
Space == " "

NextSpace(list, i) == Min({j \in i..(Len(list) + 1) : j > Len(list) \/ list[j] = Space})

Candidates(list) ==
  {SubSeq(list, i, NextSpace(list, i) - 1) : i \in {1} \cup {j + 1 : j \in Places(list, Space)}}

is_uri_in_list(origin, list) ==
  \E candidate \in Candidates(list) :
    IF StartsWith(origin, gHttpsProto) THEN host_matches(origin, candidate)
    ELSE origin_matches(origin, candidate)

-----------------------------------------------------------------------------
(* The same by parts: an origin and a candidate are a scheme, the first    *)
(* label of a host, the domain after its dot and a port, <<>> where there  *)
(* is none.                                                                *)

After(c, part) == IF part = <<>> THEN <<>> ELSE <<c>> \o part

Parts == [scheme : Text, label : Text, domain : Text, port : Text]

Without(text, characters) == \A i \in 1..Len(text) : text[i] \notin characters

(* No part holds what separates it from the next.                          *)
IsOrigin(o) ==
  /\ o.label # <<>>
  /\ Without(o.label, {".", ":", Space}) /\ Without(o.domain, {":", Space})
  /\ Without(o.port, {".", ":", Space})

(* Outside of https, a candidate is a scheme with "*", or has none.        *)
IsCandidate(c) ==
  /\ IsOrigin(c)
  /\ \/ c.scheme = gHttpsProto
     \/ c.label = <<"*">> /\ c.domain = <<>> /\ c.port = <<>>
     \/ Without(c.label, {"*"}) /\ Without(c.domain, {"*"}) /\ Without(c.port, {"*"})

Written(o) == o.scheme \o (o.label \o (After(".", o.domain) \o After(":", o.port)))

WrittenList(list) ==
  LET upto[n \in 0..(Len(list) - 1)] ==      \* the first and n more
        IF n = 0 THEN Written(list[1]) ELSE upto[n - 1] \o (<<Space>> \o Written(list[n + 1]))
  IN  upto[Len(list) - 1]

(* A wildcard stands for the first label of a host, or for all of what is  *)
(* not a host.                                                             *)
Covers(c, o) ==
  /\ c.scheme = o.scheme
  /\ \/ /\ c.scheme = gHttpsProto
        /\ c.port \in {<<>>, o.port} \/ (c.port = <<"4", "4", "3">> /\ o.port = <<>>)
        /\ c.domain = o.domain
        /\ c.label = o.label \/ (c.label = <<"*">> /\ c.domain # <<>>)
     \/ /\ c.scheme # gHttpsProto
        /\ \/ c.label = <<"*">> /\ c.domain = <<>> /\ c.port = <<>>
           \/ c.label = o.label /\ c.domain = o.domain /\ c.port = o.port
=============================================================================
