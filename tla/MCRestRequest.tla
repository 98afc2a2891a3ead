--------------------------- MODULE MCRestRequest ---------------------------
(***************************************************************************)
(* Requests for RestRequest: some differ in what is sent and how it is     *)
(* framed, the others in URI, origin and data.                             *)
(***************************************************************************)
EXTENDS RestRequest, TLC

(* The characters of a string, and a set of places in their order.         *)
Chars(s) == [i \in 1..Len(s) |-> SubSeq(s, i, i)]
InOrder(S) ==
  [k \in 1..Cardinality(S) |-> CHOOSE i \in S : Cardinality({j \in S : j < i}) = k - 1]

Origin(scheme, label, domain, port) ==
  [scheme |-> Chars(scheme), label |-> Chars(label), domain |-> Chars(domain),
   port |-> Chars(port)]
Https(label, domain) == Origin("https://", label, domain, "")

MCSchemes == {Chars(s) : s \in {"https://", "http://", "package:"}}

(* The lists that main.c registers, one with ports, and an empty one. *)
MCLists ==
  Chars("YouTube") :> <<Https("youtube", "com"), Https("*", "youtube.com"),
                        Origin("package:", "*", "", "")>>
  @@ Chars("Netflix") :> <<Https("netflix", "com"), Https("www", "netflix.com")>>
  @@ Chars("Amazon") :> <<Https("*", "com"), Https("www", "*.com")>>
  @@ Chars("Ported") :> <<Origin("https://", "*", "tv.com", "443"),
                          Origin("https://", "a", "tv.com", "8080")>>
  @@ Chars("Open") :> <<>>

Framed(text, head, declared, length) ==
  [text |-> text, head |-> head, declared |-> declared, length |-> length]

(* A URI, with the path that it spells, for a form and an application; an  *)
(* origin, or nobody's; a value and how it was sent.                       *)
Asked(form, app, method, way, uri, from, plain, stored) ==
  LET slash(i) == i > 1 /\ way[i] = "/" /\ way[i - 1] = "/"
      tail(s, i) == (i > 1 /\ IsEscape(s, i - 1)) \/ (i > 2 /\ IsEscape(s, i - 2))
      begins(s) == InOrder({i \in 1..(Len(s) + 1) : ~tail(s, i)})
  IN  [form |-> form, app |-> app, method |-> method, path |-> way, uri |-> uri, local |-> TRUE,
       start |-> InOrder({i \in 1..Len(way) : ~slash(i)} \cup {Len(way) + 1}),
       at |-> begins(WithoutQuery(uri)), from |-> from,
       origin |-> IF from.label = <<>> THEN <<>> ELSE Written(from),
       plain |-> plain, stored |-> stored, places |-> begins(stored)]

Nobody == Https("", "")

Request(form, app, method, way, uri, from) ==
  Asked(form, Chars(app), method, Chars(way), Chars(uri), from, <<>>, <<>>)

-----------------------------------------------------------------------------
(* Framing: header texts, bodies and lengths; a launch, a post of data and *)
(* a query, whose handlers pass different sizes to mg_read.                *)
Texts ==
  {<<"h", "n", "n">>, <<"h", "n", "r", "n">>, <<"n", "n", "h">>, <<"h", "c", "n", "n">>,
   <<"h", "h", "n", "c">>, <<"h", "h", "h", "h", "n", "n">>,
   <<"h", "n", "n", "h", "h", "n">>, <<"h", "n", "r", "n", "n", "n", "h">>,
   <<"h", "n", "r", "h", "n", "n", "c", "h">>, <<"h", "n", "n", "h", "h", "h", "h", "h">>}

Bodies ==
  {Framed(t, "ok", TRUE, l) : t \in Texts, l \in {-1, 0, 2, 4}}
  \cup {Framed(t, "ok", FALSE, 0) : t \in Texts}
  \cup {Framed(t, h, TRUE, 1) : t \in {<<"h", "n", "n">>, <<"h", "n", "n", "h">>},
                                h \in {"bad", "version"}}

YouTube(form, method, uri, from) == Request(form, "YouTube", method, uri, uri, from)

Framing ==
  {f @@ q : f \in Bodies,
     q \in {YouTube("app", "POST", "/apps/YouTube", Https("youtube", "com")),
            YouTube("data", "POST", "/apps/YouTube/dial_data", Nobody)}}
  \cup {f @@ YouTube("app", "GET", "/apps/YouTube", Nobody) :
          f \in {Framed(<<"h", "n", "n", "h", "h", "h", "h", "h">>, "ok", TRUE, 4)}}

-----------------------------------------------------------------------------
(* Content: a URI in each form, spelled in several ways; origins for each  *)
(* list; values of DIAL data.  NameMax is the length of the longest name.  *)
Small == Framed(<<"n", "n">>, "ok", FALSE, 0)

Method == [run |-> "DELETE", app |-> "POST", hide |-> "POST", data |-> "GET"]

Spelled ==
  {<<"YouTube", "/apps/YouTube", "/apps/YouTube">>,
   <<"YouTube", "/apps//YouTube", "/apps//YouTube">>,
   <<"YouTube", "//apps/YouTube", "/%2fapps/%59ouTub%65">>,
   <<"run", "/apps/run", "/apps/run">>, <<"hide", "/apps/hide", "/apps/hide">>,
   <<"YouTube%", "/apps/YouTube%", "/apps/YouTube%">>,
   <<"a b+c", "/apps/a b+c", "/apps/a%20b+c">>}

Uris ==
  {Asked(form, Chars(s[1]), Method[form], Chars(s[2]) \o Suffix(form),
         Chars(s[3]) \o Suffix(form), Nobody, <<>>, <<>>) :
     form \in DOMAIN Method, s \in Spelled}
  \cup {Request("app", "YouTube", "GET", "/apps/YouTube",
                "/apps/YouTube?clientDialVer=2.1", Nobody),
        YouTube("run", "OPTIONS", "/apps/YouTube/run", Nobody),
        YouTube("run", "POST", "/apps/YouTube/run", Nobody),
        Request("none", "", "GET", "/apps/", "/apps/", Nobody),
        Request("none", "", "GET", "/dd.xml", "/dd.xml", Nobody),
        [YouTube("data", "POST", "/apps/YouTube/dial_data", Nobody) EXCEPT !.local = FALSE]}

Origins ==
  {Https("youtube", "com"), Https("www", "youtube.com"), Https("a", "b.youtube.com"),
   Https("notyoutube", "com"), Origin("https://", "youtube", "com", "8080"),
   Origin("http://", "youtube", "com", ""), Origin("package:", "tv", "", ""),
   Https("netflix", "com"), Https("com", ""), Origin("https://", "a", "tv.com", "443"),
   Origin("https://", "a", "tv.com", "8080"), Https("a", "tv.com"), Https("www", "x.com")}

Admissions ==
  {Asked("app", app, "GET", APPS_URI \o app, APPS_URI \o app, o, <<>>, <<>>) :
     app \in DOMAIN MCLists \cup {Chars("Absent")}, o \in Origins}

Data ==
  {Asked("app", Chars("YouTube"), "GET", Chars("/apps/YouTube"), Chars("/apps/YouTube"), Nobody,
         Chars(d[1]), Chars(d[2])) :
     d \in {<<"tv", "tv">>, <<"R&D", "R%26D">>, <<"a b", "a+b">>, <<"<<", "%3c%3C">>,
            <<"<x>", "<x>">>, <<"<b>&'", "%3cb%3E%26%27">>, <<"a<bcdefgh>i", "a<bcdefgh>i">>}}

Content == {Small @@ q : q \in Uris \cup Admissions \cup Data}

MCRequests == Framing \cup Content

(* What RoutedAsWritten, OriginAsListed and ShownWhole ask of a request    *)
(* holds for all of these.                                                 *)
ASSUME MeaningsAssumption ==
  \A r \in Requests :
    /\ r.form # "none" => Names(r)
    /\ SaysOrigin(r)
    /\ SpellsData(r.stored, r.plain, r.places)
=============================================================================
