----------------------------- MODULE Ssdp_proofs -----------------------------
(***************************************************************************)
(* Proofs of the safety properties of SSDP discovery, for any addresses,   *)
(* either order of the interfaces and any number of changes.               *)
(***************************************************************************)
EXTENDS Ssdp, TLAPS

(* The addresses the device has. *)
HeldAddrs == {net[i] : i \in Ifaces}
NoneHeld == \A i \in Ifaces : net[i] = NoAddr

(* A notification is still to be handled, or the look-up for it to begin. *)
Pending == events > 0 \/ pc.event = "lookup"

(* The callback is not running, or has not written anything and will not. *)
Quiet ==
  \/ pc.event \in {"idle", "lookup"}
  \/ pc.event = "copy" /\ ~matched.event

(* Places of the main thread once mreq is set, once the socket has joined, *)
(* and once it has published the socket.                                   *)
Looping == {"test", "recv", "left"}
Joined == {"publish"} \cup Looping
Targeted == {"join"} \cup Joined
Searched == {"copy", "copying"} \cup Targeted

(* Places of the callback after its look-up found something. *)
Moving == {"drop", "retarget", "rejoin"}

(* A thread has copied all that it found. *)
Copied(t) ==
  \/ pc[t] = "copy" /\ found[t] = <<>>
  \/ pc[t] \in Targeted \cup Moving

-----------------------------------------------------------------------------
(* Each notification comes from a change. *)
EventsCounted == events <= changes

(* The loop runs exactly with the socket published, and only with it does *)
(* the callback get past dropping the membership; look-ups of the main     *)
(* thread know the names of the interfaces.                                *)
Published ==
  /\ fd <=> pc.main \in Looping
  /\ pc.event \in {"retarget", "rejoin"} => fd
  /\ pc.main \in {"lookup"} \cup Searched => named

(* A thread copies what it found; the callback goes on if that is something. *)
Lists ==
  /\ \A t \in Threads : ~matched[t] => found[t] = <<>>
  /\ \A t \in Threads : pc[t] = "copying" => found[t] # <<>>
  /\ pc.event \in Moving => matched.event

(* Two copies that overlapped leave a trace only while the callback is at  *)
(* work: before the socket is published it does not come to rest again.    *)
Clashes ==
  /\ clash => \E t \in Threads : pc[t] = "copying"
  /\ Quiet => ~clash
  /\ Quiet /\ pc.main # "copying" => ip_addr # Mixed

(* Nobody but the callback at work changes what mreq was set from. *)
Targets ==
  /\ Quiet /\ pc.main \in Targeted => mreq = ip_addr
  /\ pc.event = "rejoin" => mreq = ip_addr

(* mreq names the membership of the socket. *)
MemberIsTarget ==
  pc.main \in Joined /\ pc.event \notin {"retarget", "rejoin"} => member = mreq

(* The loopback address is there only as long as nothing has been copied. *)
LoopbackMeansNone ==
  ip_addr = Loopback => \A t \in Threads : Copied(t) => ~matched[t]

(* What the look-ups know of the device, if no change is pending. *)
Current ==
  subscribed /\ ~Pending /\ Quiet =>
    /\ pc.main \in Searched /\ ip_addr = Loopback /\ ~matched.main => NoneHeld
    /\ pc.main \in Joined => ip_addr \in HeldAddrs \/ NoneHeld

(* The inductive invariant. *)
IInv ==
  /\ TypeOK /\ EventsCounted /\ Published /\ Lists /\ Clashes
  /\ Targets /\ MemberIsTarget /\ ExitExplained
  /\ LoopbackMeansNone /\ Current

(* The steps of each thread other than its look-ups. *)
MainOwnStep ==
  Subscribe \/ SetDialProperty \/ Prepare \/ Join \/ Publish \/ Test \/ Receive
EventOwnStep == Deliver \/ LookedUp \/ Drop \/ Retarget \/ Rejoin

-----------------------------------------------------------------------------
(* A look-up yields addresses. *)
LEMMA ListedAddrs == ASSUME TypeOK PROVE Listed \in Seq(Addrs)
  BY DEF TypeOK, Listed, Ifaces

(* Of two interfaces, in either order, none is listed only if none has an  *)
(* address.                                                                *)
LEMMA ListedNone == ASSUME TypeOK, named PROVE Listed = <<>> <=> NoneHeld
  BY OrderAssumption DEF TypeOK, Listed, Ifaces, NoneHeld

(* The ends of a sequence that is not empty. *)
LEMMA HeadTail ==
  ASSUME NEW S, NEW l \in Seq(S), l # <<>>
  PROVE  Head(l) \in S /\ Tail(l) \in Seq(S)
  OBVIOUS

(* A thread that is copying has an address to copy. *)
LEMMA Copying ==
  ASSUME IInv, NEW t \in Threads, CopyBegins(t) \/ CopyEnds(t)
  PROVE  Head(found[t]) \in Addrs /\ Tail(found[t]) \in Seq(Addrs)
<1>1. found[t] \in Seq(Addrs) /\ found[t] # <<>>
  BY DEF IInv, TypeOK, Lists, CopyBegins, CopyEnds
<1> QED
  BY <1>1, HeadTail

(* The invariant holds when the program starts. *)
LEMMA InitInv == Init => IInv
<1> SUFFICES ASSUME Init PROVE IInv
  OBVIOUS
<1>1. TypeOK
  <2>1. /\ pc \in [Threads -> MainPlaces \cup EventPlaces]
        /\ pc.main \in MainPlaces /\ pc.event \in EventPlaces
    BY DEF Init, Threads, MainPlaces, EventPlaces
  <2>2. <<>> \in Seq(Addrs)
    OBVIOUS
  <2>3. found \in [Threads -> Seq(Addrs)]
    BY <2>2 DEF Init
  <2>4. matched \in [Threads -> BOOLEAN]
    BY DEF Init
  <2>5. changes \in 0..MaxChanges /\ events \in 0..MaxChanges
    BY ChangesAssumption DEF Init
  <2>6. /\ ip_addr \in Text
        /\ mreq \in Text \cup {NoAddr} /\ member \in Text \cup {NoAddr}
    BY DEF Init, Text
  <2>7. /\ subscribed \in BOOLEAN /\ named \in BOOLEAN
        /\ ssdp_running \in BOOLEAN /\ fd \in BOOLEAN
        /\ inbox \in BOOLEAN /\ clash \in BOOLEAN /\ alive \in BOOLEAN
    BY DEF Init
  <2>8. net \in [Ifaces -> Addrs \cup {NoAddr}]
    BY DEF Init
  <2> QED
    BY <2>1, <2>3, <2>4, <2>5, <2>6, <2>7, <2>8 DEF TypeOK
<1>2. EventsCounted /\ Published /\ Lists
  BY DEF Init, EventsCounted, Published, Lists, Looping, Joined, Targeted,
         Searched, Moving, Threads
<1>3. Clashes /\ Targets /\ MemberIsTarget /\ ExitExplained
  BY AddrsAssumption DEF Init, Clashes, Targets, MemberIsTarget, ExitExplained,
         Quiet, Looping, Joined, Targeted, Threads
<1>4. LoopbackMeansNone /\ Current
  BY DEF Init, LoopbackMeansNone, Current, Copied, Looping, Joined, Targeted,
         Searched, Moving, Threads
<1> QED
  BY <1>1, <1>2, <1>3, <1>4 DEF IInv

-----------------------------------------------------------------------------
(* Where the two threads are. *)
PcTyped ==
  /\ pc \in [Threads -> MainPlaces \cup EventPlaces]
  /\ pc.main \in MainPlaces /\ pc.event \in EventPlaces

(* A thread that goes to one of its places leaves pc well typed. *)
LEMMA GotoTypes ==
  ASSUME PcTyped, NEW t \in Threads, NEW place, Goto(t, place),
         t = "main" => place \in MainPlaces,
         t = "event" => place \in EventPlaces
  PROVE  PcTyped'
<1>1. place \in MainPlaces \cup EventPlaces
  BY DEF Threads
<1>2. pc' \in [Threads -> MainPlaces \cup EventPlaces]
  BY <1>1 DEF PcTyped, Goto
<1>3. CASE t = "main"
  BY <1>2, <1>3 DEF PcTyped, Goto, Threads
<1>4. CASE t = "event"
  BY <1>2, <1>4 DEF PcTyped, Goto, Threads
<1> QED
  BY <1>3, <1>4 DEF Threads

(* Every step keeps the types of pc. *)
LEMMA PcStep ==
  ASSUME PcTyped, [Next]_vars
  PROVE  PcTyped'
<1> USE DEF MainPlaces, EventPlaces
<1>1. "main" \in Threads /\ "event" \in Threads /\ "main" # "event"
  BY DEF Threads
<1>2. CASE UNCHANGED pc
  BY <1>2 DEF PcTyped
<1>3. CASE Signal
  BY <1>1, <1>2, <1>3, GotoTypes DEF Signal
<1>4. ASSUME NEW t \in Threads, LookUp(t) PROVE PcTyped'
  <2>1. PICK place \in {"copy", "copying"} : Goto(t, place)
    BY <1>4 DEF LookUp, GetLocalAddress, CopyBegins, CopyEnds
  <2> QED
    BY <1>1, <2>1, GotoTypes
<1>5. CASE MainOwnStep
  <2>1. CASE Join
    BY <1>1, <1>2, <2>1, GotoTypes DEF Join
  <2>2. CASE ~Join
    <3>1. PICK place \in MainPlaces : Goto("main", place)
      BY <1>5, <2>2 DEF MainOwnStep, Subscribe, SetDialProperty, Prepare,
             Publish, Test, Receive
    <3> QED
      BY <1>1, <3>1, GotoTypes
  <2> QED
    BY <2>1, <2>2
<1>6. CASE EventOwnStep
  <2>1. CASE Deliver \/ LookedUp \/ Retarget
    <3>1. PICK place \in EventPlaces : Goto("event", place)
      BY <2>1 DEF Deliver, LookedUp, Retarget
    <3> QED
      BY <1>1, <3>1, GotoTypes
  <2>2. CASE Drop
    BY <1>1, <1>2, <2>2, GotoTypes DEF Drop
  <2>3. CASE Rejoin
    BY <1>1, <1>2, <2>3, GotoTypes DEF Rejoin
  <2> QED
    BY <1>6, <2>1, <2>2, <2>3 DEF EventOwnStep
<1>7. CASE (\E i \in Ifaces, a \in Addrs \cup {NoAddr} : Change(i, a)) \/ Datagram
  BY <1>2, <1>7 DEF Change, Datagram
<1>8. CASE UNCHANGED vars
  BY <1>2, <1>8 DEF vars
<1> QED
  BY <1>1, <1>3, <1>4, <1>5, <1>6, <1>7, <1>8
  DEF Next, World, MainStep, EventStep, MainOwnStep, EventOwnStep

(* The types of the variables that only the world and start-up change. *)
WorldTyped ==
  /\ net \in [Ifaces -> Addrs \cup {NoAddr}]
  /\ changes \in 0..MaxChanges /\ events \in 0..MaxChanges
  /\ subscribed \in BOOLEAN /\ named \in BOOLEAN
  /\ ssdp_running \in BOOLEAN
  /\ fd \in BOOLEAN /\ inbox \in BOOLEAN /\ alive \in BOOLEAN

(* The types of what the two threads look up and join on. *)
GroupTyped ==
  /\ ip_addr \in Text
  /\ mreq \in Text \cup {NoAddr}
  /\ member \in Text \cup {NoAddr}
  /\ found \in [Threads -> Seq(Addrs)]
  /\ matched \in [Threads -> BOOLEAN]
  /\ clash \in BOOLEAN

LEMMA TypeParts == TypeOK <=> PcTyped /\ WorldTyped /\ GroupTyped
  BY DEF TypeOK, PcTyped, WorldTyped, GroupTyped

(* Every step keeps the types of the device, the settings and the socket. *)
LEMMA WorldStep ==
  ASSUME WorldTyped, EventsCounted, [Next]_vars
  PROVE  WorldTyped'
<1> USE DEF WorldTyped, EventsCounted, world, settings, group, lookup
<1>1. ASSUME NEW i \in Ifaces, NEW a \in Addrs \cup {NoAddr}, Change(i, a)
      PROVE  WorldTyped'
  BY <1>1, ChangesAssumption DEF Change
<1>2. CASE Datagram \/ Signal
  BY <1>2 DEF Datagram, Signal
<1>3. ASSUME NEW t \in Threads, LookUp(t) PROVE WorldTyped'
  BY <1>3 DEF LookUp, GetLocalAddress, CopyBegins, CopyEnds
<1>4. CASE Subscribe \/ SetDialProperty \/ Prepare
  BY <1>4 DEF Subscribe, SetDialProperty, Prepare
<1>5. CASE Join \/ Publish \/ Test \/ Receive
  BY <1>5 DEF Join, Publish, Test, Receive
<1>6. CASE Deliver
  BY <1>6, ChangesAssumption DEF Deliver
<1>7. CASE LookedUp \/ Drop \/ Retarget \/ Rejoin
  BY <1>7 DEF LookedUp, Drop, Retarget, Rejoin
<1>8. CASE UNCHANGED vars
  BY <1>8 DEF vars
<1> QED
  BY <1>1, <1>2, <1>3, <1>4, <1>5, <1>6, <1>7, <1>8
  DEF Next, World, MainStep, EventStep, Threads

(* Every step keeps the types of the addresses. *)
LEMMA GroupStep ==
  ASSUME IInv, GroupTyped, [Next]_vars
  PROVE  GroupTyped'
<1> USE DEF GroupTyped, Text, world, settings, group, lookup
<1>1. CASE World
  BY <1>1 DEF World, Change, Datagram, Signal
<1>2. ASSUME NEW t \in Threads, GetLocalAddress(t) PROVE GroupTyped'
  <2>1. Listed \in Seq(Addrs)
    BY ListedAddrs DEF IInv
  <2> QED
    BY <1>2, <2>1 DEF GetLocalAddress
<1>3. ASSUME NEW t \in Threads, CopyBegins(t) PROVE GroupTyped'
  BY <1>3, Copying DEF CopyBegins
<1>4. ASSUME NEW t \in Threads, CopyEnds(t) PROVE GroupTyped'
  <2>1. Head(found[t]) \in Addrs /\ Tail(found[t]) \in Seq(Addrs)
    BY <1>4, Copying
  <2>2. ip_addr' \in Text /\ clash' \in BOOLEAN
    BY <1>4, <2>1 DEF CopyEnds
  <2>3. found' \in [Threads -> Seq(Addrs)]
    BY <1>4, <2>1 DEF CopyEnds
  <2> QED
    BY <1>4, <2>2, <2>3 DEF CopyEnds
<1>5. CASE MainOwnStep
  BY <1>5 DEF MainOwnStep, Subscribe, SetDialProperty, Prepare, Join, Publish,
         Test, Receive
<1>6. CASE EventOwnStep
  BY <1>6 DEF EventOwnStep, Deliver, LookedUp, Drop, Retarget, Rejoin
<1>7. CASE UNCHANGED vars
  BY <1>7 DEF vars
<1> QED
  BY <1>1, <1>2, <1>3, <1>4, <1>5, <1>6, <1>7
  DEF Next, MainStep, EventStep, LookUp, MainOwnStep, EventOwnStep, Threads

(* Every step keeps the types. *)
LEMMA TypeStep ==
  ASSUME IInv, [Next]_vars
  PROVE  TypeOK'
<1>1. PcTyped' /\ WorldTyped' /\ GroupTyped'
  BY TypeParts, PcStep, WorldStep, GroupStep DEF IInv
<1> QED
  BY <1>1 DEF TypeOK, PcTyped, WorldTyped, GroupTyped

-----------------------------------------------------------------------------
(* The other parts of the invariant.                                       *)

(* Only a change adds a notification, and each is delivered once. *)
LEMMA EventsStep ==
  ASSUME IInv, [Next]_vars
  PROVE  EventsCounted'
<1> USE DEF IInv, TypeOK, EventsCounted, MainPlaces, EventPlaces, Ifaces,
            Threads, Goto, world, settings, group, lookup
<1>1. CASE World
  BY <1>1 DEF World, Change, Datagram, Signal
<1>2. ASSUME NEW t \in Threads, LookUp(t) PROVE EventsCounted'
  BY <1>2 DEF LookUp, GetLocalAddress, CopyBegins, CopyEnds, Other
<1>3. CASE MainOwnStep
  BY <1>3 DEF MainOwnStep, Subscribe, SetDialProperty, Prepare, Join, Publish,
         Test, Receive
<1>4. CASE EventOwnStep
  BY <1>4 DEF EventOwnStep, Deliver, LookedUp, Drop, Retarget, Rejoin
<1>5. CASE UNCHANGED vars
  BY <1>5 DEF vars
<1> QED
  BY <1>1, <1>2, <1>3, <1>4, <1>5
  DEF Next, MainStep, EventStep, MainOwnStep, EventOwnStep, Threads

(* Only Publish sets the descriptor, and the loop begins after it. *)
LEMMA PublishedStep ==
  ASSUME IInv, [Next]_vars
  PROVE  Published'
<1> USE DEF IInv, TypeOK, Published, Looping, Joined, Targeted, Searched,
            Moving, MainPlaces, EventPlaces, Ifaces, Threads, Goto, world,
            settings, group, lookup
<1>1. CASE World
  BY <1>1 DEF World, Change, Datagram, Signal
<1>2. ASSUME NEW t \in Threads, LookUp(t) PROVE Published'
  BY <1>2 DEF LookUp, GetLocalAddress, CopyBegins, CopyEnds, Other
<1>3. CASE MainOwnStep
  <2>1. CASE Subscribe
    BY <2>1 DEF Subscribe
  <2>2. CASE SetDialProperty
    BY <2>2 DEF SetDialProperty
  <2>3. CASE Prepare
    BY <2>3 DEF Prepare
  <2>4. CASE Join
    BY <2>4 DEF Join
  <2>5. CASE Publish
    BY <2>5 DEF Publish
  <2>6. CASE Test
    BY <2>6 DEF Test
  <2>7. CASE Receive
    BY <2>7 DEF Receive
  <2> QED
    BY <1>3, <2>1, <2>2, <2>3, <2>4, <2>5, <2>6, <2>7 DEF MainOwnStep
<1>4. CASE EventOwnStep
  BY <1>4 DEF EventOwnStep, Deliver, LookedUp, Drop, Retarget, Rejoin
<1>5. CASE UNCHANGED vars
  BY <1>5 DEF vars
<1> QED
  BY <1>1, <1>2, <1>3, <1>4, <1>5
  DEF Next, MainStep, EventStep, MainOwnStep, EventOwnStep, Threads

(* A copy shortens the list; a look-up makes it and matched together. *)
LEMMA ListsStep ==
  ASSUME IInv, [Next]_vars
  PROVE  Lists'
<1> USE DEF IInv, TypeOK, Lists, Looping, Joined, Targeted, Searched, Moving,
            MainPlaces, EventPlaces, Ifaces, Threads, Goto, world, settings,
            group, lookup
<1>1. CASE World
  BY <1>1 DEF World, Change, Datagram, Signal
<1>2. ASSUME NEW t \in Threads, LookUp(t) PROVE Lists'
  BY <1>2, ListedAddrs DEF LookUp, GetLocalAddress, CopyBegins, CopyEnds, Other
<1>3. CASE MainOwnStep
  BY <1>3 DEF MainOwnStep, Subscribe, SetDialProperty, Prepare, Join, Publish,
         Test, Receive
<1>4. CASE EventOwnStep
  BY <1>4 DEF EventOwnStep, Deliver, LookedUp, Drop, Retarget, Rejoin
<1>5. CASE UNCHANGED vars
  BY <1>5 DEF vars
<1> QED
  BY <1>1, <1>2, <1>3, <1>4, <1>5
  DEF Next, MainStep, EventStep, MainOwnStep, EventOwnStep, Threads

(* A mixture can be left only when the callback is past its look-up. *)
LEMMA ClashesStep ==
  ASSUME IInv, [Next]_vars
  PROVE  Clashes'
<1> USE DEF IInv, TypeOK, Published, Lists, Clashes, Targets, Quiet, Joinable,
            Looping, Joined, Targeted, Searched, Moving, MainPlaces,
            EventPlaces, Ifaces, Threads, Goto, world, settings, group, lookup
<1>1. CASE World
  BY <1>1 DEF World, Change, Datagram, Signal
<1>2. ASSUME NEW t \in Threads, LookUp(t) PROVE Clashes'
  <2>1. CASE GetLocalAddress(t)
    BY <2>1 DEF GetLocalAddress
  <2>2. CASE CopyBegins(t)
    BY <2>2 DEF CopyBegins, Other
  <2>3. CASE CopyEnds(t) /\ t = "main"
    <3>1. Quiet' => Quiet /\ ~clash
      BY <2>3 DEF CopyEnds
    <3>2. Quiet' => ip_addr' \in Addrs
      BY <2>3, <3>1, Copying DEF CopyEnds
    <3>3. clash' <=> pc.event = "copying"
      BY <2>3 DEF CopyEnds, Other
    <3>4. pc' = [pc EXCEPT !["main"] = "copy"]
      BY <2>3 DEF CopyEnds
    <3> QED
      BY <3>1, <3>2, <3>3, <3>4, AddrsAssumption
  <2>4. CASE CopyEnds(t) /\ t = "event"
    <3>1. ~Quiet'
      BY <2>4 DEF CopyEnds
    <3>2. clash' <=> pc.main = "copying"
      BY <2>4 DEF CopyEnds, Other
    <3>3. pc' = [pc EXCEPT !["event"] = "copy"]
      BY <2>4 DEF CopyEnds
    <3> QED
      BY <3>1, <3>2, <3>3
  <2> QED
    BY <1>2, <2>1, <2>2, <2>3, <2>4 DEF LookUp
<1>3. CASE MainOwnStep
  <2>1. CASE Subscribe
    BY <2>1 DEF Subscribe
  <2>2. CASE SetDialProperty
    BY <2>2 DEF SetDialProperty
  <2>3. CASE Prepare
    BY <2>3 DEF Prepare
  <2>4. CASE Join
    BY <2>4 DEF Join
  <2>5. CASE Publish
    BY <2>5 DEF Publish
  <2>6. CASE Test
    BY <2>6 DEF Test
  <2>7. CASE Receive
    BY <2>7 DEF Receive
  <2> QED
    BY <1>3, <2>1, <2>2, <2>3, <2>4, <2>5, <2>6, <2>7 DEF MainOwnStep
<1>4. CASE EventOwnStep
  BY <1>4, AddrsAssumption DEF EventOwnStep, Deliver, LookedUp, Drop, Retarget,
         Rejoin
<1>5. CASE UNCHANGED vars
  BY <1>5 DEF vars
<1> QED
  BY <1>1, <1>2, <1>3, <1>4, <1>5
  DEF Next, MainStep, EventStep, MainOwnStep, EventOwnStep, Threads

(* After mreq has been set, ip_addr changes only in the callback. *)
LEMMA TargetsStep ==
  ASSUME IInv, [Next]_vars
  PROVE  Targets'
<1> USE DEF IInv, TypeOK, Published, Lists, Targets, Quiet, Looping, Joined,
            Targeted, Searched, Moving, MainPlaces, EventPlaces, Ifaces,
            Threads, Goto, world, settings, group, lookup
<1>1. CASE World
  BY <1>1 DEF World, Change, Datagram, Signal
<1>2. ASSUME NEW t \in Threads, LookUp(t) PROVE Targets'
  BY <1>2 DEF LookUp, GetLocalAddress, CopyBegins, CopyEnds, Other
<1>3. CASE MainOwnStep
  BY <1>3 DEF MainOwnStep, Subscribe, SetDialProperty, Prepare, Join, Publish,
         Test, Receive
<1>4. CASE EventOwnStep
  BY <1>4 DEF EventOwnStep, Deliver, LookedUp, Drop, Retarget, Rejoin
<1>5. CASE UNCHANGED vars
  BY <1>5 DEF vars
<1> QED
  BY <1>1, <1>2, <1>3, <1>4, <1>5
  DEF Next, MainStep, EventStep, MainOwnStep, EventOwnStep, Threads

(* Drop, Retarget and Rejoin bring mreq and the membership together again. *)
LEMMA MemberStep ==
  ASSUME IInv, [Next]_vars
  PROVE  MemberIsTarget'
<1> USE DEF IInv, TypeOK, Published, MemberIsTarget, Looping, Joined,
            Targeted, Searched, Moving, MainPlaces, EventPlaces, Ifaces,
            Threads, Goto, world, settings, group, lookup
<1>1. CASE World
  BY <1>1 DEF World, Change, Datagram, Signal
<1>2. ASSUME NEW t \in Threads, LookUp(t) PROVE MemberIsTarget'
  BY <1>2 DEF LookUp, GetLocalAddress, CopyBegins, CopyEnds, Other
<1>3. CASE MainOwnStep
  <2>1. CASE Subscribe
    BY <2>1 DEF Subscribe
  <2>2. CASE SetDialProperty
    BY <2>2 DEF SetDialProperty
  <2>3. CASE Prepare
    BY <2>3 DEF Prepare
  <2>4. CASE Join
    BY <2>4 DEF Join
  <2>5. CASE Publish
    BY <2>5 DEF Publish
  <2>6. CASE Test
    BY <2>6 DEF Test
  <2>7. CASE Receive
    BY <2>7 DEF Receive
  <2> QED
    BY <1>3, <2>1, <2>2, <2>3, <2>4, <2>5, <2>6, <2>7 DEF MainOwnStep
<1>4. CASE EventOwnStep
  BY <1>4 DEF EventOwnStep, Deliver, LookedUp, Drop, Retarget, Rejoin
<1>5. CASE UNCHANGED vars
  BY <1>5 DEF vars
<1> QED
  BY <1>1, <1>2, <1>3, <1>4, <1>5
  DEF Next, MainStep, EventStep, MainOwnStep, EventOwnStep, Threads

(* Nothing happens after exit(1), and only two places can lead there. *)
LEMMA ExitStep ==
  ASSUME IInv, [Next]_vars
  PROVE  ExitExplained'
<1> USE DEF IInv, TypeOK, Published, MemberIsTarget, ExitExplained, Joinable,
            Looping, Joined, Targeted, Searched, Moving, MainPlaces,
            EventPlaces, Ifaces, Threads, Goto, world, settings, group, lookup
<1>1. CASE World
  BY <1>1 DEF World, Change, Datagram, Signal
<1>2. ASSUME NEW t \in Threads, LookUp(t) PROVE ExitExplained'
  BY <1>2 DEF LookUp, GetLocalAddress, CopyBegins, CopyEnds, Other
<1>3. CASE MainOwnStep
  BY <1>3 DEF MainOwnStep, Subscribe, SetDialProperty, Prepare, Join, Publish,
         Test, Receive
<1>4. CASE EventOwnStep
  <2>1. CASE Deliver \/ LookedUp \/ Retarget
    BY <2>1 DEF Deliver, LookedUp, Retarget
  <2>2. CASE Drop
    BY <2>2 DEF Drop
  <2>3. CASE Rejoin
    BY <2>3 DEF Rejoin
  <2> QED
    BY <1>4, <2>1, <2>2, <2>3 DEF EventOwnStep
<1>5. CASE UNCHANGED vars
  BY <1>5 DEF vars
<1> QED
  BY <1>1, <1>2, <1>3, <1>4, <1>5
  DEF Next, MainStep, EventStep, MainOwnStep, EventOwnStep, Threads

(* Copying overwrites the loopback address, and nothing restores it. *)
LEMMA LoopbackStep ==
  ASSUME IInv, [Next]_vars
  PROVE  LoopbackMeansNone'
<1> USE DEF IInv, TypeOK, Published, Lists, LoopbackMeansNone, Copied,
            Looping, Joined, Targeted, Searched, Moving, MainPlaces,
            EventPlaces, Ifaces, Threads, Goto, world, settings, group, lookup
<1>1. CASE World
  BY <1>1 DEF World, Change, Datagram, Signal
<1>2. ASSUME NEW t \in Threads, LookUp(t) PROVE LoopbackMeansNone'
  BY <1>2, AddrsAssumption, ListedAddrs, Copying DEF LookUp, GetLocalAddress,
         CopyBegins, CopyEnds, Other
<1>3. CASE MainOwnStep
  <2>1. CASE Subscribe
    BY <2>1 DEF Subscribe
  <2>2. CASE SetDialProperty
    BY <2>2 DEF SetDialProperty
  <2>3. CASE Prepare
    BY <2>3 DEF Prepare
  <2>4. CASE Join
    BY <2>4 DEF Join
  <2>5. CASE Publish
    BY <2>5 DEF Publish
  <2>6. CASE Test
    BY <2>6 DEF Test
  <2>7. CASE Receive
    BY <2>7 DEF Receive
  <2> QED
    BY <1>3, <2>1, <2>2, <2>3, <2>4, <2>5, <2>6, <2>7 DEF MainOwnStep
<1>4. CASE EventOwnStep
  BY <1>4 DEF EventOwnStep, Deliver, LookedUp, Drop, Retarget, Rejoin
<1>5. CASE UNCHANGED vars
  BY <1>5 DEF vars
<1> QED
  BY <1>1, <1>2, <1>3, <1>4, <1>5
  DEF Next, MainStep, EventStep, MainOwnStep, EventOwnStep, Threads

(* Joining on an address proves that the device has it.                    *)
LEMMA JoinCurrent ==
  ASSUME IInv, Join
  PROVE  Current'
<1> USE DEF IInv, TypeOK, Targets, LoopbackMeansNone, Current, HeldAddrs,
            NoneHeld, Pending, Quiet, Copied, Looping, Joined, Targeted,
            Searched, Moving, MainPlaces, EventPlaces, Ifaces, Threads, Goto,
            world, settings, group, lookup
<1>1. CASE Joinable(mreq)
  <2>1. pc' = [pc EXCEPT !["main"] = "publish"] /\ pc.main = "join"
    BY <1>1 DEF Join
  <2>2. UNCHANGED <<net, events, subscribed, ip_addr, matched>>
    BY DEF Join
  <2>3. (Quiet' <=> Quiet) /\ (Pending' <=> Pending)
    BY <2>1, <2>2
  <2>4. HeldAddrs' = HeldAddrs /\ (NoneHeld' <=> NoneHeld)
    BY <2>2
  <2>5. Quiet => mreq = ip_addr
    BY <2>1
  <2>6. ip_addr = Loopback => ~matched.main
    BY <2>1
  <2>7. subscribed /\ ~Pending /\ Quiet => ip_addr \in HeldAddrs \/ NoneHeld
    BY <1>1, <2>1, <2>5, <2>6 DEF Joinable
  <2>8. pc.main \in Searched
    BY <2>1
  <2> QED
    BY <2>2, <2>3, <2>4, <2>7, <2>8
<1>2. CASE ~Joinable(mreq)
  BY <1>2 DEF Join
<1> QED
  BY <1>1, <1>2

(* So does joining again, in the callback. *)
LEMMA RejoinCurrent ==
  ASSUME IInv, Rejoin
  PROVE  Current'
<1>1. CASE Joinable(mreq)
  <2>1. pc' = [pc EXCEPT !["event"] = "idle"] /\ pc.event = "rejoin"
    BY <1>1 DEF Rejoin, Goto
  <2>2. UNCHANGED <<net, events, subscribed, ip_addr, matched>>
    BY DEF Rejoin, world, settings, lookup
  <2>3. pc'.main = pc.main /\ matched.event /\ mreq = ip_addr
    BY <2>1 DEF IInv, TypeOK, Lists, Moving, Targets, Threads
  <2>4. ip_addr # Loopback
    BY <2>1, <2>3 DEF IInv, LoopbackMeansNone, Copied, Moving, Threads
  <2>5. ip_addr \in HeldAddrs
    BY <1>1, <2>3, <2>4 DEF Joinable, HeldAddrs
  <2>6. ip_addr' # Loopback /\ ip_addr' \in HeldAddrs'
    BY <2>2, <2>4, <2>5 DEF HeldAddrs
  <2> QED
    BY <2>6 DEF Current
<1>2. CASE ~Joinable(mreq)
  <2>1. UNCHANGED <<net, events, subscribed, ip_addr, matched, pc>>
    BY <1>2 DEF Rejoin, world, settings, lookup
  <2> QED
    BY <2>1 DEF IInv, Current, Pending, Quiet, HeldAddrs, NoneHeld
<1> QED
  BY <1>1, <1>2

(* A step of a look-up of the callback leaves the callback at work, but for *)
(* a look-up that finds nothing, which means that there is no address.      *)
LEMMA EventLookUpCurrent ==
  ASSUME IInv, LookUp("event")
  PROVE  Current'
<1> USE DEF IInv, Goto
<1>1. "event" \in Threads /\ "main" \in Threads
  BY DEF Threads
<1>2. CASE GetLocalAddress("event")
  <2>1. pc'.event = "copy" /\ pc'.main = pc.main /\ pc.event = "lookup"
    BY <1>1, <1>2 DEF GetLocalAddress, TypeOK
  <2>2. matched'.event = (Listed # <<>>) /\ matched'.main = matched.main
    BY <1>1, <1>2 DEF GetLocalAddress, TypeOK
  <2>3. UNCHANGED <<net, subscribed, events, ip_addr, named>>
    BY <1>2 DEF GetLocalAddress, world, settings
  <2>4. CASE named
    <3>1. Quiet' => NoneHeld
      BY <2>1, <2>2, <2>4, ListedNone DEF Quiet
    <3>2. NoneHeld => NoneHeld'
      BY <2>3 DEF NoneHeld
    <3> QED
      BY <3>1, <3>2 DEF Current
  <2>5. CASE ~named
    BY <2>1, <2>5 DEF Current, Published, Searched, Targeted, Joined
  <2> QED
    BY <2>4, <2>5
<1>3. CASE CopyBegins("event")
  <2>1. pc'.event = "copying"
    BY <1>1, <1>3 DEF CopyBegins, TypeOK
  <2> QED
    BY <2>1 DEF Current, Quiet
<1>4. CASE CopyEnds("event")
  <2>1. pc'.event = "copy" /\ pc.event = "copying" /\ matched' = matched
    BY <1>1, <1>4 DEF CopyEnds, TypeOK
  <2>2. matched.event
    BY <1>1, <2>1 DEF Lists, TypeOK
  <2> QED
    BY <2>1, <2>2 DEF Current, Quiet
<1> QED
  BY <1>2, <1>3, <1>4 DEF LookUp

(* The main thread looks up before it joins: what it finds is the device's. *)
LEMMA MainLookUpCurrent ==
  ASSUME IInv, LookUp("main")
  PROVE  Current'
<1> USE DEF IInv, Goto
<1>1. "event" \in Threads /\ "main" \in Threads
  BY DEF Threads
<1>2. UNCHANGED <<net, subscribed, events>>
  BY DEF LookUp, GetLocalAddress, CopyBegins, CopyEnds, world, settings
<1>3. pc'.main \in {"copy", "copying"} /\ pc'.event = pc.event
  BY <1>1 DEF LookUp, GetLocalAddress, CopyBegins, CopyEnds, TypeOK
<1>4. pc'.main \notin Joined
  BY <1>3 DEF Joined, Looping
<1>5. CASE GetLocalAddress("main")
  <2>1. matched'.main = (Listed # <<>>) /\ named
    BY <1>1, <1>5 DEF GetLocalAddress, TypeOK, Published
  <2>2. ~matched'.main => NoneHeld
    BY <2>1, ListedNone
  <2>3. NoneHeld => NoneHeld'
    BY <1>2 DEF NoneHeld
  <2> QED
    BY <1>4, <2>2, <2>3 DEF Current
<1>6. CASE CopyBegins("main") \/ CopyEnds("main")
  <2>1. pc.main \in {"copy", "copying"} /\ found.main # <<>>
    BY <1>1, <1>6 DEF CopyBegins, CopyEnds, Lists
  <2>2. matched'.main /\ matched.main
    BY <1>1, <1>6, <2>1 DEF CopyBegins, CopyEnds, Lists, TypeOK
  <2> QED
    BY <1>4, <2>2 DEF Current
<1> QED
  BY <1>5, <1>6 DEF LookUp

(* Each step keeps what is known of the device, or leaves a change pending. *)
LEMMA CurrentStep ==
  ASSUME IInv, [Next]_vars
  PROVE  Current'
<1> USE DEF IInv, TypeOK, Published, Lists, Targets, LoopbackMeansNone,
            Current, HeldAddrs, NoneHeld, Pending, Quiet, Copied, Looping,
            Joined, Targeted, Searched, Moving, MainPlaces, EventPlaces,
            Ifaces, Threads, Goto, world, settings, group, lookup
<1>1. CASE World
  <2>1. ASSUME NEW i \in Ifaces, NEW a \in Addrs \cup {NoAddr}, Change(i, a)
        PROVE  Current'
    BY <2>1 DEF Change
  <2>2. CASE Datagram
    BY <2>2 DEF Datagram
  <2>3. CASE Signal
    BY <2>3 DEF Signal
  <2> QED
    BY <1>1, <2>1, <2>2, <2>3 DEF World
<1>2. ASSUME NEW t \in Threads, LookUp(t) PROVE Current'
  BY <1>2, MainLookUpCurrent, EventLookUpCurrent DEF Threads
<1>3. CASE MainOwnStep
  <2>1. CASE Subscribe
    BY <2>1 DEF Subscribe
  <2>2. CASE SetDialProperty
    BY <2>2 DEF SetDialProperty
  <2>3. CASE Prepare
    BY <2>3 DEF Prepare
  <2>4. CASE Join
    BY <2>4, JoinCurrent
  <2>5. CASE Publish
    BY <2>5 DEF Publish
  <2>6. CASE Test
    BY <2>6 DEF Test
  <2>7. CASE Receive
    BY <2>7 DEF Receive
  <2> QED
    BY <1>3, <2>1, <2>2, <2>3, <2>4, <2>5, <2>6, <2>7 DEF MainOwnStep
<1>4. CASE EventOwnStep
  <2>1. CASE Deliver
    BY <2>1 DEF Deliver
  <2>2. CASE LookedUp
    BY <2>2 DEF LookedUp
  <2>3. CASE Drop
    BY <2>3 DEF Drop
  <2>4. CASE Retarget
    BY <2>4 DEF Retarget
  <2>5. CASE Rejoin
    BY <2>5, RejoinCurrent
  <2> QED
    BY <1>4, <2>1, <2>2, <2>3, <2>4, <2>5 DEF EventOwnStep
<1>5. CASE UNCHANGED vars
  BY <1>5 DEF vars
<1> QED
  BY <1>1, <1>2, <1>3, <1>4, <1>5
  DEF Next, MainStep, EventStep, MainOwnStep, EventOwnStep, Threads

-----------------------------------------------------------------------------
(* The inductive invariant holds in every reachable state. *)
THEOREM Invariance == Spec => []IInv
<1>1. IInv /\ [Next]_vars => IInv'
  BY TypeStep, EventsStep, PublishedStep, ListsStep, ClashesStep, TargetsStep,
     MemberStep, ExitStep, LoopbackStep, CurrentStep
  DEF IInv
<1> QED
  BY <1>1, InitInv, PTL DEF Spec

(* Every variable of SSDP discovery keeps its type. *)
THEOREM TypeCorrect == Spec => []TypeOK
<1>1. IInv => TypeOK
  BY DEF IInv
<1> QED
  BY <1>1, Invariance, PTL

(* Whenever the callback is at rest, replies name the address on which the *)
(* socket of the multicast loop is in the group.                           *)
THEOREM AdvertisesWhereItListens == Spec => []AdvertisedIsJoined
<1>1. IInv => AdvertisedIsJoined
  BY DEF IInv, AdvertisedIsJoined, Published, Clashes, Targets, MemberIsTarget,
         Quiet, Looping, Joined, Targeted
<1> QED
  BY <1>1, Invariance, PTL

(* Once the changes of address have been handled, replies name an address  *)
(* the device has, if it has any.                                          *)
THEOREM AdvertisesHeldAddress == Spec => []AddressHeld
<1>1. IInv => AddressHeld
  BY DEF IInv, TypeOK, AddressHeld, Published, Current, Quiet, Pending, HeldAddrs,
         NoneHeld, Joined
<1> QED
  BY <1>1, Invariance, PTL

(* addNewIpToMulticast and handle_mcast end the process only for the two   *)
(* stated reasons.                                                         *)
THEOREM ExitsExplained == Spec => []ExitExplained
<1>1. IInv => ExitExplained
  BY DEF IInv
<1> QED
  BY <1>1, Invariance, PTL
=============================================================================
