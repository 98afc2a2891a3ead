-------------------------------- MODULE Ssdp --------------------------------
(***************************************************************************)
(* SSDP discovery, src/quick_ssdp.c, from the subscription in              *)
(* listenIpChange (src/thunder_api.cpp) to the end of the multicast loop.  *)
(* Two threads of the process share ip_addr, mreq and the socket without   *)
(* a lock: the main thread, which starts discovery and then answers        *)
(* searches, and the framework's thread, which runs addNewIpToMulticast    *)
(* when told that an address has changed.                                  *)
(*                                                                         *)
(* strncpy into ip_addr is two steps; what the other thread can read in    *)
(* between is the old address, the new one or a mixture.  The kernel       *)
(* accepts a membership only on an address the device has, and drops only  *)
(* the membership the socket has.  Other system calls succeed, and one     *)
(* notification is handled at a time.                                      *)
(***************************************************************************)
EXTENDS Naturals, Sequences

CONSTANTS
  Addrs,       \* addresses an interface can be given
  NoAddr,      \* no address, no membership
  Loopback,    \* "127.0.0.1"
  Mixed,       \* text made of two addresses, which is no address
  WlanFirst,   \* the kernel lists the wireless interface first
  MaxChanges   \* bound: changes of address in one behaviour

ASSUME AddrsAssumption ==
  /\ {NoAddr, Loopback, Mixed} \cap Addrs = {}
  /\ NoAddr # Loopback /\ NoAddr # Mixed /\ Loopback # Mixed
ASSUME OrderAssumption == WlanFirst \in BOOLEAN
ASSUME ChangesAssumption == MaxChanges \in Nat

Ifaces == {"eth", "wlan"}

(* The main thread, and the framework's, which calls addNewIpToMulticast. *)
Threads == {"main", "event"}
Other(t) == IF t = "main" THEN "event" ELSE "main"

VARIABLES
  net,           \* the address of each interface
  changes,       \* how often one has changed
  events,        \* notifications the framework has still to deliver
  subscribed,    \* the program is subscribed to them
  named,         \* eth_interface and wifi_interface are set
  ssdp_running,
  ip_addr,
  mreq,          \* mreq.imr_interface
  member,        \* the address on which the socket is in the group
  fd,            \* whether ssdp_socket_fd is the socket
  inbox,         \* a datagram is waiting in the socket
  pc,            \* where each thread is
  found,         \* addresses get_local_address has still to copy, per thread
  matched,       \* it found an interface, per thread
  clash,         \* both threads have been copying at the same time
  alive          \* the process has not called exit(1)

vars == <<net, changes, events, subscribed, named, ssdp_running, ip_addr, mreq,
          member, fd, inbox, pc, found, matched, clash, alive>>

world == <<net, changes, inbox>>
settings == <<subscribed, named, ssdp_running>>
group == <<mreq, member, fd>>
lookup == <<ip_addr, found, matched, clash>>

Init ==
  /\ net \in [Ifaces -> Addrs \cup {NoAddr}]
  /\ net["eth"] = net["wlan"] => net["eth"] = NoAddr
  /\ changes = 0 /\ events = 0
  /\ subscribed = FALSE /\ named = FALSE
  /\ ssdp_running = TRUE
  /\ ip_addr = Loopback
  /\ mreq = NoAddr /\ member = NoAddr /\ fd = FALSE
  /\ inbox = FALSE
  /\ pc = [t \in Threads |-> IF t = "main" THEN "subscribe" ELSE "idle"]
  /\ found = [t \in Threads |-> <<>>]
  /\ matched = [t \in Threads |-> FALSE]
  /\ clash = FALSE
  /\ alive = TRUE

Goto(t, place) == pc' = [pc EXCEPT ![t] = place]

(* The kernel lets the socket join the group on this address. *)
Joinable(a) == a = Loopback \/ a \in {net[i] : i \in Ifaces} \ {NoAddr}

-----------------------------------------------------------------------------
(* The device, the clients and the operator.                               *)

Change(i, a) ==
  /\ alive /\ changes < MaxChanges
  /\ a # net[i] /\ a \notin {net[j] : j \in Ifaces} \ {NoAddr}
  /\ net' = [net EXCEPT ![i] = a]
  /\ changes' = changes + 1
  /\ events' = IF subscribed THEN events + 1 ELSE events
  /\ UNCHANGED <<settings, group, lookup, inbox, alive, pc>>

Datagram ==
  /\ alive /\ pc.main \in {"test", "recv"}
  /\ inbox' = TRUE
  /\ UNCHANGED <<net, changes, events, settings, group, lookup, alive, pc>>

(* signalHandler.  Any thread may run it; in the main thread it interrupts *)
(* recvfrom.                                                               *)
Signal ==
  /\ alive
  /\ ssdp_running' = FALSE
  /\ UNCHANGED pc \/ (pc.main = "recv" /\ Goto("main", "test"))
  /\ UNCHANGED <<world, events, subscribed, named, group, lookup, alive>>

-----------------------------------------------------------------------------
(* get_local_address, in either thread.                                    *)

(* The interfaces it copies the address of: it stops at the wired one.     *)
ListedWired ==                                       \* mutant of Listed
  IF named /\ net["eth"] # NoAddr THEN <<net["eth"]>> ELSE <<>>

Listed ==
  LET present(i) == IF named /\ net[i] # NoAddr THEN <<net[i]>> ELSE <<>>
  IN  IF WlanFirst THEN present("wlan") \o present("eth")
      ELSE IF present("eth") # <<>> THEN present("eth") ELSE present("wlan")

GetLocalAddress(t) ==
  /\ alive /\ pc[t] = "lookup"
  /\ found' = [found EXCEPT ![t] = Listed]
  /\ matched' = [matched EXCEPT ![t] = Listed # <<>>]
  /\ Goto(t, "copy")
  /\ UNCHANGED <<world, events, settings, group, ip_addr, clash, alive>>

CopyBegins(t) ==
  /\ alive /\ pc[t] = "copy" /\ found[t] # <<>>
  /\ ip_addr' \in {ip_addr, Head(found[t]), Mixed}
  /\ clash' = (clash \/ pc[Other(t)] = "copying")
  /\ Goto(t, "copying")
  /\ UNCHANGED <<world, events, settings, group, found, matched, alive>>

CopyEnds(t) ==
  /\ alive /\ pc[t] = "copying"
  /\ ip_addr' \in {Head(found[t])} \cup (IF clash THEN {Mixed} ELSE {})
  /\ found' = [found EXCEPT ![t] = Tail(found[t])]
  /\ clash' = (pc[Other(t)] = "copying")
  /\ Goto(t, "copy")
  /\ UNCHANGED <<world, events, settings, group, matched, alive>>

LookUp(t) == GetLocalAddress(t) \/ CopyBegins(t) \/ CopyEnds(t)

-----------------------------------------------------------------------------
(* The main thread: listenIpChange, setDialProperty, run_ssdp and          *)
(* handle_mcast.                                                           *)

(* Subscribing is tried until it succeeds or a signal ends the loop. *)
Subscribe ==
  /\ alive /\ pc.main = "subscribe"
  /\ Goto("main", "properties")
  /\ subscribed' \in (IF ssdp_running THEN {TRUE} ELSE {TRUE, FALSE})
  /\ UNCHANGED <<world, events, named, ssdp_running, group, lookup, alive>>

SetDialProperty ==
  /\ alive /\ pc.main = "properties"
  /\ named' = TRUE
  /\ Goto("main", "lookup")
  /\ UNCHANGED <<world, events, subscribed, ssdp_running, group, lookup, alive>>

(* handle_mcast fills mreq in ... *)
Prepare ==
  /\ alive /\ pc.main = "copy" /\ found.main = <<>>
  /\ mreq' = ip_addr
  /\ Goto("main", "join")
  /\ UNCHANGED <<world, events, settings, member, fd, lookup, alive>>

(* ... joins the group, or exits ... *)
Join ==
  /\ alive /\ pc.main = "join"
  /\ IF Joinable(mreq)
     THEN member' = mreq /\ Goto("main", "publish") /\ UNCHANGED alive
     ELSE alive' = FALSE /\ UNCHANGED <<member, pc>>
  /\ UNCHANGED <<world, events, settings, mreq, fd, lookup>>

(* ... and only now lets the callback know the socket. *)
Publish ==
  /\ alive /\ pc.main = "publish"
  /\ fd' = TRUE
  /\ Goto("main", "test")
  /\ UNCHANGED <<world, events, settings, mreq, member, lookup, alive>>

TestIgnored ==                                       \* mutant of Test
  /\ alive /\ pc.main = "test"
  /\ Goto("main", "recv")
  /\ UNCHANGED <<world, events, settings, group, lookup, alive>>

Test ==
  /\ alive /\ pc.main = "test"
  /\ Goto("main", IF ssdp_running THEN "recv" ELSE "left")
  /\ UNCHANGED <<world, events, settings, group, lookup, alive>>

(* The datagram is dropped or, if it is a search, answered. *)
Receive ==
  /\ alive /\ pc.main = "recv" /\ inbox
  /\ inbox' = FALSE
  /\ Goto("main", "test")
  /\ UNCHANGED <<net, changes, events, settings, group, lookup, alive>>

-----------------------------------------------------------------------------
(* The framework's thread: addNewIpToMulticast.                            *)

DeliverAgain ==                                      \* mutant of Deliver
  /\ alive /\ pc.event = "idle" /\ subscribed
  /\ events' \in {events - 1, events}
  /\ Goto("event", "lookup")
  /\ UNCHANGED <<world, settings, group, lookup, alive>>

Deliver ==
  /\ alive /\ pc.event = "idle" /\ events > 0
  /\ events' = events - 1
  /\ Goto("event", "lookup")
  /\ UNCHANGED <<world, settings, group, lookup, alive>>

(* Without an interface there is nothing to do. *)
LookedUp ==
  /\ alive /\ pc.event = "copy" /\ found.event = <<>>
  /\ Goto("event", IF matched.event THEN "drop" ELSE "idle")
  /\ UNCHANGED <<world, events, settings, group, lookup, alive>>

DropNew ==                                           \* mutant of Drop
  /\ alive /\ pc.event = "drop"
  /\ IF fd /\ member = ip_addr
     THEN member' = NoAddr /\ Goto("event", "retarget") /\ UNCHANGED alive
     ELSE alive' = FALSE /\ UNCHANGED <<member, pc>>
  /\ UNCHANGED <<world, events, settings, mreq, fd, lookup>>

Drop ==
  /\ alive /\ pc.event = "drop"
  /\ IF fd /\ member = mreq
     THEN member' = NoAddr /\ Goto("event", "retarget") /\ UNCHANGED alive
     ELSE alive' = FALSE /\ UNCHANGED <<member, pc>>
  /\ UNCHANGED <<world, events, settings, mreq, fd, lookup>>

RetargetForgotten ==                                 \* mutant of Retarget
  /\ alive /\ pc.event = "retarget"
  /\ Goto("event", "rejoin")
  /\ UNCHANGED <<world, events, settings, mreq, member, fd, lookup, alive>>

Retarget ==
  /\ alive /\ pc.event = "retarget"
  /\ mreq' = ip_addr
  /\ Goto("event", "rejoin")
  /\ UNCHANGED <<world, events, settings, member, fd, lookup, alive>>

Rejoin ==
  /\ alive /\ pc.event = "rejoin"
  /\ IF Joinable(mreq)
     THEN member' = mreq /\ Goto("event", "idle") /\ UNCHANGED alive
     ELSE alive' = FALSE /\ UNCHANGED <<member, pc>>
  /\ UNCHANGED <<world, events, settings, mreq, fd, lookup>>

-----------------------------------------------------------------------------
World ==
  \/ \E i \in Ifaces, a \in Addrs \cup {NoAddr} : Change(i, a)
  \/ Datagram \/ Signal

MainStep ==
  \/ Subscribe \/ SetDialProperty \/ LookUp("main") \/ Prepare \/ Join \/ Publish
  \/ Test \/ Receive

EventStep == Deliver \/ LookUp("event") \/ LookedUp \/ Drop \/ Retarget \/ Rejoin

Next == World \/ MainStep \/ EventStep

Spec == Init /\ [][Next]_vars

(* Both threads are scheduled fairly.  Subscribing may fail for ever, and  *)
(* nothing obliges addresses to change, clients to search or an operator   *)
(* to send a signal.                                                       *)
Fairness ==
  /\ WF_vars((pc.main # "subscribe" \/ ~ssdp_running) /\ MainStep)
  /\ WF_vars(EventStep)

FairSpec == Spec /\ Fairness

-----------------------------------------------------------------------------
(* Properties.                                                             *)

Text == Addrs \cup {Loopback, Mixed}

MainPlaces == {"subscribe", "properties", "lookup", "copy", "copying", "join",
               "publish", "test", "recv", "left"}
EventPlaces == {"idle", "lookup", "copy", "copying", "drop", "retarget", "rejoin"}

(* Every variable keeps its type. *)
TypeOK ==
  /\ net \in [Ifaces -> Addrs \cup {NoAddr}]
  /\ changes \in 0..MaxChanges /\ events \in 0..MaxChanges
  /\ subscribed \in BOOLEAN /\ named \in BOOLEAN
  /\ ssdp_running \in BOOLEAN
  /\ ip_addr \in Text
  /\ mreq \in Text \cup {NoAddr}
  /\ member \in Text \cup {NoAddr}
  /\ fd \in BOOLEAN /\ inbox \in BOOLEAN
  /\ pc \in [Threads -> MainPlaces \cup EventPlaces]
  /\ pc.main \in MainPlaces /\ pc.event \in EventPlaces
  /\ found \in [Threads -> Seq(Addrs)]
  /\ matched \in [Threads -> BOOLEAN]
  /\ clash \in BOOLEAN
  /\ alive \in BOOLEAN

(* When no notification is being handled, the address that replies to      *)
(* searches name is the one on which the socket listens to the group, in   *)
(* spite of two threads that write both without a lock; in particular it   *)
(* is an address and no mixture.                                           *)
AdvertisedIsJoined ==
  fd /\ pc.event \in {"idle", "lookup"} => ip_addr = member /\ ip_addr # Mixed

(* Once all notifications have been handled, the advertised address is one *)
(* the device has, unless it has none at all.                              *)
AddressHeld ==
  alive /\ subscribed /\ fd /\ pc.event = "idle" /\ events = 0 =>
    \/ ip_addr \in {net[i] : i \in Ifaces}
    \/ \A i \in Ifaces : net[i] = NoAddr

(* An address change ends the process in two cases only: it came before    *)
(* handle_mcast had published its socket, or the address to join on is not *)
(* the device's (any more).  A membership the socket does not have is      *)
(* never dropped.                                                          *)
ExitExplained ==
  ~alive =>
    \/ pc.event = "drop" /\ ~fd
    \/ (pc.main = "join" \/ pc.event = "rejoin") /\ ~Joinable(mreq)

(* After a signal the multicast loop ends, unless the signal did not       *)
(* interrupt recvfrom and no client ever sends anything any more.          *)
StopsUnlessSilent ==
  ~ssdp_running ~> (pc.main = "left" \/ ~alive \/ [](pc.main = "recv"))
=============================================================================
