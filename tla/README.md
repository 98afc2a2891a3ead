# A TLA+ model of the Amlogic DIAL server

This directory specifies the DIAL server in `src/`: a program for a TV box that lets a phone
launch, query, hide and stop applications over HTTP (the DIAL protocol), announces itself over
SSDP, and passes the commands on to the framework that runs the applications (Thunder, or an application manager).

## 1. The system

| component | source | state | operations |
|---|---|---|---|
| web server thread pool | `mongoose.c` 747-1003 | `struct mg_context`: `stop_flag`, the ring `queue` with `sq_head` and `sq_tail`, `num_threads`, a mutex and three condition variables | `mg_start`, `mg_stop`, `master_thread` (accept, `produce_socket`), `worker_thread` (`consume_socket`, serve) |
| HTTP reading and parsing | `mongoose.c` 115-770 | a worker's `struct mg_connection`: the buffer, which outlives connections, and its counters | `read_request`, `get_request_len`, `mg_read`, the discarding of what a handler left, close |
| DIAL REST server | `dial_server.c` | the list of applications (`DIALApp`) and `ds->mux` | register, unregister, `request_handler` and the five handlers |
| CORS matching | `dial_server.c` 520-703 | none | `host_matches`, `origin_matches`, `is_uri_in_list` |
| application callbacks | `main.c`, `nf_callbacks.c`, `amazon_callbacks.c`, `system_callbacks.c` | the global `curAppForDial` | start, status, hide, stop per application |
| DIAL data persistence | `dial_data.c` | one file per application | `store_dial_data`, `retrieve_dial_data` |
| text functions | `url_lib.c` | none | URL and XML coding, query parsing |
| SSDP discovery | `quick_ssdp.c` | the multicast socket, `ip_addr`, `mreq`, `ssdp_running` | `run_ssdp`, the multicast loop, `addNewIpToMulticast` |
| Thunder backend | `thunder_api.cpp` | links to the framework, `_passivemode` | activate, deactivate, hide, resume, status, each a chain of remote calls |
| application manager backend | `appman.cpp` | a link to the application manager's bus, `_passivemode` | the same, chosen at build time |
| program start | `main.c`, the configuration files | the list `appInfoList` | reading configuration, registration, signals |

**How they interact.** `main` reads the configuration, registers one application per entry, and
calls `DIAL_start`, which starts one web server; `run_ssdp` starts a second one for the device
description and then runs the multicast loop in the main thread. Every request is accepted by a
master thread, queued, and taken by one of four workers, which parses it and calls
`request_handler`. The handler checks the origin in one critical section of `ds->mux`, and in
another finds the application, reads the body, calls the application's callbacks and replies. A
callback sets `curAppForDial` and makes remote calls to the framework. DIAL data is kept in
memory and in a file. When `ssdp_running` is cleared by a signal, `DIAL_stop` calls `mg_stop`.

**What is hard.** Five threads share a ring buffer and three condition variables, and a stop is
signalled by a flag that is written without the mutex. Four workers handle requests at once, with a critical
section that spans socket reads and remote calls, two critical sections per request, many early
returns that each must release the mutex, and one global that all callbacks overwrite. Applications
can be registered and unregistered while requests for them are in progress. Address changes arrive in
another thread than the one that uses the addresses. What a client sends arrives in segments that are cut anywhere, may stop at any
byte, and is read in part by a handler and in part by the server. A launch is a chain of remote calls that can fail
or time out one by one, and take effect late, on a device that its user operates meanwhile. `PROJECT.json` lists the hazards line by line.

**What makes each component correct.**

- Pool: no connection lost, repeated or served twice; bounded queue; nobody sleeps while there is
  work; the context is freed only when nobody uses it; a stop ends.
- REST server: every path releases the mutex; every request is answered while the process is up; a callback reaches the
  application of its own request; a command is carried out on a fresh status, only for allowed
  origins; what is recorded about an application is true.
- Connections: however bytes arrive, a header ends where its client ended it, the body reaches the handler that
  reads it, exactly one reply that fits is sent, and the connection is closed.
- Routing and origins: a URI reaches the application and the operation it names, and an origin is let in
  if and only if the application's list covers it.
- Application control: a command that went smoothly leaves the device as asked, what is reported is true, and nothing
  happens unasked.
- Persistence: what is read back is what was stored, or what was there before.
- Discovery: replies carry the current address; a change of address at any time is survived; a
  signal ends the loop.
- Text functions: what is shown of DIAL data fits its room and has no half entities.

## 2. The modules

`ConnectionService` is the abstract specification of the pool: a first-in first-out queue of bounded
length in front of servers, which stops. It has no threads.

`WorkerPool` is `mongoose.c`'s pool. Its variables are the fields of `mg_context` and a place per
thread; its actions are the critical sections of the code.

| code | actions |
|---|---|
| `mg_start` (loop at 997) | `SpawnWorker`, `SpawnFails`, `CountWorker`, `StartReturns` |
| `mg_stop` | `StopCall`, `StopReturns` |
| `master_thread` | `MasterLoop`, `Accept`, `AcceptTimeout`, `Broadcast`, `JoinWait`, `JoinDone` |
| `produce_socket` | `ProduceWait`, `Produce` |
| `consume_socket` | `ConsumeIdle`, `CondWait`, `ConsumeStop`, `Consume` (`Take`, `Advance`) |
| `worker_thread` | `Serve`, `WorkerExit` |
| `pthread_cond_wait` | `SpuriousWorker`, `SpuriousMaster` |

A critical section is one step, with one exception that matters: in `consume_socket` the test of
`stop_flag` and the wait that follows are two steps, since `mg_stop` and the broadcast take no
mutex. A connection stands for a socket; what happens inside `process_new_connection` is one step here.

`HttpConnection` is that step in detail: one worker and the connections it serves one after another. Its
variables are the fields of `mg_connection` and the locals of `mg_read`.

| code | actions |
|---|---|
| `worker_thread`, `reset_per_request_attributes` | `Accept`, `AcceptBroken` (`Reset`) |
| `read_request`, `get_request_len` | `ReadHeader`, `ReadHeaderEnds` |
| `process_new_connection`: the verdict | `TooLarge`, `Nothing`, `Refuse`, `Parse` (`Terminate`) |
| `handle_request` and its callback | `Callback`, `CallbackDeclines`, `Reply` |
| `mg_read` | `MgRead` (what is buffered), `Pull`, `PullEnds` (the socket) |
| `discard_current_request_from_buffer` | `Discard`, `Discarded` |
| `close_connection`, `close_socket_gracefully` | `Drain`, `Close` |

A byte is known by its kind (printable, newline, carriage return, control), its connection and its place, so that a byte
of another connection, or one delivered twice, is not mistaken for the right one. One `recv` returns any number of the bytes that are asked for and not yet
received, or nothing: the end, a reset, or the receive timeout. `Drain` is the loop of `close_socket_gracefully`: it takes some of what has arrived, any number of
times, or nothing, which ends it. The text a client sends is finite, so that this loop ends here; in the code a client that never stops sending keeps the worker in it.

`UrlText` and `Cors` are the functions on texts: decoding and cleaning of the URI, `url_lib.c`, and the
comparison of origins. A text is a sequence of characters, a character a string of length one. A loop of the code over a text is a `Loop`: what it writes at
each place, and the place where it goes on. Both modules also say what texts mean without the code's loops: `SpellsUri` and `SpellsData` (which places of an
encoded text stand for which character), `Meant` (a text in XML), and `Covers` (an origin and a candidate by scheme, first label, domain and port;
`Written` is how they are written).

`RestRequest` composes these three: the connections of `HttpConnection` with `request_handler` as the callback. `Route` finds form and
application of a URI, `Outcome` what is done with a request, and `Room` how much of the body the handler reads. Every request carries, beside what is
sent, what its client meant: form and application, an origin by its parts, a value, and the places where the characters of one text begin in the other; the properties
compare the two. `Names`, `SaysOrigin` and `SpellsData` say that what was sent is a spelling of what was meant; `MeaningsAssumption` in `MCRestRequest`
has TLC check that they hold of the run's requests, but for those whose URI has no form of the protocol. `Schemes` are the schemes in use, none a prefix of another, `https://` one of them.

`DialService` is the abstract specification of the REST server: a request arrives, its origin is admitted or refused, and it is then carried out and
answered in one step. It has no mutex, no callbacks and no `curAppForDial`; what a body says, and what the device reports and achieves, is open.

`DialServer` is the rest of `dial_server.c`, with the callbacks as far as they touch shared state. Each thread has a place in its handler:

| code | places and actions |
|---|---|
| `request_handler`, `is_allowed_origin` | `Receive`, `Check` |
| `ds_lock`, `find_app` in each handler | `Enter` |
| `mg_read` and the tests of the body | `ReadStart`, `StoreData`, `StoreFails` |
| `status_cb` | `QueryMatch` (`matchAppInfo`), `QueryRpc` (the remote call, and what the status decides) |
| `start_cb`, `stop_cb`, `hide_cb` | `CmdMatch`, `CmdRpc` |
| the rest of the handler | `SettleStart`, `SettleStop`, `SettleHide` |
| `DIAL_register_app`, `DIAL_unregister_app` | `Register`, `Unregister` |

A body is usable text (one of two), unprintable or too long; a list of DIAL data is what `parse_params` makes of a text, or whatever the file held when the application was
registered (`Lists`): how it is written and read back is `DialData`. `corsAllowedOrigin` is an argument of `Register`, as it is of `DIAL_register_app`, so that an application can come
back with another list; it is modelled by the origins it matches (`cors`), or `NoList` for one that is refused. `StoreFails` is the `exit(1)` of `store_dial_data`: it
ends the process (`up`) in the middle of that request and of all others. `launched` and `dropped` are history variables: the payload of the last successful launch since
registration, and the requests whose application was unregistered between the check of their origin and the handler.

`AppControl` is what a callback does between `CmdMatch` and its return: the callbacks of `main.c`, `nf_callbacks.c` and
`amazon_callbacks.c`, over `thunder_api.cpp` or `appman.cpp`, in active or passive mode.

| code | actions |
|---|---|
| a callback begins: the url or query | `Start`, `Other` (`youtube_url`, `netflix_query`) |
| `activateApp`, `getAppStatus`, `resumeApp` of Thunder | `GetPowerState`, `SetPowerState`, `GetStatus`, `Resume`, `ResumeFocus`, `SystemCommand`, `ConfigItem`, `Activate`, `DeepLink`, `SetFocus` |
| `hideApp`, `deActivateApp` of Thunder | `Suspend`, `Deactivate` |
| passive mode | `BroadcastEvent` |
| the same of the application manager | `GetAppState`, `ResumeApp`, `LaunchApp`, `SetDeepLink`, `AppManFocus`, `HideApp`, `KillApp` |
| a callback returns | `Return` |
| the framework and the user | `Late`, `User` |

A remote call is one action: answered, refused, or lost. A lost call fails for its caller after a timeout; it never happens, or
happens later (`Late`), even after the callback has returned. What the services do with a call (`Possible`, `Effect`) is not in the repository and modelled from how
the code uses them: activating starts an application with its configuration, launching resumes it, and so on. A text is known by its
length, its length when encoded, and where the one piece ends that the code looks for in it.

`Ssdp` is `quick_ssdp.c` with the subscription in `listenIpChange` and the signal handler. `pc` says where
the main thread and the framework's thread are; the other variables are the globals the two share.

| code | actions |
|---|---|
| `listenIpChange`, `setDialProperty` | `Subscribe`, `SetDialProperty` |
| `get_local_address`, in both threads | `GetLocalAddress`, `CopyBegins`, `CopyEnds` |
| `handle_mcast` | `Prepare`, `Join`, `Publish`, `Test`, `Receive` |
| `changeMulticast`, `addNewIpToMulticast` | `Deliver`, `LookedUp`, `Drop`, `Retarget`, `Rejoin` |
| `signalHandler`, the device, clients | `Signal`, `Change`, `Datagram` |

`strncpy` into `ip_addr` is two steps, between which the other thread can read or write: what it leaves is the old
text, the new one or a mixture. `Joinable` is what the kernel accepts as a multicast interface.

`DialData` is `store_dial_data` step by step (`Open`, `OpenFails`, `PrintLine`, `Close`), what
`retrieve_dial_data` reads back (`Register`), and the ends of a process: `Kill`, which loses the stream's
buffer, and `Exit`, which flushes it. A key is a sequence of words, since `fscanf` reads words; what is printed of a key or value of more than 255 characters is
`Cut` as a whole, which can shorten it by a part of a word or by whole words (`Truncated`). One handler is enough, because `ds->mux` covers storing and registering.

`MCRestRequest`, `MCAppControl`, `MCDialServer` and `MCDialData` give the constants for TLC. The modules whose names end in `_proofs` hold the theorems.

Operators commented as a mutant or mutation are wrong variants of a definition, each with a plausible mistake; no
action uses them. Each property is known to fail when the one listed for it in `PROJECT.json` takes the definition's
place, so that none holds by the shape of the model.

## 3. The runs

| run | instance | what it shows |
|---|---|---|
| `WorkerPool` | 3 workers, ring of 2, 5 connections, spurious wakeups, `FairSpec`; 49,452 states | type, ring, thread count, wakeups, freeing of the context; refinement of `ConnectionService`; queued connections are served; a stop ends but for two named outcomes |
| `StopMissedBroadcast` | 2 workers, 1 connection | **fails**: a worker misses the broadcast, `mg_stop` blocks for ever |
| `RestRequest` | 2 connections, a buffer of 5 bytes, 109 framings, 119 contents, `RestFairSpec`; 277,203 states | framing, bodies, replies and closing; routing; origins; what is shown of DIAL data |
| `MalformedHandled` | the same | **fails**: a header with a control character is handled if the blank line behind it is in the same segment |
| `DeepSubdomain` | the same | **fails**: an origin two labels below a wildcard is refused |
| `DataDropped` | the same | **fails**: DIAL data that grows to more than twice its length when encoded loses characters |
| `DialServer` | 2 threads, 2 requests, 2 applications, 2 origins, 2 lists; 983,255 states | the six invariants of the REST server; refinement of `DialService`; every request is answered while the process is up |
| `RegisterWithoutCors` | the same, 1 request, registrations with and without a list | **fails**: `DIAL_register_app` returns with the mutex locked |
| `AppControl` | each application, backend and mode; 2 callbacks, 1 user action, 1 late call; 3,057,784 states | what commands achieve and report, what never happens unasked, how long the lock is held |
| `Ssdp` | 2 interfaces, 3 addresses, 3 changes, `FairSpec`; 305,812 states | the advertised address is the joined one, and one the device has; when a change ends the process; what a signal achieves |
| `DialData` | 4 keys, 2 values, 2 requests of up to 2 pairs; 212,778 states | the file holds the old pairs or a first part of the new ones; acknowledged pairs survive restarts |
| `DialDataSpaces` | the same | **fails**: a key with a space comes back as two pairs |

The failing runs state what a header or a comment says of the code; `PROJECT.json` quotes it under
"findings". `StopEndsOrSleeps` says how far `StopMissedBroadcast` goes: a stop does not end if a worker misses the broadcast, or if the master waits for room in a full
queue that no worker empties any more, and in no other case.

Each of the three failing runs of `RestRequest` belongs to a property that holds. `AnsweredOnce` says which replies fit what was sent, whichever way a header with a control character is
judged; `OriginAsListed` says that a wildcard covers one label exactly; `ShownWhole` says that what is shown fits its room, and is complete if it is shorter than
that. Those are what the code does; the failing runs are what its comments say.

**Bounds.** A ring of two slots and five connections make the queue full, the master wait, and the
pointers wrap (the tail exceeds the array after three sockets), with a queue that is not empty at that moment. Three
workers allow one to serve, one to be between test and wait and one to sleep. Two threads are
enough for the REST server's interleavings, because all shared state is behind one mutex and a
second thread can be at any place outside it; two requests let each thread have one, or one thread two in a
row. The two lists match the origin of the run or do not, so that a request can be admitted by one and meet the other. An empty Origin header comes with
launches alone, whose handler is the only one that looks at the origin again, and the system application is started, stopped and asked for its status alone (`MCArrivals`). The proofs show that the safety properties do not depend on these bounds.

In `RestRequest` a buffer of five bytes is filled by a header without an end, holds a whole header with a part of a body, and is left with
bytes of the first connection that the second could mistake for its own. Lengths of 0, 2 and 4 are below, within and above what is buffered and what the two handlers
read (1 and 3 stand for `DIAL_DATA_MAX_PAYLOAD` and the room for a launch), and rooms of one byte and two make reading and discarding
take several calls. The contents are: a URI of each form, spelled plainly, with escapes, with repeated slashes, and with names that
look like keywords; thirteen origins against the lists of `main.c`, one with ports, an empty one and an application that is not there; DIAL data
that needs decoding, entities, or more room than there is. `NameMax` is as long as the longest name.

In `AppControl` two callbacks allow any pair, such as a hide whose late effect meets a launch. The payloads are: none, one
that fits, one that is cut behind the piece the code looks for, and the longest, which is cut before it. The lengths of url and address are those of the configuration. The
number of remote calls of a callback does not depend on the bounds.

In `Ssdp`, three changes allow one during start-up, one while the callback handles it, and one after; three addresses
let two interfaces hold two and change to a third, or back. `WlanFirst` is the order in which the kernel lists interfaces
and in which both are copied; the proofs cover the other one too. In `DialData`, the keys are a plain one, one that is cut to a word, one with a space, and one that
is cut at its space; two pairs are what it takes for words to shift from one pair
into the next, and two requests to mix old and new contents.

**Deadlock** is not checked: clients stop connecting (the bounds on connections, requests and callbacks are the
only ones on behaviours), and a server that has been stopped, or a process that has exited, does nothing.

**Fairness.** `WorkerPool`'s is weak fairness of each thread, that is, of the scheduler; accepting a
connection, calling `mg_stop` and spurious wakeups are not fair. `HttpConnection` and `RestRequest` have weak fairness of the worker: its
`recv` returns in the end, with bytes or without, because accepted sockets inherit the receive timeout that `set_ports_option` sets. `DialServer`'s is weak fairness of each
handler: `mg_read` returns after at most `DIAL_MAX_PAYLOAD` bytes, and each of its reads after the same timeout, so that a client that sends byte by byte holds the mutex for
long but not for ever; remote calls are bounded by the timeouts in `thunder_api.cpp`, and `WaitBounded` by how many of them one callback makes. How long a request can take is
not claimed. A process that has exited answers nothing, which `RequestsAnswered` excepts. `MaxRequests` bounds how often a thread can be overtaken at the
mutex, which is what makes weak fairness of `Enter` enough; a mutex without any fairness could starve a
handler under unbounded load. `Ssdp`'s is weak fairness of each thread but for the subscription, which may fail for ever;
changes of address, datagrams and signals are not fair. That is why `StopsUnlessSilent` excepts a main
thread that stays in `recvfrom`: the loop tests `ssdp_running` only between datagrams, so that a signal
handled by another thread, or by the main thread just before `recvfrom`, is not noticed until a client sends something.

**Seen on the way**, without a run of its own:

- When a wired address appears during start-up, the main thread can copy the wireless
  address it looked up before over the one the callback has copied, and the program then advertises the wireless
  one until the next change. `AddressHeld` says what remains true.
- The signal handler's comment on SIGTERM (`main.c:79`, "just ignore this, we don't want to die") does not describe it: `ssdp_running` is cleared for every signal.
- `mongoose.c:694`, "Now we know that our FIN is ACK-ed", is not established: the socket is non-blocking there, and `recv` fails at once when nothing is pending.
- The other way in which `mg_stop` can hang: a master that waits for room at `mongoose.c:871` when the flag is set is woken by nobody, since workers that see the flag leave at 783 without
  signalling `sq_empty`. `StopEndsOrSleeps` names it (`NobodyMakesRoom`).
- Sockets that are in the queue at a stop, or in the hand of the master, are freed with the context and never closed, both when workers leave on the flag and when no worker could be created.
- A payload of exactly `DIAL_MAX_PAYLOAD` bytes passes the test at `dial_server.c:181` and is recorded at 225 without a terminator, where `dial_server.h:179` promises one.
- An application that is unregistered and registered with another list between the check of a request's origin and its handler is commanded although the new list refuses that origin.
  `CommandsAuthorised` excepts these requests, and `DialService` judges a request once, when it is admitted.
- `activateApp` reports every launch as running, whatever its calls returned, and `hideApp` of the application manager every hide as done. `LastCommandHolds` is therefore restricted to callbacks all of whose calls were answered. With the
  application manager the payload of a Netflix launch is not delivered at all (`appman.cpp:105`, an empty branch).
- A url for YouTube of more than 511 bytes is cut; with it `&inApp=true`, the end of the payload, and perhaps the text that decides whether it is passed as configuration.

## 4. The proofs

All theorems are for any finite set of workers, any size of the ring and any connections; any
threads, applications, origins, lists and number of requests; any buffer sizes, requests and lists; any payloads, and any number of callbacks, user actions and lost
calls; any addresses and number of changes. The assumptions are the ASSUMEs of the modules.

`WorkerPool_proofs` proves `TypeOK`, `QueueBounded`, `ThreadCountExact`, `QuietAtReturn`,
`MasterSleepsWithReason` and `WorkNotSleptOn`. The inductive invariant adds `Phases` (how
`stop_flag`, the caller's place and the master's fit together: the flag is 2 exactly when the master
is done), `Holds` (who has a connection in hand) and `ParkedEmpty` (a worker between its test and its
wait holds the mutex, so that the queue is still empty). The last is what makes one signal per
connection enough: no socket can be put between the test and the wait. `SlotBelow` and `SlotAbove` say
which index `i % QSize` is; `WorkersCounted` bounds the threads.

The refinement builds on it. `WorkerPool_proofs` shows that the window of the ring, read as a sequence (`Pending`), is appended to by
`Produce` and loses its head by `Consume`, also when `Consume` pulls both pointers back
(`ProduceAppends`, `ConsumeTakesHead`; the arithmetic is in `SlotsDiffer`), and that no other step touches it
(`StepKinds`). With `IdleHasNone` (a worker that serves nothing has no connection) this gives `OnePlace`, and from
`OnePlace` each step maps to a step of `ConnectionService` or a stutter (`ServiceStep`): `Produce` to `Admit`, `Consume` to `Dispatch`, `Serve` to
`Complete`, `StopCall` to `RequestStop`, `JoinDone` to `Halt`. The theorem is `Spec => ServiceRefined`.

`HttpConnection_proofs` proves the five safety properties of connections. The inductive invariant says: the buffer holds, from its first
byte on, what the current client has sent (`Collected`); what get_request_len answered is about those bytes (`Judgement`); the three lengths, the part received and what `mg_read`
still wants add up, wherever the worker is (`Position`); what the callback got is the body so far (`Delivered`). The pivot is `HeaderLength`: that get_request_len, asked after any segment, answers with the first blank
line if it is there. It is asked again and again on growing buffers, and the invariant keeps that there was none in the shorter ones.

`Induction_proofs` is what stands in for the induction and recursion theorems of the library, whose parameters are operators, which the provers do not instantiate: the
same as statements about sets and functions. `SmallestMember` is the well-foundedness of the natural numbers, `UpTo` and `DownFrom` are induction over an interval for a
set, and `ForwardRecursion` and `BackwardRecursion` say that a recursive function over an interval exists, for values in any set and steps that are given as functions.

`RestRequest_proofs` shows that every step of the composition is a step of `HttpConnection`, since `request_handler` reads its body with one of the sizes that `HttpConnection` allows a
callback (`RoomIsLimit`); its five properties follow. The three properties about texts need nothing of the steps but that the request is one of `Requests`; they are
about what the functions compute, for texts of every length:

- `DataShown` (`ShownWhole`). A `Loop` that comes to the places where the characters of a text begin, and writes these characters, writes that text (`LoopReads`); so
  urldecode undoes `SpellsData` (`DataDecoded`). xmlencode keeps its text in its room and well-formed with every character (`EncodedClean`), and leaves out nothing if all of it fits (`XmlWhole`).
- `UriRouted` (`RoutedAsWritten`). `LoopReads` again gives that url_decode undoes the escapes (`UriDecoded`) and that cleaning undoes repeated slashes, and does nothing else because the path
  has no dots after a slash (`PathCleaned`). The path is then `/apps/`, the name and the suffix (`Built`), and for each form the tests that `Route` makes before its own fail, whatever the name, "run" and
  "hide" included (`RoutedRun` to `RoutedData`).
- `OriginChecked` (`OriginAsListed`). A text with separators splits in one way (`OneSplit`). The candidates of a written list are what was written
  (`ListedCandidates`, by induction over the list), a scheme is found because none is a prefix of another (`SchemeFound`), strrchr finds the port and strchr the end of the first label (`ColonPlace`, `DotPlace`),
  and with these the two comparisons of the code are `Covers` (`HostsMatch`, `OriginsMatch`).

`DialServer_proofs` proves the six invariants. The inductive invariant adds `OpAtStep` (a place
is reached only by the operations that have it), `Authorised` (the list of the application's registration matches the origin from the check on, unless the application was
unregistered since: `dropped`), `BodyRead` and `PayloadInv` (a payload
differs from the last launch only while the handler of that launch has still to record it).

The refinement (`Spec => RequestsAtomic`) maps a request to itself and says that it is admitted from the check of its origin on (`RequestsAtomic` in `DialServer`). A handler's steps before its
reply are invisible (`Invisible`), and the one that replies is the step of the service (`ReplyEnds`, `ServiceStep`): `Check` is `Judge`; `Enter` is `Forbid` or `Miss` or invisible; `ReadStart`,
`StoreData`, `QueryRpc` and the three `Settle` steps are `RejectBody`, `Launch`, `SetData` or `Command`. That the application is still registered then is `DecisionIsFresh`, that the request may
be carried out on it (an origin for YouTube, no stop of the system application) is `Authorised`, and that what is recorded of a launch is a body is `BodyRead`. A refused registration is invisible: it changes only who holds the mutex. `StoreFails` is `Exit`.

`AppControl_proofs` proves all five properties. The invariants say, for each place of the chain, what the calls before it have achieved if all were answered and nothing else changed the
device; `OnlyAsAsked` follows from what each place allows, and `WaitBounded` from the number of calls that can precede it. `NetflixQueryFits` shows that the array
of `nf_callbacks.c` is large enough for every payload the server admits, so that its two error returns are never taken.

`Ssdp_proofs` proves the four invariants of `Ssdp`. The two threads write `ip_addr` and `mreq` without a lock, so the argument
is about places: a callback that found an address cannot come to rest before the socket is
published (`Published`), because dropping a membership of descriptor -1 ends the process; so while the callback is at
rest (`Quiet`) only the main thread has written, no copy has been disturbed (`Clashes`), and `mreq` is `ip_addr` (`Targets`)
and the membership (`MemberIsTarget`). `Current` and `LoopbackMeansNone` carry what a look-up or a successful join says about the
device until the next change.

`DialData_proofs` proves that pairs without spaces in their keys survive (`PlainPairsSurvive`), for keys, values and requests of any size and any
number of requests. Everything is stated index by index, which takes the place of an induction over the list: while the list is printed, the
words in the buffer are those of its first n pairs (`Printed`), and one line makes it n + 1 (`HoldsMore`); when the stream is closed nothing is left to print, so
the file holds them all (`Acknowledged`), and keeps them through every `Kill` and `Exit` that does not interrupt a request. `PlainBack` is the
reading: two words make a pair again, in the opposite order, and a word that was truncated once is not truncated again.
`FileNeverMixed` is that the file holds what it held before the latest request or whole lines of it (`FileIsOldOrPart`): what has been printed is the concatenation of the lines
so far, which the community modules define by a fold, unfolded with `Induction_proofs`.

**Only model-checked.** Liveness (`QueuedIsServed`, `StopEndsOrSleeps`, `RequestsAnswered`, `ConnectionClosed`, `StopsUnlessSilent`), since the prover handles neither
ENABLED nor fairness. Every safety property of the runs is proved.

## 5. Not modelled, and the plan

Assumed: memory allocation, locking and signalling succeed; the compiler and hardware give volatile
integers atomic reads and writes. `num_threads++` in `mg_start` is a data race in principle, but no
worker can decrement before `mg_stop` is called, after `mg_start` returned.

- `parse_http_request` and the headers: a request carries whether its header parses, its version, its Content-Length, its method, URI and
  Origin. Splitting a line into these is pure text handling.
- The wording of replies, the XML of the device description and of a status reply but for the coding of DIAL data, a status reply that
  fills its array, and sends that fail.
- URIs that do not have a form of the protocol but end like one: `Route` says where they go, no property does.
- In `Ssdp`, notifications are handled one at a time and system calls succeed, except the two whose failure the
  code's design depends on; the web server for the device description is not stopped by anybody and not modelled.
- Reading the two configuration files, the device's properties and the hardware address: pure input at start. `friendly_name`, rewritten by a notification.
- The system callbacks, which `main.c` builds but does not register, `parse_param`, which only they use, and `smartstrncpy`.

The pool, the connections, the REST server and the application callbacks are modelled one by one and meet at named places (`Serve` of the pool is a behaviour of `HttpConnection` from `Accept` to
`Close`; a handler of `RestRequest` is one of `DialServer`; `CmdMatch` to `CmdRpc` of `DialServer` is a callback of `AppControl`). What would come
next is one specification in which they run together, with the stop of the whole program, and `DialData` as a refinement of the one-step store of `DialServer`.
