# NetTraverse in TLA+

NetTraverse joins Ethernet segments through a server: a client reads frames from
a tap device, seals them with AES and sends them by UDP; the server opens them,
learns which station lives behind which peer, and forwards them. Everything runs
on one thread, in coroutines that an epoll loop wakes up.

This directory holds TLA+ modules of the parts that carry this logic, TLC
configurations that check them on small instances, and TLAPS proofs of the
properties that matter most for instances of every size. Paths below are
relative to `src/`.

## 1. The system

| Component | State | Operations | Module |
|---|---|---|---|
| coroutine library, `coroutine/src/coroutine.{h,cpp}`, `scheduler.hpp`, `asm/swapper.s` | `current`, the ready queue, saved contexts, private stacks, a pool of shared stacks with `used_by` and `stack_copy_` | `co_create(_shared)`, `co_post`, `co_resched`, `co_yield`, `co_exit`, `co_destroy`, `co_dispath` | `Scheduler`, `Coroutine`, `PrivateStacks` |
| event loop and asynchronous calls, `network/epoll/epoll.hpp`, `network/socket.hpp` | per descriptor `event_`, `waited_`, `waited_mask_`, the slots `co_read`, `co_write`, `co_wait` | `poll_forever`, `trigger`, `async_read*`, `async_write*`, `async_wait`, `async_read_from`, `async_send_to` | `EventLoop`, `BlockingCalls` |
| learning bridge, `bridge/ether_bridge.hpp` | `mac_table::table_`: station, time last heard, handler | `forward`, `update`, `query`, `clean_up`, broadcast | `EtherBridge` |
| bridge programs, `bridge/ether_bridge_{client,server}.cpp` | two coroutines, `read_tap` and `read_udp` | read, seal, send; receive, open, forward | `EtherTunnel` (data), `EventLoop` (control) |
| AES and `byte_buffer`, `crypto/AES.cpp`, `lib/bytebuffer.hpp` | sizes and room of buffers | `AES_encrypt`, `AES_decrypt`, `resize` | `CipherBuffer` |
| `tcp_socket` and `add_event`, `network/socket.hpp`, `epoll.hpp` | descriptor numbers, `handle_map`, connections | constructors, move, destructor, `accept`, `connect` | `Sockets` |
| SOCKS5 proxy, `bridge/ether_bridge_server.cpp:71-224` | how far each connection is | `socks5_server`, `socks5_handler`, piping | `Socks5` |
| UDP bridge, `bridge/udp_bridge.{hpp,cpp}` | `peer_map_`: peer, time last heard | `foward` | `UdpBridge`; the repository has no caller |
| timer, tuntap, configuration, compression, protocol stubs, old stack manager, tests | little or none | | not modelled (section 7) |

How they interact:

* A worker coroutine calls `async_read`; when the kernel says EAGAIN, the call
  puts the coroutine in a slot of its descriptor and calls `co_yield`.
* The first coroutine, `Main`, runs `poll_forever`: while anybody is ready it
  calls `co_resched`; else it calls `epoll_wait`, and `trigger` posts
  (`co_post`) the coroutines in the slots of each descriptor with an event.
* `forward` of the bridge calls handlers that write, so it may be suspended in
  the middle of a broadcast while the other coroutine changes the same table.
* The SOCKS5 proxy runs in the server program, on the same thread and the same
  loop as the bridge. The connections it accepts are not in the epoll instance and
  block: while one is read, no coroutine runs.

What is hard here: stacks that several coroutines share and that are copied at
every switch; edge-triggered events that are reported once; slots and flags
that a reader and a writer of one descriptor share; an iterator, a reference or a map
entry held across a suspension; descriptor numbers that are reused under handlers
that are never removed; blocking calls among coroutines; datagrams that are lost, repeated, reordered and cut; exceptions
nobody catches. `PROJECT.json` lists each hazard at its line with the
properties that cover it, or the reason why none does.

## 2. Modules

Composition: `Scheduler` (the ready queue and `current`) is extended by
`Coroutine`, `PrivateStacks` and `EventLoop`. `Coroutine` instantiates its
abstraction `PrivateStacks`, `EventLoop` its abstraction `BlockingCalls`.
`EtherTunnel` extends `CipherBuffer`. `Socks5` extends `Scheduler` and `Sockets`,
so that the loop, the coroutines and the kernel's descriptors move together. The layers are joined by what each
promises the next: `Coroutine` is checked for callers that post only suspended
coroutines, and `EventLoop` is shown to be such a caller (`PostedOnce`);
`EtherBridge` and `EtherTunnel` use calls that may suspend or lose data, which
is what `BlockingCalls` allows.

**Coroutine.** One action per function of `coroutine.h`, plus `Run` for the code
of a coroutine that calls and returns. Frames on a stack are one value, `[of,
frame]`: whose they are and what is in them; a saved context is the value its
RSP belongs to. Copying with an RSP that belongs to other frames gives garbage
(`NoFrames`). `cpu` is the coroutine whose code really executes; it differs from
`current` exactly when the wrong context was loaded. `co_swap_in` is translated
with the order of its assignments; `co_exit` and `co_destroy` share what the
destructor does. Objects are addresses and may be created again after deletion.
`co_post` requires its argument to be suspended and the ordinary specification
destroys only what is suspended: these are the uses the repository makes.
`SpecDispath` and `SpecDestroy` add the two uses that the header offers and that
go wrong.

**PrivateStacks.** The promise: every coroutine has frames of its own, changed
only while it runs; control goes round robin.

**EventLoop.** `poll_forever` is three actions: `resched`, `epoll_wait`, and
`trigger` for one event of the batch. Main is not interrupted by workers between
two events of a batch, but devices act at any time. Each asynchronous call is an
action for one system call and what follows it up to the next one (`async_read`,
`async_write`, `async_wait`, `read_zero`), and `resumed` is the code after its
`co_yield` (`read_resumes`, `write_resumes`, `wait_resumes`). The kernel is a list of
descriptors with a new edge, and counts of units that can be read and written.
`epoll_wait` returns the first entries of the list; `epoll_drop` takes out those among
them that have nothing to report, so that a batch is short only when the list is.
On the server the coroutines call `add_event` themselves, on the client `client` does;
`Init` has the descriptors listed in either case, because every coroutine has run before
the first `epoll_wait`, and nothing reads the list earlier. `event_` is never cleared, as in the code,
and an event always reports both directions, because the code tests
`events | EPOLLIN`, which is never zero. `Cleared` distinguishes `udp_socket`,
which leaves its slots as they are after a wake-up.

**BlockingCalls.** The promise: each call behaves as a blocking call of a thread
of its own; no queue, no slots, no edges. What a worker does next is `Following`: after a
read a write or the next round, and in a coroutine of `Broadcasters`, which may send a
frame to several stations, another write after a write, whether that one failed or not.
The number of writes is left open (a table has any number of entries).

**EtherBridge.** A step of a worker goes from one handler call to the next.
`forward` is `clean_up`, `update`, then a unicast or the start of a broadcast;
`broadcast_returns` is `++it` and the next call. An entry erased while another
coroutine's iterator is at it makes that iterator dangle; using it leads to the
state `undefined`, from which nothing is claimed. `addr` is the variable that the
handlers of `read_udp` refer to: zero while `read_udp` waits, the peer of the frame
in hand otherwise. `sent`, `stayed`, `began` and the field `peer` of a record are
history for the properties.

**CipherBuffer, EtherTunnel.** Bytes are counted. A buffer knows its size, its
room, and how many of its bytes are those of its frame (`valid`). `MayDecrypt`
and `MayThrow` are not exclusive: a cut datagram of whole blocks usually fails
the padding check and may by chance pass it. What was sent stays on the wire,
which is loss, repetition and reordering at once. `read_fails` and `receive_fails`
are the error paths of the loops: abort for a tap, another try for the client's
socket, and for the server's a buffer of `(size_t)-1` bytes that `xor_mess` runs
through until the process dies. A frame from the server's tap may be sent to clients and,
when the bridge has learnt its address behind the tap, be written back to it. `written`
holds only the buffer last written, since the properties speak of each when it is written.

**Sockets.** Numbers (`file`), what each `tcp_socket` holds (`handle_`), and
`handle_map`. `accept` is modelled with all its objects: the local `tcp_socket`
takes a second number and registers it, the accepted number is put over it, and
moving and destroying leave the second one open for ever. `connect` never waits
and always returns -1. The kernel gives out the lowest free number.

**Socks5.** A step goes from one system call that may wait to the next. A unit is
what one read returns. A read or write of the accepted connection has no step for
waiting: when it cannot go on, no action of the process is enabled, which is what
a blocked thread is. The action of the failing calls follows the code literally:
a failed read leaves the handler with what was in its buffer, so it may wait for
more, answer, return, or dereference a null address; -1 in a `size_t` passes for
data. `ended` says how the process ends. `trigger_gone` is the event of a leaked
number, whose handler is bound to an object of `accept` that is gone: nothing or
anything may happen.

**UdpBridge.** A call of `foward` is one step up to its send and one from there to
its return. A new peer's time is one of two extremes, since its memory is not
initialised. A send that refers to an erased peer, and `find` that returns `end()`,
lead to `undefined`.

`*Proofs` and `EventLoopWakeups` hold the proofs, `MC*` the instances. Operators
called a mistaken variant are plausible errors of the code. No specification
uses them; they show, put in the place of the definition below them, that the
property named for them in `PROJECT.json` can fail.

## 3. What is checked

| Run | Instance | States | What it shows |
|---|---|---|---|
| `coroutines` | three shared coroutines on one stack, one private, two frame contents | 82 thousand | ready queue and frames stay intact; `ImplementsPrivateStacks`; nobody is overtaken or starved |
| `client_loop` | the client: tap and UDP, two workers, `MAX_EVENTS = 1`, writes that fail | 41 thousand | the contract of `co_post`, whoever sleeps can be posted, `TrafficIsServed` |
| `stream_loop` | two streams moved in pieces, one may end, one reader uses `async_wait` first, writes that fail | 155 thousand | no lost wake-up, blocking-call behaviour, `KeepsProcessorOnlyAtEof` |
| `server_sharing` | the server: both workers write to both descriptors and broadcast to both, `MAX_EVENTS = 2` | 284 thousand | how a slot is lost, that its owner then sleeps for good, and that nobody else loses a wake-up |
| `learning_bridge` | three stations, timeout 1, clock up to 4 | 682 thousand | broadcasts reach everybody who stayed, once; unicasts are fresh; when an iterator can be lost |
| `tunnel` | two clients, frames of 1471, 1472 and 1514 bytes, failing calls | 2.7 million | frames arrive whole, buffers suffice, who can be ended by what |
| `socks5` | two clients, six numbers, one unit per buffer | 169 thousand | numbers and events reach their owners, who are posted once and lose no wake-up; what stops the thread |
| `udp_bridge` | two callers, three peers, timeout 1, clock up to 4 | 1.4 million | who was heard is known; one caller is safe |
| `dispath`, `destroy_queued`, `server_loop`, `reply_address` | as above, `reply_address` with two peers | | violations, section 6 |

The properties, each with the code behaviour it is about, are stated beside their
definitions. The ones that need several actors to break:

* `StackIntact`, `SingleHome`: a suspended coroutine is resumed on its own frames,
  whatever others did on the shared stack meanwhile.
* `TurnsComeInOrder`: each switch brings every ready coroutine one place nearer to
  the processor, whoever is posted, ends or is destroyed meanwhile. It is the safety
  part of `ReadyEventuallyRuns`: place i runs after i switches.
* `NoLostWakeup`: data that arrives between EAGAIN and `co_yield`, or while a
  batch is being handled, still leads to a wake-up.
* `PostedOnce`: stale slots and late events never post a coroutine that runs or
  is queued already; `epoll_wait` only when nobody is ready is what ensures it.
  `Socks5` states both for the proxy, where the reader and the writer of a remote host
  share its number; there `NoLostWakeup` is the safety part of `ClientsAreAccepted`
  and `RelayGoesOn`.
* `StrandedBySharing`, `StrandedForGood`, `NamedAreWoken`: what sharing a slot costs.
  A worker loses its slot only while another one is inside the same call on the same
  descriptor; no later event, handler or call then helps it; and whoever the slot
  still names has an edge pending as soon as its call can go on.
* `BroadcastReachesAll`, `BroadcastOnce`: the table may change under the iterator.
* `DanglesOnlyAcrossTicks`: the iterator of a broadcast is lost only when its
  handler is suspended across a second, since `clean_up` uses the same clock.
* `DeliversWhole`, `EndedByLongFramesOnly`: over two hops that cut datagrams.
* `EventReachesOwner`: `add_event` would keep an old handler for a reused number and
  nobody calls `del_event`; it is safe only because every number that is ever closed
  is one that epoll does not know.
* `LoopWaitsOnlyBehindUploads`: what a remote host sends is carried only while its
  client's own data waits for room. A client that waits for an answer before it
  sends more stops the thread, bridge included.
* `LoopRunsUnlessStalled`: the complete list of what keeps the loop from running:
  a blocking call for one client, the end of a stream, the end of the process.
* `ClientsAreAccepted`, `RelayGoesOn`: one edge for a queue of connections, one edge
  for a reader and a writer.
* `HeardPeersStay`, `UndefinedOnlyIfSwept`: the peer map under calls that overlap.

### Bounds, and why they are enough

* Coroutines: three users of one stack give every order of evicting, ending and
  re-creating the previous, the present and the next user. Two frame contents tell
  a stale copy from a fresh one. Pools of more stacks only add the round robin of
  `co_alloc_shared_stack`; the proofs cover every pool and every set of coroutines.
* `MAX_EVENTS = 1` with two descriptors makes batches shorter than the list, as
  10 does with eleven; `stream_loop` and `server_sharing` use 2, so that a batch
  holds several. The second way to lose a slot (section 6, item 3) needs that: both
  writers must be posted before either resumes.
* `Cap = 2` units: a buffer may be empty, full or in between. A message on a
  stream is 2 units, so it can be read and written in parts.
* The server's two descriptors and two workers give all uses of a slot.
* Stations: three are the least with one before, at and after an iterator. The
  clock's bound allows an entry to time out during a broadcast and to be learnt
  anew; `timeout` is 1 instead of 600 since only differences matter.
* Proxy: two connections are the least of which one is blocked or closed while the
  other is accepted, relayed or reuses its number. Two connections that are open at
  once need seven numbers (the listener, and three for each): six makes the process
  run out in some orders and reuse closed numbers in others. One unit per buffer
  makes every buffer empty or full.
* UDP bridge: with two callers one sweeps while the other is suspended; three peers
  are the sender, the receiver and a bystander.
* Frames: 1471 bytes is the longest that passes, 1472 the shortest that is cut in
  the last block, 1514 a full frame of a tap. The proofs cover every length.

`SYMMETRY` permutes the clients of `tunnel`, which has no liveness property. `tunnel`
and `socks5` switch deadlock checking off: hosts end for good,
and the proxy may end or block, after which nothing has to happen.

### Fairness, and why the code justifies it

* `Coroutine!FairSpec`: weak fairness of `Switch`. Scheduling is cooperative, so
  this is an assumption about the coroutines, not a gift of the library: none
  computes forever without calling a switching function.
* `EventLoop!FairSpec`: weak fairness of `Process` (the operating system runs
  the process) and of `epoll_drop` (the kernel goes through its list). Nothing
  is assumed of devices, and nothing of single workers: who runs is the doing of
  the queue.

* `Socks5!FairSpec`: weak fairness of `Process`, for the same reason; none of the
  peers. A coroutine that reads at the end of a stream, or waits in a blocking call,
  has no step, and the properties name those states (`Stalled`) instead of assuming
  that peers end them.

A source that never runs dry keeps its worker running for ever, as the fast path
of a call does not reschedule. `TrafficIsServed` and `KeepsProcessorOnlyAtEof`
are therefore about the time after the last arrival, as are the liveness
properties of `Socks5` (`Quiet`). Both are checked with `Broadcasters = {}`: the model
does not bound how many writes a broadcast makes.

## 4. What is proved

For every value of the constants that the named assumptions of the modules admit.

| Module | Theorems |
|---|---|
| `CoroutineProofs` | `TypeCorrect`, `ReadyQueueIsSound`, `StacksStayIntact`, `FramesHaveOneHome`, `NeverAborts`, `NobodyIsOvertaken`, `SharingIsInvisible` (refinement) |
| `EventLoopProofs` | `TypeCorrect`, `PostsOnlySuspended`, `SomebodyIsReady` |
| `EventLoopWakeups` | `NamedWakeupsArePending`, `SlotsAreLostBySharing`, `TheStrandedSleepForGood`, `CallsBehaveAsBlocking` (refinement), always; `ReadersAreNamed` if no two workers read one descriptor (`OneReader`); `SleepersAreNamed`, `WakeupsArePending` if no two workers make the same call on one (`OneUserPerSlot`) |
| `EtherBridgeProofs` | `TypeCorrect`, `NoStationIsMissed`, `NoStationIsServedTwice`, `OldPlacesAreForgotten`, `NothingDanglesWithinASecond` |
| `EtherTunnelProofs` | `TypeCorrect`, `FramesArriveWhole`, `BuffersAreLargeEnough`, `ShortFramesEndNobody` |
| `Socks5Proofs` | `TypeCorrect`, `NumbersAreOwned`, `EventsReachTheirOwner`, `NumbersLeak`, `EdgesPostOnce`, `EdgesAreNotLost`, `HandlersNeverWaitInTheLoop`, `SomebodyIsReady` |
| `UdpBridgeProofs` | `TypeCorrect`, `HeardPeersAreKnown`, `OneCallerIsSafe` |

`SchedulerProofs` has the lemmas on queues that the coroutines, the event loop and the
proxy share. `OneReader` and `OneUserPerSlot` are about which worker uses which
descriptor: the client satisfies both, the server only `OneReader`.

* **Coroutines.** The inductive invariant `IInv` is the conjunction of all five
  checked invariants; none is inductive alone. Frames survive a switch only
  because each has one home; homes are sound only because what is ready exists;
  and somebody is ready because Main is. `SwitchFacts` does the switch once, and
  `co_resched`, `co_yield` and `co_exit` use it. The refinement maps a coroutine
  to its frames wherever they are kept; `AsSaved` says that between saving and
  loading every coroutine, the caller too, is just as its context says.
  `NobodyIsOvertaken` needs the invariant too: only because registers and `current`
  agree is the coroutine that leaves the queue the one that runs.
* **Event loop.** `BaseInv` adds two facts to type and `PostedOnce`: a raised flag
  comes with a slot that names a coroutine inside that very call
  (`SlotsNameWaiters`), and who is ready during a batch was posted for a
  descriptor the batch is done with (`BatchInOrder`). `WakeInv` builds on it: what
  `async_wait` does not know of is still listed (`EdgePending`), and whoever sleeps
  with its name in the slot is woken. Each step is proved to satisfy three facts about
  sleepers, whoever shares what: nobody gives a sleeper its name back and only a worker
  inside the same call takes it away (`KeepsNames`); only the named are posted
  (`KeepsAsleep`); who falls asleep is named and waits for what has still to be
  reported (`FallsAsleep`). The action properties are read off them. `HomeInv`
  says that calls are made only on the descriptors a worker was given, and that a
  sleeper without a name has a partner that was given the same; without such partners
  `YieldedCanBePosted` and `NoLostWakeup` follow.
* **Bridge.** `LoopInv` says where each broadcast stands: it has called what
  stayed up to its iterator, and nothing beyond. It survives the other coroutine
  because the map is ordered by address. For `DanglesOnlyAcrossTicks`, the entry at
  which a broadcast stands was active when the broadcast began.
* **Tunnel.** `CipherFits` bounds the padding, and `CutIsNoticed` shows that a
  datagram of a short frame is never cut. `WireInv` describes every datagram as
  the seal of a frame that was read, and `WrittenInv` every buffer written.
* **Proxy.** `NumbersInv` says which object holds which number and that a
  registered number is never closed; `accept` and `connect` take the lowest free
  number, which is therefore one that `handle_map` does not know. `LoopInv`, on top of
  it, relates the queue, the epoll instance and the connections. Each object that is
  open has one number. Each coroutine that is not ready waits for its own object in the
  call that raised its flag, and if that call can go on, the object's number is listed
  or in the batch. While a batch is handled nobody ready uses a number the batch still
  holds (`BatchInv`), because the queue was empty when it began; so no edge posts
  anybody twice. The backlog holds connections once, none of them served (`BacklogInv`),
  without which one `accept` could start a second handler of a connection.
* **UDP bridge.** `HeardIsNoted` ties the history to the map: a heard peer has just
  that time, or was silent since. `CallsGoOn` says that a suspended call whose map
  was not swept still has its peer.

## 5. What is only model-checked

Liveness (`ReadyEventuallyRuns`, `TrafficIsServed`, `KeepsProcessorOnlyAtEof`,
`ClientsAreAccepted`, `RelayGoesOn`, `LoopRunsUnlessStalled`) is beyond the prover: it
needs ENABLED under fairness. Its safety core is proved where there is one: nobody
ready is overtaken (`NobodyIsOvertaken`), somebody is ready (`NeverAborts`,
`SomebodyIsReady`), and a sleeper that can go on has an event pending
(`NamedWakeupsArePending`, `WakeupsArePending`, `EdgesAreNotLost`). Every invariant and
every action property of the passing runs is proved. No recursive operator and no induction
over data occurs in the modules.

## 6. What the work showed about the code

Violations that a run exhibits:

1. `co_dispath` (`coroutine/src/coroutine.cpp:90`) changes `current` before it
   saves the context. The header promises to run the coroutine immediately; it
   overwrites that coroutine's context with the caller's instead (`dispath`).
2. `co_destroy` (`coroutine.cpp:44`) leaves a posted coroutine in the ready queue;
   the line that removed it is commented out (`destroy_queued`).
3. On the server both coroutines write to the same descriptors, which have one
   `co_write` slot: when both wait, the first can never be posted again
   (`server_loop`; `network/epoll/epoll.hpp:241`, `network/socket.hpp:140`). The other
   way round happens too: a writer that resumes lowers the flag and clears the slot of
   one that yielded after it was posted (lines 242-243). Who lost its slot sleeps for
   good, and with it its direction of the bridge. Only writers are concerned: readers
   of the same descriptors keep their slots (`ReadersAreNamed`).
4. The handler in `ether_bridge_server.cpp:62` captures the peer address by
   reference, a variable of one turn of a loop. A frame from the tap to a client is
   sent to a zeroed address, and one between clients back to its sender
   (`reply_address`).

Facts that checked properties state as the code has them:

5. A frame of 1472 bytes or more becomes a datagram of more than 1500, which the
   receiver cuts; `AES_decrypt` throws, nobody catches, and the receiving program
   ends (`EndedByLongFramesOnly`).
6. At the end of a stream `read` returns 0 and the loop neither returns nor
   yields: the whole process spins (`KeepsProcessorOnlyAtEof`, `Spinning` in
   `Socks5`).
7. `read_udp` of the server goes on after a failed `recvfrom` (line 54), which ends
   the process; the client's does not (`NoOverrun`, `EndedByLongFramesOnly`).
8. `accept` makes the wrong descriptor non-blocking and leaks it
   (`socket.hpp:250`, `AcceptLeaks`). A client that sends nothing stops the proxy and
   the bridge (`Blocking`, `LoopWaitsOnlyBehindUploads`).
9. `connect` always returns -1 (`socket.hpp:258`); the proxy works because it does
   not look at the result.
10. `foward` of the UDP bridge is safe with one caller and not with two
    (`UndefinedOnlyIfSwept`).

## 7. What is left out, and why

* `Coroutine`: sizes of stacks, registers one by one, overflow of a stack, and the
  arguments of a coroutine function. Nothing the library decides depends on them.
* `EventLoop`: descriptors that come and go are in `Sockets`; signals. A read that fails with
  another error than EAGAIN either is called again by `read_udp`, which changes
  nothing, or ends the program.
* `EtherBridge`: the handler is the worker that registered it. `time(NULL)` is read
  twice in `forward`, here once. That `update` replaces a handler that is suspended
  is not told apart.
* `Socks5`: what the bytes of a request say is a choice; host names are resolved in
  zero time, though `getaddrinfo` blocks. The bridge's own coroutines are not among
  the coroutines here: `EventLoop` shows how they use the loop, and
  `LoopRunsUnlessStalled` when there is one. No more than ten numbers have events at
  once. `bind` and `listen` have succeeded. A blocked thread waits for ever unless
  its client acts.
* `UdpBridge`: what messages say beyond their type and the peer they name; `ping_` is
  never set. The write into a message through a cast of a const buffer is left out.
* `del_event`, `clear_event`, `poll_one` and `udp_socket::connect` have no caller.
* `EtherTunnel`: datagrams of strangers or of other keys.
  The cipher itself is assumed to invert what it sealed; `operator[]` and `fill`
  of `byte_buffer` are not used on this path.
* `timer`: one `async_read` of eight bytes from a timerfd, a stream of `EventLoop`;
  nobody creates one.
* `async_wait` has no caller in the repository; it is modelled as one that waits
  for reading, because the library offers it.
* tuntap set-up, YAML configuration and `main` are sequential calls of the
  operating system; compression is a call of zlib; the protocol directory holds
  stubs and an experiment; `stack_mgt.c` and `ctx_switch.s` are superseded.

## 8. Plan

Done: every component whose state the programs depend on. What could follow:

1. The bridge's two coroutines in `Socks5`, so that a write of the bridge and a
   blocked client meet in one specification.
2. `Socks5` with a repaired `accept`, whose connections are registered: numbers that
   epoll knows would then be closed, and `EventReachesOwner` would need `del_event`.
