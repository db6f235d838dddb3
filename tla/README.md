# libcoevent in TLA+

libcoevent gives C++ programs blocking-looking UDP, TCP and DNS calls: every server session,
sub routine or client call runs in a libco coroutine, and a libevent loop resumes a coroutine
when the event it waits on becomes active. Everything runs in one thread. The peers, the kernel's
socket queues and the timers are the only concurrent parties; what makes the code hard is the
order in which callbacks, coroutines, deletions and datagrams meet.

This directory holds TLA+ modules of that code, TLC configurations that check them on small
instances, and TLAPS proofs about eight of them. Source paths are relative to the root of the repository.

- [1. The system](#1-the-system)
- [2. Modules and how they correspond to the code](#2-modules-and-how-they-correspond-to-the-code)
- [3. Runs](#3-runs)
- [4. Fairness](#4-fairness)
- [5. Proofs](#5-proofs)
- [6. Where code and documents disagree](#6-where-code-and-documents-disagree)
- [7. Not modelled, and what is assumed](#7-not-modelled-and-what-is-assumed)
- [8. Plan](#8-plan)

## 1. The system

| Component (source) | State | Operations | Interacts with |
|---|---|---|---|
| UDP session (`src/coevent_udp_session.cpp`) | coroutine, event, `*_libevent_what_storage`, private socket, `_data_buff`, `_data_offset`, `_data_len_to_read` | `init`, `recv`, `recv_in_timeval`, `sleep`, `reply`, `forward_incoming_data`, `_libevent_callback` | created and fed by the UDP server, deletes itself through the base, tells the server when it ends |
| UDP server (`src/coevent_udp_server.cpp`) | coroutine, event, socket, `_session_collection`, the sender of the last datagram | `init`, `init_session_mode`, `_session_mode_worker`, `recv`, `sleep`, `send`, `reply`, `quit_session_mode_server`, `notify_session_ends`, destructor | owns a map of sessions the base controls as well |
| TCP session (`src/coevent_tcp_session.cpp`) | coroutine, event, `_fd`, flags | `init`, `recv`, `sleep`, `disconnect`, `reply`, callback | created by the TCP server |
| TCP server (`src/coevent_tcp_server.cpp`) | listening event, `_sessions` by descriptor | `init_session_mode`, accept callback, `quit_session_mode_server`, `notify_session_ends`, destructor | as the UDP server, but with no coroutine |
| Base (`src/coevent_base.cpp`) | `_events_under_control` | `run`, `put_event_under_control`, `delete_event_under_control`, destructor | deletes what it controls |
| Event, Procedure (`src/coevent_event.cpp`, `src/coevent_procedure.cpp`) | `_client_chain` | `new_UDP_client`, `new_DNS_client`, `new_TCP_client`, `delete_client`, destructor | a procedure owns clients that the base controls |
| SubRoutine (`src/coevent_sub_routine.cpp`) | coroutine, timer event | `init`, `sleep`, callback | a procedure without a socket |
| UDP client (`src/coevent_udp_client.cpp`) | event, socket, `_owner_server` | `init`, `send`, `recv`, callback | its callback resumes the coroutine of its *owner* |
| DNS client (`src/coevent_dns_client.cpp`, `src/coevent_dns_client_addition.cpp`) | `_udp_client`, cache of results; for the process: the lists of default servers | `init`, `resolve`, `quick_resolve`, `dns_result`, `default_dns_server` | owns a UDP client, reads `/etc/resolv.conf` |
| TCP client (`src/coevent_tcp_client.cpp`) | event, socket, `_is_connected` | `init`, `connect_to_server`; `send`, `recv` are stubs | its callback resumes the coroutine of its owner |
| Data buffer (`src/cpp_class_data.cpp`) | `_data_len`, `_buff_size`, `_ensured_buff_size`, `_coefficient` | `append`, `copy`, `clear`, `expand`, `turncate`, `ensure_buff_capacity`, ... | the buffer of UDP sessions, DNS queries and the test servers |
| Error, tools (`src/coevent_error.cpp`, `src/coevent_itnl.cpp`, `src/cpp_tools.cpp`) | none | conversions, texts | |

How they talk: a coroutine calls `event_add` and `co_yield`; libevent calls the object's static
`_libevent_callback`; that stores the flags, calls `co_resume`, and goes on *after* the coroutine
has yielded again or ended, with an argument the coroutine may have freed meanwhile. The UDP server
forwards a datagram to its session in two steps: a datagram holding the length goes to the session's
private socket, which wakes the session, and the bytes are appended to the session's buffer.

What is hard, and what makes each component correct:

* **UDP session.** Two queues, lengths and bytes, kept in step only by arithmetic; flags of an
  earlier callback trusted by a later `recv`; a data event and a timer due in the same turn; a socket
  that silently drops a length. Correct: each successful `recv` returns one datagram, whole and in
  order; bytes are never skipped or repeated; a waiting worker is woken; an interrupted sleep means data.
* **UDP server.** Sessions end, are created again and are looked up while datagrams are queued; a quit
  meets a datagram. Correct: the map is exactly the live sessions; the datagrams of one peer stay in order
  across sessions; a quit takes effect; the server never stops draining its socket; no session survives it. A reply should go
  to the sender of the datagram it answers; on local sockets it need not (section 6).
* **Base, procedures, clients.** Three owners of the same object: the base's set, the procedure's chain,
  the DNS client; and a server deletes sessions the base controls. Correct: exactly one event can resume a suspended
  coroutine, no event of a deleted object is in the loop, nothing leaks. Nothing should be deleted twice or used after it
  is freed; the code has exceptions (section 6), and what can be shown is that it has no others.
* **TCP session.** Stale flags, end of stream, reset and timer race; `disconnect` closes a descriptor
  under a watched event. Correct: no byte lost, success without data only at the end, sleeps end.
* **TCP server.** Descriptor numbers are reused. Correct: the table leads from a number to the session
  that has it now; no descriptor leaks; the backlog is accepted; a quit takes effect.
* **DNS client.** Neither transaction ID nor sender of a reply is compared; replies are lost, late, repeated, reordered and
  compressed; results expire; `resolv.conf` is read again while it changes. Correct: what is cached of a name is what a
  server said of that name, success means an unexpired result, the deadline stays where it was however many useless
  datagrams come, a server of the client's own address family is found.
* **TCP client.** A connect that timed out lives on in the kernel. Correct: the client takes itself for connected only
  when the peer accepted this attempt, each wait ends, and trying again works in the end.
* **Data buffer.** Size computation with shifts, shrinking after eleven calls. No write should exceed the allocation;
  calls that meet a size computed wrong do (section 6), and the others must not.

`PROJECT.json` lists every hazard at its line with the properties that cover it, or why none does.

## 2. Modules and how they correspond to the code

Every module has its state as variables, one action per handler or call, and properties at the end.
Coroutines are cooperative: the actions from a `co_resume` to the next `co_yield` are only enabled for
the coroutine that runs, and the loop's actions only when none runs. An operator named `X_Slip` is the
definition `X` with a plausible mistake (a dropped guard, a missing reset, a swapped order); no
specification uses it. `PROJECT.json` pairs each with the property that must notice it.

**`DatagramChannel`** is what a session promises its worker: a FIFO of whole datagrams, a receiver that
is idle, receiving or closed, and a promise (weak fairness) that a waiting receiver with a datagram is
resumed. `broken` marks the point where a notification has been dropped, from which nothing is promised.

**`UdpSession`** is one session. `Forward(n)` and `ForwardFails(n)` are the two outcomes of
`forward_incoming_data`; a full socket (`Capacity`) swallows the length but not the bytes.
`EventReadable` and `TimerExpires` are libevent's, and the latter replaces an activation for reading,
as libevent does when it removes an event whose timer is due. `RecvAtOnce`, `RecvWaits`,
`CallbackEndsRecv` are the three parts of `recv_in_timeval`, with its recursion when `EV_READ` proves stale
folded into `RecvWaits`; `Sleep`/`CallbackEndsSleep` likewise. `TakeNext` and `TakeRemainder` are the
fetching code, the comparison of `len_limit` with the *previous* remainder included. Bytes are their
position in the stream, so the buffer is the range `base .. base + buffLen - 1`.
`base`, `sent`, `noted`, `got` and `failed` are history variables.
`Channel == INSTANCE DatagramChannel WITH ...` is the refinement mapping.

**`UdpServer`** is a server with its sessions seen as inboxes. In session mode `ServerForwards`,
`ServerCreates`, `ServerRefuses` and `ServerIgnores` are the branches of `_session_mode_worker` and `ServerQuits` is its
end; with a worker of the program's, `WorkerWaits`, `WorkerReceives`, `WorkerResumes` and `WorkerReturns` are its calls of
`recv` and `sleep` and its end. `EndServer` is the rest of the callback and `~UDPServer`; `SessionReturns` is
the end of a session's callback. `SwapBytes` is the `htons` of a port that is in network order already, and
decides which peers can have a session at the same time. `StoreSender` is what `recvfrom` does with the address length
the call before left: it stores that many bytes of the sender's address at most, over those of the last one, and sets the
length to the sender's own. `AddrLen` gives the lengths; a server in session mode has them equal (`Internet`), as
`init_session_mode` rejects local sockets. `control` is the base's set, `Gone`/`Delete` record double deletion. `MCUdpServer` gives it
three peers.

**`Lifetime`** is ownership: base, procedures, UDP and TCP clients, DNS clients with a UDP client inside, the server of the
sessions, and what is on the stack. `cb` is the object whose callback called `co_resume`, `running` the procedure that runs.
`BackInCallback` is the code after `co_resume`, which touches the argument again. `EndServer` and `DeleteServer` are the end of the
server's coroutine and `~UDPServer`, which deletes the sessions in its map without telling the base; `outlived` are addresses in the map
whose session is gone. Objects are addresses, so a pointer left in `control` or `outlived` may come to mean a new object of the
same kind. `Usage` says what workers permit themselves, to delete the client that resumed them and to return in a client's callback; the
passing run and the proofs permit both. `touched` and `doubled` are the objects the *last* step used or deleted although they were gone, so that
the model goes on after the first such step and the properties say which ones are possible. `untold` are addresses whose
object was deleted without the base being told, `sawn` says that the worker has deleted the client whose callback is on the stack.
`MCLifetime` adds the symmetry of sessions and of UDP clients.

**`TcpSession`** is one connection: `PeerSends`, `PeerCloses`, `PeerResets` against `recv`, `sleep`,
`disconnect`. `recv` waits a second time when `read` returns 0, as the code does.

**`TcpServer`** is the accepting callback and the table `_sessions`. Descriptors are the lowest free
number. `left` records numbers whose session has called `disconnect`, after which the code cannot find its
entry.

**`DataBuffer`** has the lengths and capacities of `cpptools::Data`, with `AppropriateSize` translated
including its shift beyond the width of an `int`, which the hardware takes modulo 32. Callers may make any call. `strained`
says of the last call that it met a size that is computed wrong: data beyond 64 KiB that were not ensured (`TooLong`), an
append that grows the buffer beyond what was ensured (`GrowsPlainly`), a copy onto data, whose length `copy` adds twice, and an ensured
capacity for a buffer that holds more than 4096 bytes. After a call that has run out of the allocation there is no next one.

**`DnsMessage`** is the format: `Request` is `_DNSQueryText`, `Parse` is `parse_from_udp_payload` with `ReadName`,
`ParseQuestion` and `ParseRecord`. A message is a sequence of cells (a label, the end of a name, a pointer, a number), so
that offsets, lengths and compression are what they are in the code while characters are not. `Write` is an external
server that compresses names; `Known` says what a client may know of a reply. A name at the very end of a message is
lost, because `_read_RR_name` returns whether data follow; `Known` states that exception.

**`DnsClient`** is `resolve_in_timeval` with `recv_in_timeval` of the UDP client inside. `ResolveAt` and `ResolveByDefault` are
its two ways to a server; `TryServer` is a turn of the loop over `default_dns_server`, which reads the file again each
time (`DefaultServer`), while another process may rewrite it (`EditFile`). `Send` includes the first `recv`; `Recv` has
the read that trusts an old `EV_READ` and the wait; `Received`, `ReceivedNothing` and `GoOn` are the loop's body.
`QuickResolve` is the second lookup of `quick_resolve`, before which time may pass. Time counts down in `Tick`: `left` is
the distance to `end_time`, a result's `ttl` the rest of its life. Replies are drawn from `Replies` for every name that was asked, up to
`Copies` per request, at any time. `MCDnsClient` gives the names and replies, and has TLC evaluate `ReadsBack`, that parsing
a reply gives what the server wrote, for these and for every reply with up to two records over four owners and targets.

**`TcpClient`** is `init`, `connect_in_timeval` and its callback over a model of `connect(2)` on Linux: `attempt` is
the socket layer, `tcp` the connection, `soError` what `getsockopt` reads and clears. `Connect` covers the results EINPROGRESS,
EALREADY, EISCONN, success of an attempt that was left, and its failure.

**`XProofs`** holds the theorems about the module `X`, for each of `UdpSession`, `UdpServer`, `Lifetime`, `TcpSession`,
`TcpServer`, `TcpClient`, `DataBuffer` and `DnsClient` (section 5).

## 3. Runs

| Run | Instance | Checks |
|---|---|---|
| `udp_session` | lengths and limits {1, 2}, two slots for notifications, four datagrams, one failing send; 44 908 states | framing, byte order, wake-ups, interrupted sleeps, and that `UdpSession` implements `DatagramChannel` including its fairness |
| `udp_server` | three peers, two on one source port; two session objects; three datagrams, each possibly empty; session mode or own worker; with and without `auto_free`; 230 786 states | map and sessions agree and no session outlives its server, order per peer, quit takes effect, socket drained |
| `lifetime` | two sessions, a sub routine, two UDP clients, a TCP client, a DNS client, a server that ends or is deleted; workers with both liberties; up to symmetry 823 782 states | one wake-up per suspended coroutine, ownership without leak, which objects are used after they are freed and which are deleted twice, and no others |
| `tcp_session` | limits {1, 2}, three bytes; 4 570 states | no byte lost, end of stream, interrupted sleeps, every wait ends |
| `tcp_server` | two descriptors, three session objects, four connections; 72 888 states | table and sessions agree and no session outlives its server, descriptors owned, quit takes effect, backlog accepted |
| `data_buffer` | lengths 1, 4096, 4097, 65536, 65537 up to 128 KiB; two appends between other calls; memory may be refused; 25 930 states | no call but those that meet a wrong size writes beyond the allocation, also when it shrinks |
| `dns_client` | two names, five replies, timeouts of 1 and 2 seconds or none, two copies of each reply, a socket for two datagrams, one empty datagram, five files; 262 081 states | the cache is true, success means found, the deadline is kept, the server is of the client's type, `resolve` ends |
| `tcp_client` | two calls of `init`, two resets, any number of connects; 12 120 states | connected means accepted, each wait ends, trying again succeeds |
| `udp_session_limit`, `udp_server_delete`, `lifetime_callback`, `tcp_server_disconnect` | smaller | one documented expectation each that the code does not meet (section 6) |

Why the bounds are enough:

* `UdpSession`: the cases of the arithmetic are a first, a middle and a last datagram of the buffer, a reset, and
  data appended after each. Four datagrams over a socket of two give all of them, with and without a
  dropped notification; two lengths and two limits give each comparison both outcomes. The proofs remove
  these bounds for safety.
* `UdpServer`: the code's decisions depend on whether a sender has a session and whether another session has its
  port. Two peers on one port and one on its own give every combination; three datagrams let a peer's session
  end and be made again with a datagram still queued. `MaxSend` bounds what arrives, nothing else. The addresses are all of
  one length, as on Internet sockets.
* `DnsClient`: two resolves are the least for a late reply to reach the wrong one, and two copies let a reply come before
  and after. A client resolves either twice at servers that are given or once by default: the choice of the server shares
  nothing with the rest but the address. The replies have an alias with its address in one message, records in all three
  sections, an error, TTLs of 0, 1 and 2, and a name at the end; the files have a server of the own type first, last, among others, and not at all.
  The second name is an alias of the first, so that a record of one reply speaks of the other.
* `TcpClient`: two calls of `init` give a socket with a past and its successor; two resets let a failure follow a failure. Attempts are not bounded.
* `Lifetime`: two UDP clients let one be inside a DNS client and one stand alone, or let two procedures own
  one each; two sessions and a routine give a wake-up of the wrong procedure somewhere to go, and the server a session
  to delete while it keeps the address of another that is gone. Histories are unbounded: objects are freed and made again without
  limit. Sessions are interchangeable, and so are UDP clients; no property is a liveness property, so symmetry is sound.
* `TcpServer`: with two numbers and four connections a number is reused twice; three session objects exceed the
  numbers, so that an entry of a disconnected session and its successor's exist together.
* `DataBuffer`: 4096 is the default capacity, 4097 the first length beyond it, 65536 the last for which the size
  computation gives enough, 65537 the first for which it does not unless more was ensured; eleven calls that shrink fit because
  clears are not bounded.
  `MaxAppend` bounds how far appends accumulate between other calls.

Deadlock is not checked: a program may stop, when its peers are silent and the bounds are used up, when a
worker has returned, or after the base is deleted. Where stopping would be a fault a liveness
property says so.

## 4. Fairness

libevent's loop polls every socket and runs every active callback in every turn, so:

* `UdpSession` assumes weak fairness of `EventReadable` and of `Callback`. A readable socket stays readable
  while the session is suspended, so weak fairness suffices. Nothing is assumed of timers, so no property relies
  on a timeout to get a worker out of a wait it should not be in.
* `TcpSession` also assumes it of `TimerExpires`, for sleeps (`SleepEnds`); the timer of a finite wait does run out.
* `UdpServer` and `TcpServer` assume strong fairness of the server's steps, as a session's worker running in
  between disables them again and again, and weak fairness of "a running worker waits or returns":
  a worker that loops without yielding stops the whole process and no property of the library survives it.
* `UdpServer`'s strong fairness includes its own worker's calls, which other coroutines interrupt in the same way.
* `DnsClient` assumes weak fairness of the coroutine (its steps between two yields are only divided so that the clock and
  other processes can come in between), of the loop, and of the clock. Nothing is assumed of servers and network, so
  `ResolveEnds` asks for a deadline or for a usable reply in the socket.
* `TcpClient` assumes weak fairness of the loop and of a peer that keeps accepting (the kernel repeats its SYN).
  `RetryConnects` is conditional on a program that calls connect again and again and a peer that accepts at last.
* Nothing else is assumed of peers, of the callers of quit, or of what workers choose to do.

## 5. Proofs

Every invariant and action property that a passing run checks is a theorem, for every value of the constants that the
assumptions of its module allow. Only the theorems of `DnsClientProofs` about the cache have a hypothesis of their own, stated in
them, which the instance of the run satisfies.

### UDP session

`UdpSessionProofs` proves, for every set of positive lengths and limits, every capacity of the socket and
every bound (`LensAssumption`, `LimitsAssumption`, `BoundsAssumption`):

| Theorem | Says |
|---|---|
| `TypeCorrect` | `Spec => []TypeOK`; the remainder never becomes negative |
| `EventMatches` | suspended exactly while the event is added or active |
| `Framing` | until a notification is dropped, `recv` returns the forwarded datagrams, whole, in order, once |
| `ByteOrder` | with or without drops, no byte is skipped or repeated |
| `DataAnnounced` | until a notification is dropped, data in the buffer and a length in the socket come and go together |
| `InterruptedSleep` | after a sleep cut short by data the next `recv` returns at once |
| `SuccessWithData` | `recv` succeeds only with data, whether it waited or trusted flags of an earlier callback |

None of these is inductive: `Framed` speaks of the history and the code only looks at offsets. The invariant
`IInv` is `TypeOK` with three parts. `HistoryInv`: the histories are streams of non-empty chunks, what was
announced is what was sent until something is dropped, and what `recv` returned is a prefix of what was announced.
`BufferInv`: while the session lives, the buffer is the unread end of the stream, the offset is where `recv` has got
to, the offset is short of the end unless the buffer is empty, and the socket holds exactly the lengths of the
announced datagrams not returned yet. `ControlInv`: the event matches the coroutine, no remainder is ever left
(the branch that leaves one is dead, see section 6), and a readable event has a length behind it.

`EndOfFacts`, `StreamAppend` and `NextChunk` are about streams; `ForwardStep` and `TakeStep` are the two steps that move
data; `StreamUnchanged` covers the rest; `InitInv`, `NextInv` and `Inductive` combine them. `Ordered` states the order of
chunks for every pair, so that a prefix is bounded without an induction.

`Refinement` is `Spec => Channel!ChanInit /\ [][Channel!ChanNext]_(Channel!chanVars)`: the session's steps are the channel's. The queue
of the channel is what was sent and not returned, so two actions matter: `ForwardIsPut` says that forwarding puts one datagram behind
it (`UnreadGrows`), and `TakeIsTake` that a `recv` which succeeds takes the first one off (`UnreadShrinks`), which needs
`BufferInv` to know that the offset stands at its start. Dropping a notification is the channel's `Break`, from which it
promises nothing. `ChannelStep` goes through the actions of `UdpSession`.

### UDP server

`UdpServerProofs`, for any peers, ports, session objects and numbers of datagrams (`ObjectAssumption`, `AddrLenAssumption`):

| Theorem | Says |
|---|---|
| `TypeCorrect` | `Spec => []TypeOK` |
| `MapMatches` | the map holds exactly the live sessions while the server exists, and none outlives it |
| `Order` | the datagrams of a peer, those its workers got, those in its inbox and those in the socket, are in the order of sending, each once, across sessions |

`IInv` adds to `TypeOK` and the map's property `SessionInv` (only a live session has a peer's address and an inbox, only a suspended one
an event, and a server with a worker of its own has no session) and `SocketInv` (what is queued was sent, in order).
`Order` needs more: a session that ended no longer has an inbox, so its peer's history has to say where a new session starts.
`OrderInv` keeps three sequences increasing and each one before the next: what workers got, the inbox of the live session, the peer's
datagrams in the socket. `ArrivesBehind` and `TakenFirst` are the moves between them, `Grows` and `Shrinks` are about the sequences.

### Base, procedures and clients

`LifetimeProofs`, for any sets of sessions, sub routines and clients (`ObjectsAssumption`):

| Theorem | Says |
|---|---|
| `TypeCorrect` | `Spec => []TypeOK` |
| `OneEvent` | while the base lives, a suspended coroutine has exactly one event to be resumed by, any other coroutine none |
| `Ownership` | every client has exactly one live owner, and the base has a pointer to all but the program's sub routines |
| `Uses` | nothing is used after it was freed, but the client whose callback is on the stack when the worker has deleted it, and a session that ended in a client's callback |
| `Doubles` | nothing is deleted twice, but what was deleted without the base being told, and such a session |

They hold whatever workers permit themselves (`UsageAssumption`). `Uses` and `Doubles` say which steps go wrong: section 6
(3, 5, 2 and 6) says how these come about, the theorems that there are no others. The properties count (`Cardinality`), the invariant says the same with
quantifiers, which the provers can follow. `TreeInv`: live objects form trees, of procedures, the clients in
their chains, and a UDP client inside each DNS client. `WakeInv`: events in the loop and coroutines that wait correspond. `HandleInv`:
the base has a pointer to what it has to delete and knows of every deletion but those in `untold`, and the server's map has every live session.
`ArgumentInv`: the object whose callback is on the stack exists unless the worker has deleted it. `StackInv`: a coroutine runs exactly
while a callback is on the stack. They need each other: procedures that are deleted, one or all those of a server, take their trees
along (`ProcsDie`, `ClientDies`), so an event left behind would be that of an object outside of every tree. `Uses` rests on
`ArgumentInv`, `Doubles` on `HandleInv`.

### TCP session

`TcpSessionProofs`, for every set of positive limits and any number of bytes (`LimitsAssumption`, `BoundAssumption`):

| Theorem | Says |
|---|---|
| `TypeCorrect` | `Spec => []TypeOK` |
| `BytesKept` | while the connection stands, what `recv` returned and what is left to read are what the peer sent |
| `InterruptedSleep` | a sleep is cut short only by something for `recv` to report |
| `EmptySuccess` | a `recv` that waited succeeds without data only at the end of the stream |

`NoByteLost` alone is not inductive: a read adds to `got` what it takes from `rx`, so the type of the lengths returned is
needed, and a peer's state does not say what a reset has discarded. `BytesInv` keeps `got + rx <= sent` across resets and
`disconnect`. `ControlInv` ties the event to the coroutine and says that an event active for reading belongs to an open
descriptor that is ready; `CallbackEndsSleep` and `CallbackEndsRecv` rest on it. `ReadStep` and `ReadReports` are about one read.
`EmptySuccess` is an action property: only `CallbackEndsRecv` takes a coroutine from `recv` to running, and when its read finds
data the length is not zero.

### TCP server

`TcpServerProofs`, for any finite set of descriptors, session objects and connections (`FdAssumption`, `ObjectAssumption`,
`BoundAssumption`): `TypeCorrect`; `MapMatches`, that `_sessions` leads from a number to the session that has it now, but for numbers
whose session disconnected; and `Descriptors`, that an open descriptor has exactly one live session. `FdInv` is what both need:
descriptors and sessions correspond, a session that is gone has none, and a number in use is not among those left behind.
`DeletionStep` is the end of a session, by itself or with the server.

### TCP client

`TcpClientProofs`, for any number of `init` and resets (`BoundsAssumption`): `TypeCorrect`, and `ConnectedTruly`, which says
that a client takes itself for connected only on an open socket whose present attempt was accepted. The step that could
break it is the callback, which trusts `SO_ERROR`; `AttemptInv` says that an attempt that failed while it is waited for has left
its error there, as nothing else reads it meanwhile, and that a connection that stands was accepted.
`ConnectResults` lists what `connect(2)` can report with the state that it leaves.

### DNS client

`DnsClientProofs`, for all replies, timeouts, bounds, and all lists of servers (`FilesAssumption`, `OwnAssumption`,
`RepliesAssumption`):

| Theorem | Says |
|---|---|
| `Deadline` | the timer of a waiting `resolve` is the time left to its deadline |
| `OwnServer` | a server of the client's address family is found wherever it stands in the file |
| `TypeCorrect` | `Spec => []TypeOK`; the cache holds whole results or none |
| `Truth` | what is known of a name is what a server replied about it, for no longer than its shortest-lived answer |
| `Success` | `resolve` succeeds only with an unexpired result, and an address comes out of a reply about the very name |

`Deadline` is inductive, because each wait is armed with `left` and the clock lowers both. The invariant of `OwnServer`,
`SearchInv`, says that as long as nobody rewrites the file the loop has seen the servers before its index, in the list of the file
as it is, and none was of the own type; so the loop cannot reach the end of a list that has one (`NextServer`).

The last three have the hypothesis `AllReadBack`, that parsing each reply in `Replies` gives what the server wrote. It is about messages and
not about states; TLC evaluates it for the replies of `MCDnsClient` and nearly ten thousand more, and what `Parse` computes for every
message is an induction the provers cannot do. Under it the invariant is `TypeOK` with `Truthful(cache)`: each entry is one of `MayKnow(n)`,
the records of one reply about `n` with a part of its life left. Storing a reply (`StoringIsTruthful`), which may be that to an
earlier request, erasing (`ErasingIsTruthful`) and the clock (`AgingIsTruthful`) keep it. `Success` rests on `FoundStep` and
`AddressStep`; `MinFound` is about the least element that the TTL and the first address are.

### Data buffer

`DataBufferProofs`, for any lengths up to 1 MiB and any history of calls (`LengthsAssumption`):

| Theorem | Says |
|---|---|
| `Fits` | no call but those that meet a wrong size writes beyond the allocation or leaves the data larger than it |
| `AppendsOverrun` | an append that must grow the buffer beyond what was ensured, to less than 64 KiB and not to 16 KiB exactly, writes beyond the allocation |

`Fits` has no hypothesis about callers; `AppendsOverrun` shows that the exception it makes for growing appends is no broader than the fault,
but for one length. `Computed` lists the sizes of all lengths (`MsbFound` finds the highest bit, `Shifts` how far the code shifts):
up to 65 536 there is room, above it sizes fall as lengths grow. `SizeFits` and `SizeOfSize` draw from it what a call needs: room for a length that is not too
long, and that an ensured size and 64 KiB are their own sizes, which is why the appends within what was ensured are right although the size goes through the
computation twice. `IInv` confines allocation and ensured capacity to the five `Sizes`; `Shrinking` and `Growing` are the two ways
the allocation changes, `AfterCall` and `AfterSetting` what a call has to establish.

### What is only model-checked

All liveness (`QuitEndsServer`, `SocketDrained`, `WaitsEnd`, `BacklogAccepted`, `ResolveEnds`, `ConnectEnds`, `RetryConnects`),
and the fairness that `ImplementsChannel` asks for beyond `Refinement`: both need `ENABLED`, which the provers do not handle.
`ReadsBack` is evaluated for bounded messages only. The four properties that the code does not have are refuted on an instance, and nothing is proved of them.

## 6. Where code and documents disagree

Each of the first four has a run whose only property TLC refutes; `PROJECT.json` quotes the lines.

1. `recv` of a UDP session compares `len_limit` with the remainder of the previous call, not with the length just
   read, and copies the whole datagram (`LenLimitRespected`). The branch for remainders is therefore never entered.
2. A UDP server that quits deletes its sessions and leaves their pointers in the base's set, which deletes them again
   (`NoDoubleDelete` of `UdpServer`).
3. A worker that deletes the client whose answer resumed it, as the test server does, leaves that client's callback
   with a freed argument (`NoUseAfterFree`).
4. `disconnect` forgets the number under which a TCP session is filed; its entry outlives it (`NoStaleEntry`).

The next three are part of the passing runs and of the theorems, which state them as the only exceptions there are:

5. A session that returns after a client's answer resumed it (`src/test/server/srv_main.cpp:98`) is deleted by that client's callback,
   which does not tell the server; the server forwards the next datagram to the freed session (`outlived` in `UsesAreKnown`;
   `LifetimeCallback.cfg` with `Usage = {"end"}` refutes `NoUseAfterFree` by it).
6. The UDP client inside a DNS client is deleted by it while its pointer stays in the base's set, and again by `~Base`
   (`untold` in `DoublesAreKnown`). A `new_DNS_client` that fails leaves such a pointer too (`Lifetime!NewDnsClientFails`).
7. `Data::append` that must grow hands its size to `_resize`, which computes the size of that size: for 4097 bytes 1 MiB becomes
   4096, and the bytes are written beyond the allocation (theorem `AppendsOverrun`; TLC refutes the invariant `NoOverrun` in two
   states). `forward_incoming_data` appends in this way to a session that is slow to read (`coevent_udp_session.cpp:605`),
   and `append_nul` to a full buffer (`src/test/server/srv_main.cpp:74`).

Seen while modelling, part of the modules, and without a run of its own:

* A UDP server on local sockets never resets the address length that `recvfrom` left (`coevent_udp_server.cpp:803`): after a sender with
  a short name the name of the next one is cut off, and the reply goes elsewhere. With `MCLocalAddrLen` for `AddrLen`, TLC refutes
  `RepliesToSender`. On Internet sockets all lengths are equal and the address is the sender's by two assignments of one
  step, so nothing is checked or claimed about it.
* In `recv` of a TCP session the branch marked "EAGAIN" (`coevent_tcp_session.cpp:319`) is the end of the stream, and EAGAIN
  is an error that stays (`TcpSession!RecvAtOnce`). No byte is lost by it.
* A buffer `expand`ed beyond 65 536 bytes is given 65 536: the shift of the size computation exceeds the width of an `int`
  (`cpp_class_data.cpp:66`), and sizes fall as lengths grow.
* `ensure_buff_capacity(10240)`, the test server's call, leaves 4096 bytes: the size goes through `AppropriateSize` twice.
* `copy` adds the new length to one that contains the old (`cpp_class_data.cpp:343`), so a buffer that held data is longer
  afterwards than what was written, and may be longer than its allocation.
* `default_dns_server` reads the file on every call because the time of the last reading is never stored, and lets
  an index equal to the length of the list through (`coevent_dns_client.cpp:655`).

## 7. Not modelled, and what is assumed

* **The characters of `resolv.conf`.** `Files` has at least one server on every line. A nameserver line without an address
  keeps `default_dns_server` in its loop for ever (`coevent_dns_client.cpp:631`), and a file without such a line leaves an
  empty list whose first element is read; neither has states to explore. Leaked records of the cache are not tracked.
* **`send` and `recv` of the TCP client** return without doing anything.
* **`init` of an IPv6 UDP server** cannot succeed: the descriptor it binds is `_fd_ipv4` (`coevent_udp_server.cpp:321`), and
  `send` with an address tests `_fd_ipv4` twice (line 957).
* **`reply` and `send`** of servers and sessions are single system calls that change no state of the library; of the UDP server
  the address it replies to is modelled. DNS messages that are malformed, and accessors of their records, are left out.
* **Error texts, dump and string tools, test programs**: formatting, or callers.
* Object allocation succeeds; `realloc` may fail in `DataBuffer` and does not in the modules that use a buffer. The machine is little-endian with 64-bit words.
* `UdpSession` takes its buffer for large enough, which `Data::append` beyond 4096 bytes is not (section 6), so the results hold
  while at most 4096 unread bytes are buffered. `DataBuffer` ends with the first write beyond the allocation, `Lifetime` goes on
  after a misuse as if the memory still held what it did.
* `Lifetime` leaves out what it shares with `UdpServer`: `auto_free` (a server may be deleted at any time the loop is idle
  or another coroutine runs, but by its own sessions), and a server deleted after the base. A freed address is only given again to an
  object of its kind.
* `TcpServer` stops where an object has been deleted twice or a session would call a deleted server:
  what follows is undefined.
* `DnsClient` allows any timeout where `to_timeval` of 0 or less returns an uninitialised one (`coevent_itnl.cpp:56`), and
  `TcpClient` likewise.
* What happens when libevent resumes the ended coroutine of a UDP server without `auto_free` is libco's and is left out.

## 8. Plan

Done, in this order: `UdpSession` with `DatagramChannel` (the core), its proofs; `UdpServer`; `Lifetime`; `TcpSession`;
`TcpServer`; `DataBuffer`; `DnsMessage` and `DnsClient`; `TcpClient`; `UdpServer` with a worker of its own; TCP clients in `Lifetime`; proofs
about `TcpSession`, `TcpClient` and `DnsClient`; the step simulation from `UdpSession` to `DatagramChannel`; proofs about
`Lifetime`, `UdpServer`, `TcpServer`, `DataBuffer` and the cache of `DnsClient`.

Next:

1. `~TCPServer` and TCP sessions in `Lifetime`, whose stale entries after `disconnect` would then count among its misuses.
2. The round trip of `DnsMessage` as a theorem for messages of one record, where no recursion over records is needed.
3. `UdpServer` over `UdpSession`'s channel: inboxes replaced by instances of `DatagramChannel`.
