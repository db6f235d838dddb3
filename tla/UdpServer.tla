------------------------------- MODULE UdpServer -------------------------------
(***************************************************************************)
(* A UDPServer (coevent_udp_server.cpp).  In session mode its coroutine    *)
(* receives every datagram and hands it to the session of the datagram's   *)
(* sender, one more coroutine per sender; else it runs a worker of the     *)
(* program's, which receives, sleeps and replies.  All of it, libevent's   *)
(* loop included, runs in one thread; the kernel and the senders are the   *)
(* only concurrent parties.                                                *)
(*                                                                         *)
(* A session is seen here as the channel of datagrams that UdpSession      *)
(* implements: an inbox.  Its worker takes datagrams, waits, or returns.   *)
(*                                                                         *)
(* An operator named X_... is X with a plausible slip; no specification    *)
(* uses it.                                                                *)
(***************************************************************************)
EXTENDS Integers, Sequences, Functions

CONSTANTS
    Peer,        \* remote addresses, IP and port together
    PortOf,      \* the port in each of them
    AddrLen,     \* the length of each as recvfrom() reports it: 0 is that of a
                 \* local socket without a name
    Room,        \* the size of the server's storage for one
    ServerPort,  \* the port the server is bound to
    FirstPort,   \* the lowest port the process is allowed to bind
    Session,     \* addresses at which session objects can be allocated
    Server,      \* the server object
    None,
    MaxSend      \* bound: datagrams sent

ASSUME PortAssumption ==
    /\ PortOf \in [Peer -> 0 .. 65535]
    /\ ServerPort \in 0 .. 65535 /\ FirstPort \in 0 .. 65535
ASSUME AddrLenAssumption == Room \in Nat /\ AddrLen \in [Peer -> 0 .. Room]
ASSUME ObjectAssumption ==
    /\ Server \notin Session /\ None \notin Session \cup Peer \cup {Server}
    /\ MaxSend \in Nat

Object == Session \cup {Server}

VARIABLES
    srv,       \* the server: "created" and "waiting" in recv in session mode;
               \* "starting", "running", "receiving" or "sleeping" with a worker
               \* of the program's; then "ended" or "deleted"
    srvFlags,  \* flags its event is active with; {} when merely pending
    remote,    \* _remote_addr_..., byte by byte, and _remote_addr_..._len
    rx,        \* datagrams in the server's socket
    map,       \* _session_collection
    sess,      \* each session: "none", "created", "waiting" or "running"
    peerOf,    \* _remote_addr of each session
    ev,        \* each session's event: "none", "pending" or "active"
    inbox,     \* forwarded to each session, not yet returned by its recv
    control,   \* the base's _events_under_control
    base,      \* the Base: "alive" or "freed"
    \* history variables
    last,      \* the sender of the datagram recv returned last
    sendNo,    \* datagrams sent, which numbers them
    handled,   \* datagrams the workers got from each peer
    doubled,   \* objects deleted that had been deleted before
    quit       \* a quit was requested of a server that waits

fromVars == <<remote, last>>
srvVars == <<srv, srvFlags, fromVars>>
sessVars == <<sess, peerOf, ev, inbox>>
ownVars == <<map, control, base, doubled>>
vars == <<srvVars, rx, sessVars, ownVars, sendNo, handled, quit>>

Datagram == [from : Peer, no : Nat]   \* no is 0 in an empty datagram

Live(s) == sess[s] \in {"created", "waiting", "running"}

\* The states of a server with a worker of the program's.
Plain == {"starting", "running", "receiving", "sleeping"}

Suspended == {"waiting", "receiving", "sleeping"}

Open == srv \in {"created", "waiting"} \cup Plain

TypeOK ==
    /\ srv \in {"created", "waiting", "ended", "deleted"} \cup Plain
    /\ srvFlags \subseteq {"READ", "SIGNAL", "TIMEOUT"}
    /\ remote \in [bytes : [1 .. Room -> Peer \cup {None}], len : 0 .. Room]
    /\ last \in Peer \cup {None}
    /\ rx \in Seq(Datagram)
    /\ map \in [Peer -> Session \cup {None}]
    /\ sess \in [Session -> {"none", "created", "waiting", "running"}]
    /\ peerOf \in [Session -> Peer \cup {None}]
    /\ ev \in [Session -> {"none", "pending", "active"}]
    /\ inbox \in [Session -> Seq(1 .. MaxSend)]
    /\ control \subseteq Object
    /\ base \in {"alive", "freed"}
    /\ sendNo \in 0 .. MaxSend
    /\ handled \in [Peer -> Seq(1 .. MaxSend)]
    /\ doubled \subseteq Object
    /\ quit \in BOOLEAN

\* An Internet socket, whose peers' addresses all fill the storage.
Internet == \A p \in Peer : AddrLen[p] = Room

\* init_session_mode(), which takes no local socket, or init() has set the server
\* up; the loop has not run yet.
Init ==
    /\ srv \in IF Internet THEN {"created", "starting"} ELSE {"starting"}
    /\ srvFlags = {}
    /\ remote = [bytes |-> [i \in 1 .. Room |-> None], len |-> Room] /\ last = None
    /\ rx = <<>>
    /\ map = [p \in Peer |-> None]
    /\ sess = [s \in Session |-> "none"]
    /\ peerOf = [s \in Session |-> None]
    /\ ev = [s \in Session |-> "none"]
    /\ inbox = [s \in Session |-> <<>>]
    /\ control \in {{Server}, {}}     \* auto_free
    /\ base = "alive"
    /\ sendNo = 0
    /\ handled = [p \in Peer |-> <<>>]
    /\ doubled = {}
    /\ quit = FALSE

\* Coroutines are not preempted: while a worker runs the loop does not.
LoopRuns ==
    /\ base = "alive"
    /\ srv # "running" /\ \A s \in Session : sess[s] # "running"

-----------------------------------------------------------------------------
(* The kernel and the callers of quit.                                     *)

\* A datagram reaches the open socket of the server.
Arrive(p, empty) ==
    /\ Open /\ sendNo < MaxSend
    /\ sendNo' = sendNo + 1
    /\ rx' = Append(rx, [from |-> p, no |-> IF empty THEN 0 ELSE sendNo + 1])
    /\ UNCHANGED <<srvVars, sessVars, ownVars, handled, quit>>

QuitServer_IgnoredWhenActive ==
    /\ Open /\ "SIGNAL" \notin srvFlags /\ ~quit
    /\ srvFlags' = IF srvFlags = {} THEN {"SIGNAL"} ELSE srvFlags
    /\ quit' = (srv = "waiting")
    /\ UNCHANGED <<srv, fromVars, rx, sessVars, ownVars, sendNo, handled>>

\* quit_session_mode_server(), from a worker, from any other coroutine or
\* before the loop runs: event_active() adds EV_SIGNAL to the flags of an
\* event that is active already.
QuitServer ==
    /\ base = "alive"
    /\ Open /\ "SIGNAL" \notin srvFlags
    /\ srvFlags' = srvFlags \cup {"SIGNAL"}
    /\ quit' = (srv = "waiting")
    /\ UNCHANGED <<srv, fromVars, rx, sessVars, ownVars, sendNo, handled>>

-----------------------------------------------------------------------------
(* The server's coroutine.                                                 *)

\* The zero timer of init() removes the event and activates it with
\* EV_TIMEOUT alone: the worker starts, its recv finds no EV_READ and waits,
\* and a quit requested before is forgotten.
ServerStarts ==
    /\ LoopRuns /\ srv \in {"created", "starting"}
    /\ srv' = IF srv = "created" THEN "waiting" ELSE "running"
    /\ srvFlags' = {}
    /\ UNCHANGED <<fromVars, rx, sessVars, ownVars, sendNo, handled, quit>>

ServerReadable ==
    /\ LoopRuns /\ srv \in Suspended /\ srvFlags = {}
    /\ rx # <<>>
    /\ srvFlags' = {"READ"}
    /\ UNCHANGED <<srv, fromVars, rx, sessVars, ownVars, sendNo, handled, quit>>

\* recvfrom() writes no more bytes of the sender's address than the length says
\* that the call before has left there, and then replaces that length.
StoreSender(d) ==
    remote' = [bytes |-> [i \in 1 .. Room |->
                             IF i <= AddrLen[d.from] /\ i <= remote.len
                             THEN d.from ELSE remote.bytes[i]],
               len   |-> AddrLen[d.from]]

\* The flags have EV_READ and no EV_SIGNAL: recv() returns one datagram per
\* callback, and the next recv() waits again.
TakeDatagram(d) ==
    /\ LoopRuns /\ srvFlags = {"READ"}
    /\ rx # <<>> /\ d = Head(rx)
    /\ rx' = Tail(rx)
    /\ srvFlags' = {}
    /\ StoreSender(d) /\ last' = d.from

ServerReceives(d) == srv = "waiting" /\ TakeDatagram(d)

\* The port a session binds: htons() of a port in network order already,
\* which on a little-endian machine is the port with its bytes swapped.
SwapBytes(port) == (port % 256) * 256 + port \div 256

SessionPort(p) == SwapBytes(PortOf[p])

CanBind(p) ==
    /\ SessionPort(p) >= FirstPort /\ SessionPort(p) # ServerPort
    /\ \A s \in Session : Live(s) => SessionPort(peerOf[s]) # SessionPort(p)

ServerForwards_Reorders ==
    \E d \in Range(rx) :
        /\ ServerReceives(d)
        /\ d.no # 0 /\ map[d.from] # None
        /\ inbox' = [inbox EXCEPT ![map[d.from]] = <<d.no>> \o @]
        /\ UNCHANGED <<srv, sess, peerOf, ev, ownVars, sendNo, handled, quit>>

\* The sender has a session: forward_incoming_data(), whose error, if the
\* notification cannot be sent, nobody looks at.
ServerForwards ==
    \E d \in Range(rx) :
        /\ ServerReceives(d)
        /\ d.no # 0 /\ map[d.from] # None
        /\ inbox' \in {[inbox EXCEPT ![map[d.from]] = Append(@, d.no)], inbox}
        /\ UNCHANGED <<srv, sess, peerOf, ev, ownVars, sendNo, handled, quit>>

AddEvent(s) == ev' = [ev EXCEPT ![s] = "pending"]

PutUnderControl(s) == control' = control \cup {s}

\* The sender has none: a session is made and bound, its event is added with
\* a zero timer, the base takes control of it, it is given the datagram and
\* entered in the map.
CreateFor(s, d) ==
    /\ sess[s] = "none"
    /\ map[d.from] = None /\ CanBind(d.from)
    /\ sess' = [sess EXCEPT ![s] = "created"]
    /\ peerOf' = [peerOf EXCEPT ![s] = d.from]
    /\ inbox' \in {[inbox EXCEPT ![s] = <<d.no>>], [inbox EXCEPT ![s] = <<>>]}
    /\ map' = [map EXCEPT ![d.from] = s]
    /\ AddEvent(s) /\ PutUnderControl(s)

ServerCreates_EvenWhenEmpty(s) ==
    \E d \in Range(rx) :
        /\ ServerReceives(d)
        /\ CreateFor(s, d)
        /\ UNCHANGED <<srv, base, doubled, sendNo, handled, quit>>

ServerCreates(s) ==
    \E d \in Range(rx) :
        /\ ServerReceives(d)
        /\ d.no # 0 /\ CreateFor(s, d)
        /\ UNCHANGED <<srv, base, doubled, sendNo, handled, quit>>

ServerRefuses_Retries ==
    \E d \in Range(rx) :
        /\ LoopRuns /\ srv = "waiting" /\ srvFlags = {"READ"} /\ d = Head(rx)
        /\ srvFlags' = {}
        /\ d.no # 0 /\ map[d.from] = None /\ ~CanBind(d.from)
        /\ UNCHANGED <<srv, fromVars, rx, sessVars, ownVars, sendNo, handled, quit>>

\* The session's init() fails, always so if it cannot bind: the datagram is
\* dropped.
ServerRefuses ==
    \E d \in Range(rx) :
        /\ ServerReceives(d)
        /\ d.no # 0 /\ map[d.from] = None
        /\ UNCHANGED <<srv, sessVars, ownVars, sendNo, handled, quit>>

\* An empty datagram reads as zero bytes and is only logged.
ServerIgnores ==
    \E d \in Range(rx) :
        /\ ServerReceives(d)
        /\ d.no = 0
        /\ UNCHANGED <<srv, sessVars, ownVars, sendNo, handled, quit>>

InMap == {s \in Session : \E p \in Peer : map[p] = s}

Gone == {s \in Session : ~Live(s)} \cup (IF srv = "deleted" THEN {Server} ELSE {})

Delete(objects) == doubled' = doubled \cup (objects \cap Gone)

\* The callback when the coroutine has ended: the base deletes the server if it
\* controls it.  ~UDPServer deletes every session in its map; the base is not
\* told of those.
EndServer ==
    /\ srvFlags' = {} /\ rx' = <<>>
    /\ IF Server \in control
       THEN /\ srv' = "deleted" /\ Delete({Server} \cup InMap)
            /\ control' = control \ {Server}
            /\ map' = [p \in Peer |-> None]
            /\ sess' = [s \in Session |-> IF s \in InMap THEN "none" ELSE sess[s]]
            /\ ev' = [s \in Session |-> IF s \in InMap THEN "none" ELSE ev[s]]
            /\ inbox' = [s \in Session |-> IF s \in InMap THEN <<>> ELSE inbox[s]]
            /\ peerOf' = [s \in Session |-> IF s \in InMap THEN None ELSE peerOf[s]]
       ELSE /\ srv' = "ended"
            /\ UNCHANGED <<doubled, control, map, sessVars>>
    /\ UNCHANGED <<fromVars, base, sendNo, handled, quit>>

\* recv() returns ERR_SIGNAL, and _session_mode_worker() returns.
ServerQuits ==
    /\ LoopRuns /\ srv = "waiting" /\ "SIGNAL" \in srvFlags
    /\ EndServer

-----------------------------------------------------------------------------
(* A worker of the program's instead of _session_mode_worker.  Each of its *)
(* waits ends by reading and resetting the flags, so recv() always waits.  *)

\* recv() or sleep(), of some time: event_add() and co_yield().
WorkerWaits(where) ==
    /\ srv = "running" /\ where \in {"receiving", "sleeping"}
    /\ srv' = where
    /\ UNCHANGED <<srvFlags, fromVars, rx, sessVars, ownVars, sendNo, handled, quit>>

\* The timer is due: it takes the event over from the socket.  What a coroutine
\* activated by a quit is called back before the loop looks at its timers.
WorkerTimer ==
    /\ LoopRuns /\ srv \in {"receiving", "sleeping"} /\ "SIGNAL" \notin srvFlags
    /\ srvFlags' = {"TIMEOUT"}
    /\ UNCHANGED <<srv, fromVars, rx, sessVars, ownVars, sendNo, handled, quit>>

\* recv() returns a datagram.
WorkerReceives ==
    \E d \in Range(rx) :
        /\ srv = "receiving" /\ TakeDatagram(d)
        /\ srv' = "running"
        /\ handled' = IF d.no = 0 THEN handled
                      ELSE [handled EXCEPT ![d.from] = Append(@, d.no)]
        /\ UNCHANGED <<sessVars, ownVars, sendNo, quit>>

\* recv() or sleep() returns and no datagram is taken: ERR_SIGNAL before all,
\* ERR_TIMEOUT or the end of the sleep, or ERR_INTERRUPTED_SLEEP.
WorkerResumes ==
    /\ LoopRuns /\ srvFlags # {}
    /\ srv = "sleeping" \/ (srv = "receiving" /\ srvFlags \cap {"SIGNAL", "TIMEOUT"} # {})
    /\ srv' = "running" /\ srvFlags' = {}
    /\ UNCHANGED <<fromVars, rx, sessVars, ownVars, sendNo, handled, quit>>

WorkerReturns == srv = "running" /\ EndServer

-----------------------------------------------------------------------------
(* The sessions' coroutines.                                               *)

\* The event of a suspended session becomes active: data, or a timer.
SessionActivated(s) ==
    /\ LoopRuns /\ ev[s] = "pending"
    /\ ev' = [ev EXCEPT ![s] = "active"]
    /\ UNCHANGED <<srvVars, rx, sess, peerOf, inbox, ownVars, sendNo, handled, quit>>

SessionResumes(s) ==
    /\ LoopRuns /\ ev[s] = "active"
    /\ ev' = [ev EXCEPT ![s] = "none"]
    /\ sess' = [sess EXCEPT ![s] = "running"]
    /\ UNCHANGED <<srvVars, rx, peerOf, inbox, ownVars, sendNo, handled, quit>>

\* A recv of the worker returns the next datagram.
SessionTakes(s) ==
    /\ sess[s] = "running" /\ inbox[s] # <<>>
    /\ handled' = [handled EXCEPT ![peerOf[s]] = Append(@, Head(inbox[s]))]
    /\ inbox' = [inbox EXCEPT ![s] = Tail(@)]
    /\ UNCHANGED <<srvVars, rx, sess, peerOf, ev, ownVars, sendNo, quit>>

SessionWaits(s) ==
    /\ sess[s] = "running"
    /\ sess' = [sess EXCEPT ![s] = "waiting"]
    /\ ev' = [ev EXCEPT ![s] = "pending"]
    /\ UNCHANGED <<srvVars, rx, peerOf, inbox, ownVars, sendNo, handled, quit>>

NotifySessionEnds_Skipped(s) == UNCHANGED map

\* notify_session_ends(): the entry of the session's remote address is erased.
NotifySessionEnds(s) == map' = [map EXCEPT ![peerOf[s]] = None]

\* The worker returns: the callback notifies the server and has the base
\* delete the session.
SessionReturns(s) ==
    /\ sess[s] = "running"
    /\ sess' = [sess EXCEPT ![s] = "none"]
    /\ inbox' = [inbox EXCEPT ![s] = <<>>]
    /\ peerOf' = [peerOf EXCEPT ![s] = None]
    /\ NotifySessionEnds(s)
    /\ control' = control \ {s}
    /\ Delete({s})
    /\ UNCHANGED <<srvVars, rx, ev, base, sendNo, handled, quit>>

-----------------------------------------------------------------------------

\* Base::run() returns when no event is left, and the program deletes the
\* base, which deletes what it still controls.
DeleteBase ==
    /\ LoopRuns /\ srv \in {"ended", "deleted"}
    /\ \A s \in Session : ev[s] = "none"
    /\ base' = "freed" /\ control' = {}
    /\ Delete(control)
    /\ UNCHANGED <<srvVars, rx, sessVars, map, sendNo, handled, quit>>

ServerCallback ==
    \/ ServerForwards \/ ServerRefuses \/ ServerIgnores \/ ServerQuits
    \/ WorkerReceives \/ WorkerResumes
    \/ \E s \in Session : ServerCreates(s)

Next ==
    \/ \E p \in Peer, empty \in BOOLEAN : Arrive(p, empty)
    \/ QuitServer \/ ServerStarts \/ ServerReadable
    \/ ServerForwards \/ ServerRefuses \/ ServerIgnores \/ ServerQuits
    \/ \E where \in {"receiving", "sleeping"} : WorkerWaits(where)
    \/ WorkerTimer \/ WorkerReceives \/ WorkerResumes \/ WorkerReturns
    \/ \E s \in Session :
          \/ ServerCreates(s)
          \/ SessionActivated(s) \/ SessionResumes(s)
          \/ SessionTakes(s) \/ SessionWaits(s) \/ SessionReturns(s)
    \/ DeleteBase

\* Every turn of the loop polls every socket and runs every active callback,
\* so one that is enabled in turn after turn is not passed over for ever.  A
\* worker that runs takes finitely many datagrams before it waits or returns.
Fairness ==
    /\ SF_vars(ServerStarts) /\ SF_vars(ServerReadable) /\ SF_vars(ServerCallback)
    /\ \A s \in Session : WF_vars(SessionWaits(s) \/ SessionReturns(s))

Spec == Init /\ [][Next]_vars /\ Fairness

-----------------------------------------------------------------------------
(* Properties.                                                             *)

\* While the server exists its map holds exactly the live sessions, each
\* under the address of its own peer: no entry points to a deleted session,
\* no live session is unreachable, no peer has two.  And no session outlives
\* the server, which it would call back into.
MapMatchesSessions ==
    IF srv = "deleted" THEN \A s \in Session : ~Live(s)
    ELSE \A p \in Peer, s \in Session : map[p] = s <=> Live(s) /\ peerOf[s] = p

\* What the workers of a peer got, then what its session's inbox holds.
Forwarded(p) == handled[p] \o (IF map[p] = None THEN <<>> ELSE inbox[map[p]])

\* Where the peer's datagrams are in the socket.
Queued(p) == {i \in 1 .. Len(rx) : rx[i].from = p /\ rx[i].no # 0}

\* The datagrams of one peer, those its workers got, those in the inbox of its
\* session and those still in the socket, are in the order they were sent and
\* without repetition, across all the sessions the peer has had.
PerPeerOrder == \A p \in Peer :
    /\ \A i, j \in 1 .. Len(Forwarded(p)) : i < j => Forwarded(p)[i] < Forwarded(p)[j]
    /\ \A i, j \in Queued(p) : i < j => rx[i].no < rx[j].no
    /\ \A i \in 1 .. Len(Forwarded(p)), j \in Queued(p) : Forwarded(p)[i] < rx[j].no

\* A quit requested of a waiting server ends it, whatever arrives meanwhile.
QuitEndsServer == quit ~> srv \in {"ended", "deleted"}

\* A server that is not asked to quit drains its socket, and a worker of the
\* program's that waits, in recv() or in sleep(), is resumed by what is there.
SocketDrained == rx # <<>> ~> (rx = <<>> \/ srv \notin Suspended)

\* The server's reply() goes to the sender of the datagram that recv() returned
\* last, if that has an address, whoever sent the datagrams before.  It holds
\* on Internet sockets, and on local ones only until a shorter name comes first.
RepliesToSender ==
    last # None => /\ remote.len = AddrLen[last]
                   /\ \A i \in 1 .. AddrLen[last] : remote.bytes[i] = last

\* Nothing is deleted that was deleted before.
NoDoubleDelete == doubled = {}
=============================================================================
