------------------------------- MODULE TcpServer -------------------------------
(***************************************************************************)
(* A TCPServer in session mode (coevent_tcp_server.cpp) and its sessions.  *)
(* The server has no coroutine: its callback accepts one connection per    *)
(* activation, makes the session that serves it and files the session in   *)
(* _sessions under the number of the connection's descriptor.  The kernel  *)
(* gives a closed descriptor's number to the next connection.              *)
(*                                                                         *)
(* What a session's worker does with its connection is TcpSession's; here  *)
(* it waits, disconnects or returns.  What the program does after it has   *)
(* deleted an object twice is not modelled.                                *)
(* An operator named X_... is X with a plausible slip; no specification    *)
(* uses it.                                                                *)
(***************************************************************************)
EXTENDS Integers, FiniteSets

CONSTANTS
    Fd,           \* numbers the kernel can give to connections
    Session,      \* addresses at which session objects can be allocated
    Server,       \* the server object
    None,
    MaxConn       \* bound: connections made

ASSUME FdAssumption == Fd \subseteq Nat \ {0} /\ IsFiniteSet(Fd)
ASSUME ObjectAssumption == Server \notin Session /\ None \notin Session
ASSUME BoundAssumption == MaxConn \in Nat

VARIABLES
    srv,       \* the server: "listening" or "deleted"
    srvFlags,  \* flags its event is active with; {} when merely pending
    backlog,   \* connections the kernel holds for accept()
    open,      \* descriptors of accepted connections
    sessions,  \* _sessions
    sess,      \* each session: "none", "created", "waiting" or "running"
    fdOf,      \* _fd of each session, 0 once it disconnected
    ev,        \* each session's event: "none", "pending" or "active"
    control,   \* the base's _events_under_control
    base,      \* the Base: "alive" or "freed"
    \* history variables
    made,      \* connections made
    quit,      \* a quit was requested of a server the base controls
    left,      \* numbers whose session disconnected since it was filed
    deletes    \* how often each session was deleted since it was allocated

srvVars == <<srv, srvFlags, backlog>>
sessVars == <<sess, fdOf, ev>>
ownVars == <<sessions, left, control, base, deletes>>
vars == <<srvVars, open, sessVars, ownVars, made, quit>>

Live(s) == sess[s] # "none"

TypeOK ==
    /\ srv \in {"listening", "deleted"}
    /\ srvFlags \subseteq {"READ", "SIGNAL"}
    /\ backlog \in 0 .. MaxConn
    /\ open \subseteq Fd
    /\ sessions \in [Fd -> Session \cup {None}]
    /\ sess \in [Session -> {"none", "created", "waiting", "running"}]
    /\ fdOf \in [Session -> Fd \cup {0}]
    /\ ev \in [Session -> {"none", "pending", "active"}]
    /\ control \subseteq Session \cup {Server}
    /\ base \in {"alive", "freed"}
    /\ made \in 0 .. MaxConn
    /\ quit \in BOOLEAN
    /\ left \subseteq Fd /\ deletes \in [Session -> Nat]

\* init_session_mode() has bound the socket and added the persistent event.
Init ==
    /\ srv = "listening" /\ srvFlags = {} /\ backlog = 0 /\ open = {}
    /\ sessions = [n \in Fd |-> None]
    /\ sess = [s \in Session |-> "none"]
    /\ fdOf = [s \in Session |-> 0]
    /\ ev = [s \in Session |-> "none"]
    /\ control \in {{Server}, {}}     \* auto_free
    /\ base = "alive"
    /\ made = 0 /\ quit = FALSE /\ left = {}
    /\ deletes = [s \in Session |-> 0]

Intact == \A s \in Session : deletes[s] <= 1

\* Coroutines are not preempted: while a worker runs the loop does not.
LoopRuns == base = "alive" /\ Intact /\ \A s \in Session : sess[s] # "running"

-----------------------------------------------------------------------------
(* Clients, and the callers of quit.                                       *)

Connect ==
    /\ srv = "listening" /\ made < MaxConn
    /\ made' = made + 1 /\ backlog' = backlog + 1
    /\ UNCHANGED <<srv, srvFlags, open, sessVars, ownVars, quit>>

QuitServer_IgnoredWhenActive ==
    /\ srv = "listening" /\ base = "alive" /\ "SIGNAL" \notin srvFlags /\ ~quit
    /\ srvFlags' = IF srvFlags = {} THEN {"SIGNAL"} ELSE srvFlags
    /\ quit' = (Server \in control)
    /\ UNCHANGED <<srv, backlog, open, sessVars, ownVars, made>>

\* quit_session_mode_server(): event_active() with EV_SIGNAL.
QuitServer ==
    /\ srv = "listening" /\ base = "alive" /\ "SIGNAL" \notin srvFlags
    /\ srvFlags' = srvFlags \cup {"SIGNAL"}
    /\ quit' = (Server \in control)
    /\ UNCHANGED <<srv, backlog, open, sessVars, ownVars, made>>

-----------------------------------------------------------------------------
(* The server's callback.                                                  *)

ServerReadable_EdgeTriggered ==
    /\ LoopRuns /\ srv = "listening" /\ srvFlags = {} /\ backlog = 1
    /\ srvFlags' = {"READ"}
    /\ UNCHANGED <<srv, backlog, open, sessVars, ownVars, made, quit>>

ServerReadable ==
    /\ LoopRuns /\ srv = "listening" /\ srvFlags = {} /\ backlog > 0
    /\ srvFlags' = {"READ"}
    /\ UNCHANGED <<srv, backlog, open, sessVars, ownVars, made, quit>>

\* The lowest number that is free, as POSIX has it.
NextFd(n) == n \in Fd \ open /\ \A m \in Fd \ open : n <= m

\* The entry of the number, if there is one, is overwritten.
FileSession(n, s) ==
    sessions' = [sessions EXCEPT ![n] = s] /\ left' = left \ {n}

AddEvent(s) == ev' = [ev EXCEPT ![s] = "pending"]

\* accept() and TCPItnlSession::init().
Accept(n, s) ==
    /\ LoopRuns /\ srv = "listening" /\ srvFlags = {"READ"}
    /\ backlog > 0 /\ NextFd(n) /\ ~Live(s)
    /\ srvFlags' = {} /\ backlog' = backlog - 1
    /\ open' = open \cup {n}
    /\ sess' = [sess EXCEPT ![s] = "created"]
    /\ fdOf' = [fdOf EXCEPT ![s] = n]
    /\ deletes' = [deletes EXCEPT ![s] = 0]
    /\ control' = control \cup {s}
    /\ AddEvent(s) /\ FileSession(n, s)
    /\ UNCHANGED <<srv, base, made, quit>>

\* The session's init() fails: session and connection are dropped.
SessionInitFails ==
    /\ LoopRuns /\ srv = "listening" /\ srvFlags = {"READ"}
    /\ backlog > 0 /\ open # Fd
    /\ srvFlags' = {} /\ backlog' = backlog - 1
    /\ UNCHANGED <<srv, open, sessVars, ownVars, made, quit>>

AcceptFails_Unchecked ==
    \E s \in Session :
        /\ LoopRuns /\ srv = "listening" /\ srvFlags = {"READ"}
        /\ open = Fd /\ ~Live(s)
        /\ srvFlags' = {}
        /\ sess' = [sess EXCEPT ![s] = "created"]
        /\ fdOf' = [fdOf EXCEPT ![s] = -1]
        /\ AddEvent(s)
        /\ UNCHANGED <<srv, backlog, open, ownVars, made, quit>>

\* accept() fails, out of descriptors; the connection stays in the backlog.
AcceptFails ==
    /\ LoopRuns /\ srv = "listening" /\ srvFlags = {"READ"}
    /\ open = Fd
    /\ srvFlags' = {}
    /\ UNCHANGED <<srv, backlog, open, sessVars, ownVars, made, quit>>

Filed == {sessions[n] : n \in Fd} \ {None}

Entries(s) == {n \in Fd : sessions[n] = s}

\* ~TCPServer: what every entry of _sessions points to is deleted, which
\* closes what it still has open; the base is not told.
DeleteServer ==
    /\ srv' = "deleted" /\ srvFlags' = {} /\ backlog' = 0
    /\ control' = control \ {Server}
    /\ deletes' = [s \in Session |-> deletes[s] + Cardinality(Entries(s))]
    /\ sess' = [s \in Session |-> IF s \in Filed THEN "none" ELSE sess[s]]
    /\ ev' = [s \in Session |-> IF s \in Filed THEN "none" ELSE ev[s]]
    /\ fdOf' = [s \in Session |-> IF s \in Filed THEN 0 ELSE fdOf[s]]
    /\ open' = open \ {fdOf[s] : s \in Filed}
    /\ sessions' = [n \in Fd |-> None]
    /\ UNCHANGED left

\* EV_SIGNAL: the base deletes the server if it controls it; else nothing
\* happens and the server goes on listening.
ServerQuits ==
    /\ LoopRuns /\ srv = "listening" /\ "SIGNAL" \in srvFlags
    /\ IF Server \in control
       THEN DeleteServer
       ELSE srvFlags' = {} /\ UNCHANGED <<srv, backlog, open, sessVars,
                                          sessions, left, control, deletes>>
    /\ UNCHANGED <<base, made, quit>>

\* The program deletes a server it did not give to the base.
ProgramDeletesServer ==
    /\ LoopRuns /\ srv = "listening" /\ Server \notin control
    /\ DeleteServer
    /\ UNCHANGED <<base, made, quit>>

ServerCallback ==
    \/ \E n \in Fd, s \in Session : Accept(n, s)
    \/ AcceptFails \/ SessionInitFails
    \/ ServerQuits

-----------------------------------------------------------------------------
(* The sessions.                                                           *)

SessionActivated(s) ==
    /\ LoopRuns /\ ev[s] = "pending"
    /\ ev' = [ev EXCEPT ![s] = "active"]
    /\ UNCHANGED <<srvVars, open, sess, fdOf, ownVars, made, quit>>

SessionResumes(s) ==
    /\ LoopRuns /\ ev[s] = "active"
    /\ ev' = [ev EXCEPT ![s] = "none"]
    /\ sess' = [sess EXCEPT ![s] = "running"]
    /\ UNCHANGED <<srvVars, open, fdOf, ownVars, made, quit>>

\* recv or sleep.
SessionWaits(s) ==
    /\ sess[s] = "running"
    /\ sess' = [sess EXCEPT ![s] = "waiting"]
    /\ ev' = [ev EXCEPT ![s] = "pending"]
    /\ UNCHANGED <<srvVars, open, fdOf, ownVars, made, quit>>

\* disconnect(): the descriptor is closed and forgotten, so that nothing leads
\* from the session to its entry any more.
SessionDisconnects(s) ==
    /\ sess[s] = "running" /\ fdOf[s] # 0
    /\ open' = open \ {fdOf[s]}
    /\ left' = left \cup {fdOf[s]}
    /\ fdOf' = [fdOf EXCEPT ![s] = 0]
    /\ UNCHANGED <<srvVars, sess, ev, sessions, control, base, deletes, made, quit>>

NotifySessionEnds_Skipped(s) == UNCHANGED sessions

\* notify_session_ends(): the entry under the session's descriptor.
NotifySessionEnds(s) ==
    sessions' = IF fdOf[s] = 0 THEN sessions
                ELSE [sessions EXCEPT ![fdOf[s]] = None]

CloseFd_Leaks(s) == UNCHANGED open

\* ~TCPItnlSession closes what is still open.
CloseFd(s) == open' = open \ {fdOf[s]}

\* The worker returns: the callback notifies the server and has the base
\* delete the session.  One that has outlived the server would call a deleted
\* object, which is not modelled.
SessionReturns(s) ==
    /\ sess[s] = "running" /\ srv # "deleted"
    /\ NotifySessionEnds(s)
    /\ CloseFd(s)
    /\ sess' = [sess EXCEPT ![s] = "none"]
    /\ fdOf' = [fdOf EXCEPT ![s] = 0]
    /\ control' = control \ {s}
    /\ deletes' = [deletes EXCEPT ![s] = @ + 1]
    /\ UNCHANGED <<srvVars, ev, left, base, made, quit>>

\* run() returns when no event is left, and the program deletes the base.
DeleteBase ==
    /\ LoopRuns /\ srv = "deleted"
    /\ \A s \in Session : ev[s] = "none"
    /\ base' = "freed" /\ control' = {}
    /\ deletes' = [s \in Session |-> deletes[s] + (IF s \in control THEN 1 ELSE 0)]
    /\ UNCHANGED <<srvVars, open, sessVars, sessions, left, made, quit>>

Next ==
    \/ Connect \/ QuitServer \/ ServerReadable
    \/ \E n \in Fd, s \in Session : Accept(n, s)
    \/ AcceptFails \/ SessionInitFails \/ ServerQuits \/ ProgramDeletesServer
    \/ \E s \in Session :
          \/ SessionActivated(s) \/ SessionResumes(s) \/ SessionWaits(s)
          \/ SessionDisconnects(s) \/ SessionReturns(s)
    \/ DeleteBase

\* Every turn of the loop polls every socket and runs every active callback,
\* and a worker that runs waits or returns at last.
Fairness ==
    /\ SF_vars(ServerReadable) /\ SF_vars(ServerCallback)
    /\ \A s \in Session : WF_vars(SessionWaits(s) \/ SessionReturns(s))

Spec == Init /\ [][Next]_vars /\ Fairness

-----------------------------------------------------------------------------
(* Properties.                                                             *)

\* But for the numbers whose session has disconnected, _sessions holds exactly
\* the live sessions, each under its descriptor: a number that is given out
\* again leads to the session that has it now.  And no session that still has
\* a connection outlives the server.
MapMatchesSessions ==
    IF srv = "deleted" THEN \A s \in Session : Live(s) => fdOf[s] = 0
    ELSE \A n \in Fd \ left, s \in Session :
             sessions[n] = s <=> Live(s) /\ fdOf[s] = n

\* Every open descriptor belongs to exactly one live session: none leaks when
\* sessions end or the server is deleted, and none is shared.
FdsAreOwned ==
    \A n \in Fd :
        Cardinality({s \in Session : Live(s) /\ fdOf[s] = n})
            = IF n \in open THEN 1 ELSE 0

\* A quit requested of a server the base controls ends it, whatever connects.
QuitEndsServer == quit ~> srv = "deleted"

\* The backlog is accepted, unless descriptors run out, a quit is requested or
\* the bound on sessions is reached.
BacklogAccepted == backlog > 0 ~>
    \/ backlog = 0 \/ open = Fd \/ "SIGNAL" \in srvFlags
    \/ \A s \in Session : Live(s)

\* No entry of _sessions points to a deleted session.
NoStaleEntry == \A n \in Fd : sessions[n] = None \/ Live(sessions[n])
=============================================================================
