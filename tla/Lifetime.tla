------------------------------- MODULE Lifetime -------------------------------
(***************************************************************************)
(* Who owns and deletes what: the Base with its _events_under_control      *)
(* (coevent_base.cpp), procedures - sessions and sub routines - each with  *)
(* a coroutine and a _client_chain (coevent_procedure.cpp), and the        *)
(* clients a procedure makes.  A DNS client owns a UDP client of its own,  *)
(* and a server deletes the sessions in its map.                           *)
(*                                                                         *)
(* A coroutine waits on its procedure's own event or on that of one of its *)
(* clients; either way libevent calls the callback of the object waited    *)
(* on, the callback resumes the coroutine, and the rest of the callback    *)
(* runs when the coroutine yields or ends.  In between, the worker may     *)
(* have deleted the very object whose callback is on the stack.            *)
(*                                                                         *)
(* Objects are addresses: a freed one can be allocated again, to an object *)
(* of its kind, and a pointer to it left in a set then leads to that.      *)
(* An operator named X_... is X with a plausible slip; no specification    *)
(* uses it.                                                                *)
(***************************************************************************)
EXTENDS Naturals, FiniteSets

CONSTANTS
    Session,     \* addresses of sessions of a server in session mode
    Routine,     \* addresses of SubRoutine objects
    UdpClient,   \* addresses of UDP clients, those inside DNS clients included
    TcpClient,   \* addresses of TCP clients
    DnsClient,   \* addresses of DNS clients
    None,
    Usage        \* what the workers permit themselves: a subset of Liberties

\* "delete": to delete the client whose event resumed the coroutine.
\* "end":    to return, in a session, after being resumed by a client.
Liberties == {"delete", "end"}

Proc == Session \cup Routine
NetClient == UdpClient \cup TcpClient      \* those with an event of their own
Client == NetClient \cup DnsClient
Object == Proc \cup Client

ASSUME ObjectsAssumption ==
    /\ Session \cap Routine = {} /\ UdpClient \cap TcpClient = {}
    /\ NetClient \cap DnsClient = {} /\ Proc \cap Client = {} /\ None \notin Object
ASSUME UsageAssumption == Usage \subseteq Liberties

VARIABLES
    live,     \* allocated objects, but for the server
    control,  \* _events_under_control, pointers
    chain,    \* _client_chain of each procedure
    owner,    \* _owner_server of each UDP or TCP client
    inner,    \* _udp_client of each DNS client
    co,       \* each procedure's coroutine
    pending,  \* objects whose event is added
    cb,       \* the object whose callback is on the stack
    running,  \* the procedure whose coroutine runs
    server,   \* the sessions' server: "serving", "ended" or "deleted"
    map,      \* sessions the server's map points to
    outlived, \* addresses it points to although the session it means is gone
    base,     \* the Base: "alive" or "freed"
    \* history variables
    untold,   \* addresses whose object was deleted and the base not told
    sawn,     \* the worker has deleted the client whose callback is on the stack
    touched,  \* objects the last step used after they had been freed
    doubled   \* objects the last step deleted, or that a destructor in it did,
              \* after they had been deleted

heap == <<live, control, chain, owner, inner>>
serverVars == <<server, map, outlived>>
misuse == <<touched, doubled>>
vars == <<heap, co, pending, cb, running, serverVars, base, untold, sawn, misuse>>

TypeOK ==
    /\ live \subseteq Object /\ control \subseteq Object
    /\ chain \in [Proc -> SUBSET Client]
    /\ owner \in [NetClient -> Proc \cup {None}]
    /\ inner \in [DnsClient -> UdpClient \cup {None}]
    /\ co \in [Proc -> {"none", "suspended", "running", "ended"}]
    /\ pending \subseteq Proc \cup NetClient
    /\ cb \in Proc \cup NetClient \cup {None}
    /\ running \in Proc \cup {None}
    /\ server \in {"serving", "ended", "deleted"}
    /\ map \subseteq Session /\ outlived \subseteq Session
    /\ base \in {"alive", "freed"}
    /\ untold \subseteq Object /\ sawn \in BOOLEAN
    /\ touched \subseteq Object /\ doubled \subseteq Object

Init ==
    /\ live = {} /\ control = {} /\ pending = {}
    /\ chain = [p \in Proc |-> {}]
    /\ owner = [c \in NetClient |-> None]
    /\ inner = [c \in DnsClient |-> None]
    /\ co = [p \in Proc |-> "none"]
    /\ cb = None /\ running = None /\ base = "alive"
    /\ server = "serving" /\ map = {} /\ outlived = {}
    /\ untold = {} /\ sawn = FALSE /\ touched = {} /\ doubled = {}

NoMisuse == touched' = {} /\ doubled' = {}

LoopRuns == base = "alive" /\ cb = None

-----------------------------------------------------------------------------
(* Deleting objects.                                                       *)

\* ~DNSItnlClient deletes the UDP client inside.
WithInner(c) == {c} \cup (IF c \in DnsClient THEN {inner[c]} ELSE {})

Destroyed_LeavesClients(o) == IF o \in Proc THEN {o} ELSE WithInner(o)

\* Everything whose destructor runs when o is deleted: ~Procedure has the
\* base delete every client in its chain.
Destroyed(o) ==
    IF o \in Proc THEN {o} \cup UNION {WithInner(c) : c \in chain[o]}
    ELSE WithInner(o)

\* The UDP clients inside DNS clients: the base has pointers to them, and
\* ~DNSItnlClient does not tell it.
Insides(objects) == {inner[d] : d \in objects \cap DnsClient}

DelEvents_Forgotten(objects) == pending

\* Every destructor calls event_del().
DelEvents(objects) == pending \ objects

\* delete o, where the base forgets the pointers in forgotten.
DeleteObject(o, forgotten) ==
    /\ live' = live \ Destroyed(o)
    /\ control' = control \ forgotten
    /\ untold' = untold \cup Insides(Destroyed(o))

DeleteUnderControl_KeepsPointer(o) == DeleteObject(o, {})

\* Base::delete_event_under_control(o): o, and the clients its destructor
\* hands to the base.
DeleteUnderControl(o) ==
    DeleteObject(o, {o} \cup (IF o \in Proc THEN chain[o] ELSE {}))

-----------------------------------------------------------------------------
(* The server.                                                             *)

\* The server creates a session: init() adds its event with a zero timer and
\* puts it under control, and the server enters it in its map.
StartSession(s) ==
    /\ LoopRuns /\ server = "serving" /\ s \notin live
    /\ live' = live \cup {s} /\ control' = control \cup {s} /\ untold' = untold \ {s}
    /\ map' = map \cup {s}
    /\ chain' = [chain EXCEPT ![s] = {}]
    /\ co' = [co EXCEPT ![s] = "suspended"]
    /\ pending' = pending \cup {s}
    /\ NoMisuse
    /\ UNCHANGED <<owner, inner, cb, running, server, outlived, base, sawn>>

\* The server's coroutine forwards a datagram to a session in its map.
ForwardTo(s) ==
    /\ LoopRuns /\ server = "serving" /\ s \in map \cup outlived
    /\ touched' = {s} \ live /\ doubled' = {}
    /\ UNCHANGED <<heap, co, pending, cb, running, serverVars, base, untold, sawn>>

\* The server's coroutine ends, by a quit.
EndServer ==
    /\ LoopRuns /\ server = "serving"
    /\ server' = "ended"
    /\ NoMisuse
    /\ UNCHANGED <<heap, co, pending, cb, running, map, outlived, base, untold, sawn>>

\* ~UDPServer, from the callback that sees the coroutine end or wherever the
\* program deletes its server: it deletes what its map points to, and the base
\* keeps the pointers to the sessions, though not those to their clients.
DeleteServer ==
    /\ base = "alive" /\ server # "deleted" /\ running \notin Session
    /\ LET sessions == map \cup outlived
           gone     == UNION {Destroyed(s) : s \in sessions}
       IN  /\ live' = live \ gone
           /\ control' = control \ UNION {chain[s] : s \in sessions}
           /\ untold' = untold \cup (sessions \cap live) \cup Insides(gone)
           /\ pending' = DelEvents(gone)
           /\ chain' = [p \in Proc |-> IF p \in sessions THEN {} ELSE chain[p]]
           /\ co' = [p \in Proc |-> IF p \in sessions THEN "none" ELSE co[p]]
           /\ doubled' = (sessions \ live) \cup (map \cap outlived)
    /\ server' = "deleted" /\ map' = {} /\ outlived' = {}
    /\ touched' = {}
    /\ UNCHANGED <<owner, inner, cb, running, base, sawn>>

-----------------------------------------------------------------------------
(* Sub routines, and the loop.                                             *)

\* SubRoutine::init(), with or without auto_free, by anyone.
StartRoutine(r, autoFree) ==
    /\ base = "alive" /\ r \notin live
    /\ live' = live \cup {r} /\ untold' = untold \ {r}
    /\ control' = IF autoFree THEN control \cup {r} ELSE control
    /\ chain' = [chain EXCEPT ![r] = {}]
    /\ co' = [co EXCEPT ![r] = "suspended"]
    /\ pending' = pending \cup {r}
    /\ NoMisuse
    /\ UNCHANGED <<owner, inner, cb, running, serverVars, base, sawn>>

\* The program deletes a sub routine of its own, wherever that one waits.
DeleteRoutine(r) ==
    /\ base = "alive" /\ r \in live \ control /\ co[r] # "running"
    /\ DeleteObject(r, chain[r])
    /\ pending' = DelEvents(Destroyed(r))
    /\ chain' = [chain EXCEPT ![r] = {}]
    /\ co' = [co EXCEPT ![r] = "none"]
    /\ NoMisuse
    /\ UNCHANGED <<owner, inner, cb, running, serverVars, base, sawn>>

Resumed_NotOwner(o) == o

\* The coroutine an object's callback resumes: its own or its owner's.
Resumed(o) == IF o \in Proc THEN o ELSE owner[o]

\* An event becomes active; its callback resumes the coroutine.
Dispatch(o) ==
    /\ LoopRuns /\ o \in pending
    /\ pending' = pending \ {o}
    /\ cb' = o /\ running' = Resumed(o)
    /\ co' = [co EXCEPT ![Resumed(o)] = "running"]
    /\ NoMisuse
    /\ UNCHANGED <<heap, serverVars, base, untold, sawn>>

-----------------------------------------------------------------------------
(* What a running worker does.                                             *)

\* new_UDP_client() and new_TCP_client(): the client's init() puts it under
\* control once it has a socket; before, a failure leaves nothing behind.
NewNetClient(c) ==
    /\ running # None /\ c \notin live
    /\ live' = live \cup {c} /\ control' = control \cup {c} /\ untold' = untold \ {c}
    /\ owner' = [owner EXCEPT ![c] = running]
    /\ chain' = [chain EXCEPT ![running] = @ \cup {c}]
    /\ NoMisuse
    /\ UNCHANGED <<inner, co, pending, cb, running, serverVars, base, sawn>>

\* new_DNS_client(): both the client and the UDP client inside it are put
\* under control, only the former is chained.
NewDnsClient(c, u) ==
    /\ running # None /\ c \notin live /\ u \notin live
    /\ live' = live \cup {c, u} /\ control' = control \cup {c, u}
    /\ untold' = untold \ {c, u}
    /\ inner' = [inner EXCEPT ![c] = u]
    /\ owner' = [owner EXCEPT ![u] = running]
    /\ chain' = [chain EXCEPT ![running] = @ \cup {c}]
    /\ NoMisuse
    /\ UNCHANGED <<co, pending, cb, running, serverVars, base, sawn>>

\* No socket for the UDP client inside: new_DNS_client() deletes the client,
\* which is under control by then, and returns NULL.
NewDnsClientFails(c) ==
    /\ running # None /\ c \notin live
    /\ control' = control \cup {c} /\ untold' = untold \cup {c}
    /\ NoMisuse
    /\ UNCHANGED <<live, chain, owner, inner, co, pending, cb, running, serverVars,
                   base, sawn>>

\* delete_client() of a client in the chain of the running procedure.
DeleteClient(c) ==
    /\ running # None /\ c \in chain[running]
    /\ "delete" \notin Usage => cb \notin WithInner(c)
    /\ DeleteUnderControl(c)
    /\ pending' = DelEvents(Destroyed(c))
    /\ chain' = [chain EXCEPT ![running] = @ \ {c}]
    /\ sawn' = (sawn \/ cb \in WithInner(c))
    /\ NoMisuse
    /\ UNCHANGED <<owner, inner, co, cb, running, serverVars, base>>

\* What a coroutine can wait on: the procedure's own event, that of a UDP or a
\* TCP client, or that of the UDP client inside a DNS client.
Waitable == {running} \cup
    {IF c \in DnsClient THEN inner[c] ELSE c : c \in chain[running]}

AddEvent_KeepsOwn(o) == pending \cup {o, running}

AddEvent(o) == pending \cup {o}

\* The callback goes on after co_resume(): it reads the coroutine from the
\* argument, which is freed with the object.
BackInCallback ==
    /\ touched' = {cb} \ live /\ doubled' = {}
    /\ cb' = None /\ running' = None /\ sawn' = FALSE

\* recv, sleep or resolve: event_add() and co_yield().
Wait(o) ==
    /\ running # None /\ o \in Waitable
    /\ pending' = AddEvent(o)
    /\ co' = [co EXCEPT ![running] = "suspended"]
    /\ BackInCallback
    /\ UNCHANGED <<heap, serverVars, base, untold>>

\* The callback of the session itself tells the server; that of a client of the
\* session's does not, and the server's map goes on pointing to it.
NotifySessionEnds ==
    /\ map' = map \ {running}
    /\ outlived' = IF running \in Session /\ cb # running THEN outlived \cup {running}
                   ELSE outlived

\* The worker returns: the callback, the procedure's or a client's, has the
\* base delete the procedure if that is under control.
Return ==
    /\ running # None
    /\ running \in Session /\ "end" \notin Usage => cb = running
    /\ NotifySessionEnds
    /\ IF running \in control
       THEN /\ DeleteUnderControl(running)
            /\ pending' = DelEvents(Destroyed(running))
            /\ chain' = [chain EXCEPT ![running] = {}]
            /\ co' = [co EXCEPT ![running] = "none"]
       ELSE /\ co' = [co EXCEPT ![running] = "ended"]
            /\ UNCHANGED <<live, control, pending, chain, untold>>
    /\ BackInCallback
    /\ UNCHANGED <<owner, inner, server, base>>

\* run() returns when no event is left, and the program deletes the base,
\* which deletes every object it still has a pointer to: a UDP client inside a
\* DNS client both with that and for itself.
DeleteBase ==
    /\ LoopRuns /\ pending = {} /\ server # "serving"
    /\ base' = "freed" /\ control' = {}
    /\ LET gone  == UNION {Destroyed(o) : o \in control \cap live}
           twice == control \cap Insides(control \cap live)
       IN  /\ live' = live \ gone
           /\ doubled' = (control \ live) \cup twice
           /\ untold' = untold \cup Insides(gone)
    /\ touched' = {}
    /\ UNCHANGED <<chain, owner, inner, co, pending, cb, running, serverVars, sawn>>

Next ==
    \/ \E s \in Session : StartSession(s) \/ ForwardTo(s)
    \/ EndServer \/ DeleteServer
    \/ \E r \in Routine : DeleteRoutine(r)
    \/ \E r \in Routine, autoFree \in BOOLEAN : StartRoutine(r, autoFree)
    \/ \E o \in Proc \cup NetClient : Dispatch(o) \/ Wait(o)
    \/ \E c \in NetClient : NewNetClient(c)
    \/ \E c \in DnsClient : NewDnsClientFails(c)
    \/ \E c \in DnsClient, u \in UdpClient : NewDnsClient(c, u)
    \/ \E c \in Client : DeleteClient(c)
    \/ Return
    \/ DeleteBase

Spec == Init /\ [][Next]_vars

-----------------------------------------------------------------------------
(* Properties.                                                             *)

Inside(p) == UNION {WithInner(c) : c \in chain[p]}

\* Every coroutine that waits has exactly one event to be resumed by, its
\* own or a client's, and one that runs or has ended has none: no coroutine is
\* resumed in a call it is not in.
OneWakeup == base = "alive" => \A p \in Proc :
    Cardinality(pending \cap ({p} \cup Inside(p))) =
        IF co[p] = "suspended" THEN 1 ELSE 0

\* No client outlives the procedure whose coroutine its callback resumes, and
\* no client belongs to two: deletions of clients, of DNS clients and of
\* procedures, whatever callback they come from, keep the trees of owners.
\* And the base has a pointer to all but the sub routines the program deletes
\* itself: nothing leaks when the base is deleted.
ClientsAreOwned ==
    /\ \A c \in live \cap Client :
          Cardinality({p \in live \cap Proc : c \in Inside(p)}) = 1
    /\ base = "alive" => live \ control \subseteq Routine

\* A callback uses an object after it was freed only if the worker it resumed
\* deleted the client the callback is of, and the server only if the session's
\* end was not told to it.  No event of a freed object stays in the loop.
UsesAreKnown ==
    [][touched' \subseteq outlived \cup (IF sawn THEN {cb} ELSE {})]_vars

\* An object is deleted twice only if the base was not told of the first time:
\* by ~UDPServer of a session, by ~DNSItnlClient of the UDP client inside, by
\* new_DNS_client() of a client it gives up; or if its session's end was not
\* told to the server.  delete_client() and the ends of procedures leave none.
DoublesAreKnown == [][doubled' \subseteq untold' \cup outlived]_vars

\* No callback, and no server, uses an object after it was freed.
NoUseAfterFree == touched = {}
=============================================================================
