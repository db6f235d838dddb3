------------------------------ MODULE TcpClient ------------------------------
(***************************************************************************)
(* A TCP client (coevent_tcp_client.cpp): connect_in_timeval() starts a    *)
(* non-blocking connect, waits in libevent for the socket and asks it for  *)
(* its error.                                                              *)
(*                                                                         *)
(* A connect that ran out of time goes on in the kernel.  The next call of *)
(* connect on the same socket learns what has become of it, and only the   *)
(* call after a failure was reported starts anew.  The socket is modelled  *)
(* from how Linux treats these calls.                                      *)
(*                                                                         *)
(* An operator named X_... is X with a plausible slip; no specification    *)
(* uses it.                                                                *)
(***************************************************************************)
EXTENDS Naturals

CONSTANTS
    MaxInit,    \* bound: times the program calls init
    MaxResets   \* bound: connections the peer resets

ASSUME BoundsAssumption == MaxInit \in Nat /\ MaxResets \in Nat

VARIABLES
    pc,         \* the coroutine: "running", or "connect" where it has yielded
    fd,         \* _fd: "none" (0 or less) or "open"
    connected,  \* _is_connected
    ev,         \* the client's libevent event
    timed,      \* that event has a timer that can run out
    watch,      \* conditions the event was created or assigned for
    what,       \* *_libevent_what_storage
    status,     \* _status, which every call returns
    \* the socket, in the kernel
    attempt,    \* the socket layer: "unconnected", "connecting", "connected"
    tcp,        \* the TCP layer: "closed", "syn", "established", "finished"
    soError,    \* SO_ERROR
    peer,       \* how the peer answers: "accepting", "refusing", or not at
                \* all, being "unreachable"
    resets,     \* connections reset so far
    inits,      \* calls of init so far
    \* history variable: it only records
    accepted    \* the peer has accepted the attempt last begun

sockVars == <<attempt, tcp, soError>>
vars == <<pc, fd, connected, ev, timed, watch, what, status, sockVars,
          peer, resets, inits, accepted>>

SysErrors == {"ECONNREFUSED", "ECONNRESET", "ECONNABORTED", "EALREADY", "EISCONN",
              "ENETUNREACH", "EADDRNOTAVAIL"}
Errors == {"OK", "TIMEOUT", "UNKNOWN", "NOT_INITIALIZED", "ALREADY_CONNECTED",
           "NOT_CONNECTED", "PARA_ILLEGAL", "NETWORK_TYPE_ILLEGAL"}

TypeOK ==
    /\ pc \in {"running", "connect"}
    /\ fd \in {"none", "open"}
    /\ connected \in BOOLEAN /\ timed \in BOOLEAN /\ accepted \in BOOLEAN
    /\ peer \in {"accepting", "refusing", "unreachable"}
    /\ ev \in {"none", "pending", "ready", "expired"}
    /\ watch \subseteq {"READ", "WRITE"}
    /\ what \subseteq {"READ", "WRITE", "TIMEOUT"}
    /\ status \in Errors \cup SysErrors
    /\ attempt \in {"unconnected", "connecting", "connected"}
    /\ tcp \in {"closed", "syn", "established", "finished"}
    /\ soError \in {"none"} \cup SysErrors
    /\ resets \in 0 .. MaxResets /\ inits \in 0 .. MaxInit

Init ==
    /\ pc = "running" /\ fd = "none" /\ connected = FALSE
    /\ ev = "none" /\ timed = FALSE /\ watch = {} /\ what = {}
    /\ status = "OK"
    /\ attempt = "unconnected" /\ tcp = "closed" /\ soError = "none"
    /\ peer \in {"accepting", "refusing", "unreachable"}
    /\ resets = 0 /\ inits = 0 /\ accepted = FALSE

-----------------------------------------------------------------------------
(* init().                                                                 *)

\* _clear(): the event is deleted, the descriptor closed; the socket is gone.
Clear ==
    /\ connected' = FALSE /\ ev' = "none" /\ timed' = FALSE /\ accepted' = FALSE
    /\ attempt' = "unconnected" /\ tcp' = "closed" /\ soError' = "none"

\* A client that is initialised again starts from nothing.
InitClient ==
    /\ pc = "running" /\ inits < MaxInit
    /\ inits' = inits + 1
    /\ Clear
    /\ fd' = "open" /\ watch' = {"READ"} /\ status' = "OK"
    /\ UNCHANGED <<pc, what, peer, resets>>

\* A network type that does not exist, or a system call that fails: the old
\* socket is closed all the same.
InitFails ==
    /\ pc = "running" /\ inits < MaxInit
    /\ inits' = inits + 1
    /\ Clear
    /\ fd' = "none" /\ watch' = {}
    /\ status' \in {"NETWORK_TYPE_ILLEGAL", "EADDRNOTAVAIL"}
    /\ UNCHANGED <<pc, what, peer, resets>>

-----------------------------------------------------------------------------
(* connect(2) of a non-blocking socket.                                    *)

Kernel(result, layer, state, error) ==
    [result |-> result, attempt |-> layer, tcp |-> state, soError |-> error]

\* A new attempt is under way, cannot be made, or (with a peer on the same
\* host) succeeds at once.
Begin ==
    IF peer = "unreachable" THEN {Kernel("ENETUNREACH", "unconnected", "closed", "none")}
    ELSE {Kernel("EINPROGRESS", "connecting", "syn", "none")}
         \cup IF peer = "accepting"
              THEN {Kernel("OK", "connected", "established", "none")} ELSE {}

\* An attempt that was left is reported: it goes on, has succeeded, or has
\* failed; the failure is named by SO_ERROR unless that was read before.
Report ==
    IF tcp = "syn" THEN Kernel("EALREADY", attempt, tcp, soError)
    ELSE IF tcp = "closed"
    THEN Kernel(IF soError = "none" THEN "ECONNABORTED" ELSE soError,
                "unconnected", "closed", "none")
    ELSE Kernel("OK", "connected", tcp, soError)

connect ==
    IF attempt = "unconnected" THEN Begin
    ELSE IF attempt = "connecting" THEN {Report}
    ELSE {Kernel("EISCONN", attempt, tcp, soError)}

-----------------------------------------------------------------------------
(* connect_in_timeval().                                                   *)

\* The checks at its head, and that of recv_in_timeval(), of which there is no
\* more.
CallRefused(error) ==
    /\ pc = "running"
    /\ \/ error \in {"PARA_ILLEGAL", "NETWORK_TYPE_ILLEGAL"}
       \/ error = "NOT_INITIALIZED" /\ fd = "none"
       \/ error = "ALREADY_CONNECTED" /\ connected
       \/ error = "NOT_CONNECTED" /\ ~connected
    /\ status' = error
    /\ UNCHANGED <<pc, fd, connected, ev, timed, watch, what, sockVars,
                   peer, resets, inits, accepted>>

Finish_AfterWaitOnly(result) ==
    /\ status' = result
    /\ connected' = (connected \/ (result = "OK" /\ pc = "connect"))

\* "if (_status.is_ok())"
Finish(result) ==
    /\ status' = result
    /\ connected' = (connected \/ result = "OK")

Wait_ForDataOnly(finite) ==
    /\ pc' = "connect" /\ ev' = "pending" /\ timed' = finite
    /\ watch' = {"READ"}

\* event_assign(), event_add() and co_yield().
Wait(finite) ==
    /\ pc' = "connect" /\ ev' = "pending" /\ timed' = finite
    /\ watch' = {"READ", "WRITE"}

\* connect() is called and either gives the result or leads into libevent.  A
\* timeout of 0, and the uninitialised one that connect_to_server() passes on
\* for 0 seconds or less, may be forever.
Connect(finite) ==
    /\ pc = "running" /\ fd = "open" /\ ~connected
    /\ \E k \in connect :
          /\ attempt' = k.attempt /\ tcp' = k.tcp /\ soError' = k.soError
          /\ accepted' = IF attempt = "unconnected" THEN k.result = "OK" ELSE accepted
          /\ \/ /\ k.result = "EINPROGRESS"
                /\ Wait(finite)
                /\ UNCHANGED <<connected, status>>
             \/ /\ k.result # "EINPROGRESS"
                /\ Finish(k.result)
                /\ UNCHANGED <<pc, ev, timed, watch>>
    /\ UNCHANGED <<fd, what, peer, resets, inits>>

-----------------------------------------------------------------------------
(* libevent and the callback.                                              *)

\* poll() finds a socket writable once it is connected, readable as well once
\* the peer has finished, and both when the attempt has failed.
Conditions ==
    watch \cap IF tcp = "syn" THEN {}
               ELSE IF tcp = "established" THEN {"WRITE"} ELSE {"READ", "WRITE"}

EventReady ==
    /\ ev = "pending" /\ Conditions # {}
    /\ ev' = "ready"
    /\ UNCHANGED <<pc, fd, connected, timed, watch, what, status, sockVars,
                   peer, resets, inits, accepted>>

\* A due timer takes the event over: EV_TIMEOUT alone.
TimerExpires ==
    /\ ev \in {"pending", "ready"} /\ timed
    /\ ev' = "expired"
    /\ UNCHANGED <<pc, fd, connected, timed, watch, what, status, sockVars,
                   peer, resets, inits, accepted>>

Outcome_NoZero == soError

\* getsockopt(SO_ERROR).
Outcome == IF soError = "none" THEN "OK" ELSE soError

Resume == pc' = "running" /\ ev' = "none" /\ timed' = FALSE

CallbackReady_Trusting ==
    /\ ev = "ready" /\ Resume
    /\ what' \in (SUBSET Conditions) \ {{}}
    /\ Finish("OK")
    /\ UNCHANGED <<fd, watch, sockVars, peer, resets, inits, accepted>>

\* The flags are the conditions that poll() found, of those that hold by now.
\* Reading SO_ERROR clears it.
CallbackReady ==
    /\ ev = "ready" /\ Resume
    /\ what' \in (SUBSET Conditions) \ {{}}
    /\ Finish(Outcome) /\ soError' = "none"
    /\ UNCHANGED <<fd, watch, attempt, tcp, peer, resets, inits, accepted>>

\* The attempt is left to the kernel.
CallbackTimeout ==
    /\ ev = "expired" /\ Resume
    /\ what' = {}
    /\ Finish("TIMEOUT")
    /\ UNCHANGED <<fd, watch, sockVars, peer, resets, inits, accepted>>

-----------------------------------------------------------------------------
(* The peer.                                                               *)

PeerChanges(p) ==
    /\ p # peer /\ peer' = p
    /\ UNCHANGED <<pc, fd, connected, ev, timed, watch, what, status, sockVars,
                   resets, inits, accepted>>

PeerAccepts ==
    /\ tcp = "syn" /\ peer = "accepting"
    /\ tcp' = "established" /\ accepted' = TRUE
    /\ UNCHANGED <<pc, fd, connected, ev, timed, watch, what, status, attempt,
                   soError, peer, resets, inits>>

PeerRefuses ==
    /\ tcp = "syn" /\ peer = "refusing"
    /\ tcp' = "closed" /\ soError' = "ECONNREFUSED"
    /\ UNCHANGED <<pc, fd, connected, ev, timed, watch, what, status, attempt,
                   peer, resets, inits, accepted>>

PeerFinishes ==
    /\ tcp = "established"
    /\ tcp' = "finished"
    /\ UNCHANGED <<pc, fd, connected, ev, timed, watch, what, status, attempt,
                   soError, peer, resets, inits, accepted>>

PeerResets ==
    /\ tcp \in {"established", "finished"} /\ resets < MaxResets
    /\ resets' = resets + 1
    /\ tcp' = "closed" /\ soError' = "ECONNRESET"
    /\ UNCHANGED <<pc, fd, connected, ev, timed, watch, what, status, attempt,
                   peer, inits, accepted>>

Loop == EventReady \/ TimerExpires \/ CallbackReady \/ CallbackTimeout

Next ==
    \/ InitClient \/ InitFails
    \/ \E error \in Errors : CallRefused(error)
    \/ \E finite \in BOOLEAN : Connect(finite)
    \/ Loop
    \/ \E p \in {"accepting", "refusing", "unreachable"} : PeerChanges(p)
    \/ PeerAccepts \/ PeerRefuses \/ PeerFinishes \/ PeerResets

\* The loop polls, a timer that was set runs out, what is active is called
\* back, and a peer that keeps accepting gets to answer (the kernel repeats
\* its SYN).  Nothing is assumed of the program.
Fairness == WF_vars(Loop) /\ WF_vars(PeerAccepts)

Spec == Init /\ [][Next]_vars /\ Fairness

-----------------------------------------------------------------------------
(* Properties.                                                             *)

\* The client takes itself for connected only when the peer has accepted the
\* attempt last begun on its socket, however attempts, timeouts, refusals,
\* resets and repeated calls have followed each other.
ConnectedIsTrue == connected => fd = "open" /\ accepted

\* A connect that waits ends: when its time is up or, without a limit, when the
\* peer has answered in whatever way.
ConnectEnds ==
    (pc = "connect" /\ (timed \/ tcp # "syn")) ~> pc = "running"

\* A program that calls connect again and again is connected in the end,
\* provided that the peer accepts at last: no attempt that timed out, was
\* refused or reset, and no init(), leaves the client unable to connect.
RetryConnects ==
    (<>[](peer = "accepting") /\ []<><<\E finite \in BOOLEAN : Connect(finite)>>_vars)
        => []<>connected
=============================================================================
