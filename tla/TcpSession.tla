------------------------------ MODULE TcpSession ------------------------------
(***************************************************************************)
(* One TCP session (coevent_tcp_session.cpp): a coroutine that serves one  *)
(* accepted connection with recv, sleep and disconnect.                    *)
(*                                                                         *)
(* The flags of the last callback stay in *_libevent_what_storage, and     *)
(* recv trusts them: with EV_READ among them it reads without waiting.     *)
(* An operator named X_... is X with a plausible slip; no specification    *)
(* uses it.                                                                *)
(***************************************************************************)
EXTENDS Naturals

CONSTANTS
    Limits,     \* values of recv's len_limit
    MaxBytes    \* bound: bytes the peer sends

ASSUME LimitsAssumption == Limits \subseteq Nat \ {0}
ASSUME BoundAssumption == MaxBytes \in Nat

VARIABLES
    pc,      \* where the session's coroutine is
    ev,      \* the session's libevent event
    timed,   \* that event has a timer that can run out
    watch,   \* what the event watches: "socket" or "nothing"
    what,    \* *_libevent_what_storage
    fd,      \* the connection's descriptor: "open" or "closed"
    rx,      \* bytes in the socket's receive buffer
    peer,    \* what the peer did: "open", "closed", "reset"; "gone" once a
             \* reset was reported
    limit,   \* len_limit of the recv in progress or last done
    ret,     \* what the last call returned
    \* history variables: they only record
    sent,    \* bytes the peer sent
    got      \* bytes recv returned

sockVars == <<fd, rx, peer>>
histVars == <<sent, got>>
vars == <<pc, ev, timed, watch, what, sockVars, limit, ret, histVars>>

Errors == {"NONE", "OK", "TIMEOUT", "INTERRUPTED_SLEEP", "UNKNOWN",
           "NOT_CONNECTED", "EAGAIN", "ECONNRESET"}

TypeOK ==
    /\ pc \in {"created", "running", "recv", "sleep", "ended"}
    /\ ev \in {"none", "pending", "readable", "expired"}
    /\ timed \in BOOLEAN
    /\ watch \in {"socket", "nothing"}
    /\ what \subseteq {"READ", "TIMEOUT"}
    /\ fd \in {"open", "closed"}
    /\ rx \in 0 .. MaxBytes
    /\ peer \in {"open", "closed", "reset", "gone"}
    /\ limit \in Nat
    /\ ret \in [err : Errors, len : Nat]
    /\ sent \in 0 .. MaxBytes /\ got \in 0 .. MaxBytes

\* init(): the event is added with a zero timer.
Init ==
    /\ pc = "created" /\ ev = "pending" /\ timed = TRUE
    /\ watch = "socket" /\ what = {}
    /\ fd = "open" /\ rx = 0 /\ peer = "open"
    /\ limit = 0 /\ ret = [err |-> "NONE", len |-> 0]
    /\ sent = 0 /\ got = 0

\* A read would not block.
Ready == rx > 0 \/ peer # "open"

-----------------------------------------------------------------------------
(* The peer, which runs concurrently with everything.                      *)

PeerSends(n) ==
    /\ fd = "open" /\ peer = "open" /\ sent + n <= MaxBytes
    /\ sent' = sent + n /\ rx' = rx + n
    /\ UNCHANGED <<pc, ev, timed, watch, what, fd, peer, limit, ret, got>>

PeerCloses ==
    /\ fd = "open" /\ peer = "open"
    /\ peer' = "closed"
    /\ UNCHANGED <<pc, ev, timed, watch, what, fd, rx, limit, ret, histVars>>

\* A reset discards what has not been read.
PeerResets ==
    /\ fd = "open" /\ peer \in {"open", "closed"}
    /\ peer' = "reset" /\ rx' = 0
    /\ UNCHANGED <<pc, ev, timed, watch, what, fd, limit, ret, histVars>>

-----------------------------------------------------------------------------
(* libevent.                                                               *)

\* The descriptor the event watches is readable.  Were it still watched after
\* disconnect() closed it, its number could be that of another connection.
EventReadable ==
    /\ ev = "pending" /\ pc # "created"
    /\ watch = "socket" /\ (fd = "open" => Ready)
    /\ ev' = "readable"
    /\ UNCHANGED <<pc, timed, watch, what, sockVars, limit, ret, histVars>>

\* A due timer takes the event over: EV_TIMEOUT alone.
TimerExpires ==
    /\ ev \in {"pending", "readable"} /\ timed
    /\ ev' = "expired"
    /\ UNCHANGED <<pc, timed, watch, what, sockVars, limit, ret, histVars>>

-----------------------------------------------------------------------------
(* The session's calls.                                                    *)

Return(err, n) == ret' = [err |-> err, len |-> n]

ReadSome_BeyondData(lim) ==
    /\ rx > 0
    /\ rx' = rx - lim /\ got' = got + lim
    /\ Return("OK", lim)
    /\ UNCHANGED peer

ReadSome_DropsRest(lim) ==
    LET n == IF lim < rx THEN lim ELSE rx
    IN  /\ rx > 0
        /\ rx' = 0 /\ got' = got + n
        /\ Return("OK", n)
        /\ UNCHANGED peer

\* read(): the outcomes in the order in which the kernel prefers them.
ReadSome(lim) ==
    LET n == IF lim < rx THEN lim ELSE rx
    IN  /\ rx > 0
        /\ rx' = rx - n /\ got' = got + n
        /\ Return("OK", n)
        /\ UNCHANGED peer

ReadReset ==
    /\ rx = 0 /\ peer = "reset"
    /\ peer' = "gone"
    /\ Return("ECONNRESET", 0)
    /\ UNCHANGED <<rx, got>>

AtEnd == rx = 0 /\ peer \in {"closed", "gone"}

WouldBlock == rx = 0 /\ peer = "open"

Yield_Untimed(where, finite) ==
    /\ pc' = where /\ ev' = "pending" /\ timed' = FALSE

\* event_add() and co_yield().
Yield(where, finite) ==
    /\ pc' = where /\ ev' = "pending" /\ timed' = finite

RecvClosed ==
    /\ pc = "running" /\ fd = "closed"
    /\ Return("NOT_CONNECTED", 0)
    /\ UNCHANGED <<pc, ev, timed, watch, what, sockVars, limit, histVars>>

\* EV_READ is left from an earlier callback: read at once.  That the socket
\* has been drained meanwhile is reported as an error, and the flag stays.
RecvAtOnce(lim) ==
    /\ pc = "running" /\ fd = "open" /\ "READ" \in what
    /\ \/ ReadSome(lim)
       \/ ReadReset
       \/ WouldBlock /\ Return("EAGAIN", 0) /\ UNCHANGED <<rx, peer, got>>
    /\ limit' = lim
    /\ UNCHANGED <<pc, ev, timed, watch, what, fd, sent>>

\* No EV_READ, or a read of zero bytes, which the code takes for EAGAIN and
\* which is the end of the stream: wait.
RecvWaits(lim, finite) ==
    /\ pc = "running" /\ fd = "open"
    /\ "READ" \in what => AtEnd
    /\ what' = {}
    /\ limit' = lim
    /\ Yield("recv", finite)
    /\ UNCHANGED <<watch, sockVars, ret, histVars>>

Sleep ==
    /\ pc = "running"
    /\ Yield("sleep", TRUE)
    /\ UNCHANGED <<watch, what, sockVars, limit, ret, histVars>>

Disconnect_KeepsWatching ==
    /\ pc = "running" /\ fd = "open"
    /\ fd' = "closed" /\ rx' = 0
    /\ Return("OK", 0)
    /\ UNCHANGED <<pc, ev, timed, watch, what, peer, limit, sent, got>>

\* disconnect(): close the descriptor and assign the event to none.
Disconnect ==
    /\ pc = "running" /\ fd = "open"
    /\ fd' = "closed" /\ rx' = 0 /\ watch' = "nothing"
    /\ Return("OK", 0)
    /\ UNCHANGED <<pc, ev, timed, what, peer, limit, sent, got>>

\* The worker returns: the callback has the session deleted.
WorkerReturns ==
    /\ pc = "running"
    /\ pc' = "ended" /\ fd' = "closed" /\ rx' = 0 /\ what' = {}
    /\ UNCHANGED <<ev, timed, watch, peer, limit, ret, histVars>>

-----------------------------------------------------------------------------
(* _libevent_callback, which resumes the coroutine in the call it is in.   *)

Flags == IF ev = "readable" THEN {"READ"} ELSE {"TIMEOUT"}

Resume ==
    /\ ev \in {"readable", "expired"}
    /\ what' = Flags
    /\ pc' = "running" /\ ev' = "none" /\ timed' = FALSE

CallbackStarts ==
    /\ pc = "created" /\ Resume
    /\ UNCHANGED <<watch, sockVars, limit, ret, histVars>>

CallbackEndsRecv_ErrorsAsEnd ==
    /\ pc = "recv" /\ Resume
    /\ IF "TIMEOUT" \in what'
       THEN Return("TIMEOUT", 0) /\ UNCHANGED <<rx, peer, got>>
       ELSE \/ ReadSome(limit)
            \/ rx = 0 /\ Return("OK", 0) /\ UNCHANGED <<rx, peer, got>>
    /\ UNCHANGED <<watch, fd, limit, sent>>

\* The rest of recv after its co_yield(): here zero bytes are a success.
CallbackEndsRecv ==
    /\ pc = "recv" /\ Resume
    /\ \/ /\ "TIMEOUT" \in what'
          /\ Return("TIMEOUT", 0) /\ UNCHANGED <<rx, peer, got>>
       \/ "TIMEOUT" \notin what' /\ (ReadSome(limit) \/ ReadReset)
       \/ /\ "TIMEOUT" \notin what' /\ (AtEnd \/ WouldBlock)
          /\ Return(IF AtEnd THEN "OK" ELSE "EAGAIN", 0)
          /\ UNCHANGED <<rx, peer, got>>
    /\ UNCHANGED <<watch, fd, limit, sent>>

CallbackEndsSleep ==
    /\ pc = "sleep" /\ Resume
    /\ Return(IF "TIMEOUT" \in what' THEN "OK" ELSE "INTERRUPTED_SLEEP", 0)
    /\ UNCHANGED <<watch, sockVars, limit, histVars>>

Callback == CallbackStarts \/ CallbackEndsRecv \/ CallbackEndsSleep

Next ==
    \/ \E n \in 1 .. MaxBytes : PeerSends(n)
    \/ PeerCloses \/ PeerResets
    \/ EventReadable \/ TimerExpires
    \/ CallbackStarts \/ CallbackEndsRecv \/ CallbackEndsSleep
    \/ RecvClosed
    \/ \E lim \in Limits : RecvAtOnce(lim)
    \/ \E lim \in Limits, finite \in BOOLEAN : RecvWaits(lim, finite)
    \/ Sleep \/ Disconnect \/ WorkerReturns

\* The loop keeps polling, a timer that was set runs out, and what is active
\* is called back.  Nothing is assumed of the peer or of the worker.
Fairness ==
    /\ WF_vars(EventReadable) /\ WF_vars(TimerExpires) /\ WF_vars(Callback)

Spec == Init /\ [][Next]_vars /\ Fairness

-----------------------------------------------------------------------------
(* Properties.                                                             *)

\* While the connection stands every byte the peer sent has been returned by
\* recv once or waits in the socket, however calls, timeouts and stale flags
\* alternate.
NoByteLost == fd = "open" /\ peer \in {"open", "closed"} => got + rx = sent

\* A recv that waited reports success without data only at the end of the
\* stream.
EmptyMeansEnd ==
    [][pc = "recv" /\ pc' = "running" /\ ret'.err = "OK" /\ ret'.len = 0
          => AtEnd]_vars

\* A sleep is cut short only by something for recv to report; so never after
\* disconnect(), though the flags of an earlier callback may still say EV_READ.
InterruptionMeansReady ==
    pc = "running" /\ ret.err = "INTERRUPTED_SLEEP" => fd = "open" /\ Ready

\* recv returns once there is something to return, data, an end or a reset, so
\* the two successive waits at the end of a stream cost no time; and a sleep
\* ends, also after disconnect().
WaitsEnd == (pc = "recv" /\ Ready) \/ pc = "sleep" ~> pc = "running"
=============================================================================
