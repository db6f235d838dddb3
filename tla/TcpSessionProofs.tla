--------------------------- MODULE TcpSessionProofs ---------------------------
(***************************************************************************)
(* Theorems about TcpSession, for every set of positive limits and every   *)
(* number of bytes.                                                        *)
(***************************************************************************)
EXTENDS TcpSession, TLAPS

\* What recv returned and what is left to read never exceed what was sent; as
\* long as neither a reset nor disconnect() discards anything they are equal.
BytesInv ==
    /\ got + rx <= sent
    /\ fd = "open" /\ peer \in {"open", "closed"} => got + rx = sent

\* The event is in the loop exactly while the coroutine is suspended, it
\* watches the descriptor exactly as long as that is open, and once it is
\* active for reading, a read will not block.
ControlInv ==
    /\ ev = "none" <=> pc \in {"running", "ended"}
    /\ pc # "ended" => (watch = "socket" <=> fd = "open")
    /\ ev = "readable" => pc \in {"recv", "sleep"} /\ fd = "open" /\ Ready
    /\ pc = "created" => ret.err = "NONE"
    /\ pc = "recv" => limit # 0

IInv == TypeOK /\ BytesInv /\ ControlInv /\ InterruptionMeansReady

\* The constants are what the assumptions say.
USE LimitsAssumption, BoundAssumption

-----------------------------------------------------------------------------
\* One read of the socket, successful or not, keeps the sum of what was
\* returned and what is left.
LEMMA ReadStep ==
    ASSUME TypeOK, BytesInv, NEW lim \in Nat, lim # 0,
           ReadSome(lim) \/ ReadReset \/ (UNCHANGED <<rx, peer, got>>)
    PROVE  /\ rx' \in 0 .. MaxBytes /\ got' \in 0 .. MaxBytes
           /\ got' + rx' = got + rx
           /\ peer' \in {"open", "closed", "reset", "gone"}
           /\ peer' \in {"open", "closed"} => peer' = peer
<1>1. CASE ReadSome(lim)
    <2>. DEFINE n == IF lim < rx THEN lim ELSE rx
    <2>1. n \in Nat /\ n <= rx /\ rx \in Nat /\ got \in Nat /\ sent \in Nat
        BY DEF TypeOK
    <2>2. rx' = rx - n /\ got' = got + n /\ peer' = peer
        BY <1>1 DEF ReadSome
    <2>. HIDE DEF n
    <2>. QED  BY <2>1, <2>2 DEF TypeOK, BytesInv
<1>2. CASE ReadReset
    BY <1>2 DEF ReadReset, TypeOK, BytesInv
<1>3. CASE UNCHANGED <<rx, peer, got>>
    BY <1>3 DEF TypeOK, BytesInv
<1>. QED  BY <1>1, <1>2, <1>3

\* What a successful read reports.
LEMMA ReadReports ==
    ASSUME TypeOK, NEW lim \in Nat, lim # 0, ReadSome(lim)
    PROVE  ret'.err = "OK" /\ ret'.len \in Nat /\ ret'.len # 0
           /\ ret' \in [err : Errors, len : Nat]
BY DEF ReadSome, Return, TypeOK, Errors

\* A fresh object satisfies the invariant.
LEMMA InitInv == Init => IInv
BY DEF Init, IInv, TypeOK, BytesInv, ControlInv, InterruptionMeansReady, Errors

-----------------------------------------------------------------------------
\* Every step, of the peer, of the loop or of the coroutine, keeps it.
LEMMA NextInv == IInv /\ [Next]_vars => IInv'
<1>. SUFFICES ASSUME IInv, [Next]_vars  PROVE IInv'
    OBVIOUS
<1>. USE DEF IInv, sockVars, histVars, Errors
<1>1. ASSUME NEW n \in 1 .. MaxBytes, PeerSends(n)  PROVE IInv'
    BY <1>1 DEF PeerSends, TypeOK, BytesInv, ControlInv, InterruptionMeansReady, Ready
<1>2. CASE PeerCloses
    BY <1>2 DEF PeerCloses, TypeOK, BytesInv, ControlInv, InterruptionMeansReady, Ready
<1>3. CASE PeerResets
    BY <1>3 DEF PeerResets, TypeOK, BytesInv, ControlInv, InterruptionMeansReady, Ready
<1>4. CASE EventReadable
    BY <1>4 DEF EventReadable, TypeOK, BytesInv, ControlInv, InterruptionMeansReady, Ready
<1>5. CASE TimerExpires
    BY <1>5 DEF TimerExpires, TypeOK, BytesInv, ControlInv, InterruptionMeansReady, Ready
<1>6. CASE CallbackStarts
    BY <1>6 DEF CallbackStarts, Resume, Flags, TypeOK, BytesInv, ControlInv,
                InterruptionMeansReady, Ready
<1>7. CASE CallbackEndsRecv
    <2>1. ret' \in [err : Errors, len : Nat] /\ ret'.err # "INTERRUPTED_SLEEP"
          /\ (ReadSome(limit) \/ ReadReset \/ UNCHANGED <<rx, peer, got>>)
        BY <1>7, ReadReports DEF CallbackEndsRecv, TypeOK, ControlInv, Return, ReadReset
    <2>2. pc = "recv" /\ pc' = "running" /\ ev' = "none" /\ timed' = FALSE
          /\ what' \subseteq {"READ", "TIMEOUT"}
          /\ UNCHANGED <<watch, fd, limit, sent>>
        BY <1>7 DEF CallbackEndsRecv, Resume, Flags
    <2>3. TypeOK' /\ BytesInv'
        BY <2>1, <2>2, ReadStep DEF TypeOK, BytesInv, ControlInv
    <2>. QED  BY <2>1, <2>2, <2>3 DEF ControlInv, InterruptionMeansReady
<1>8. CASE CallbackEndsSleep
    BY <1>8 DEF CallbackEndsSleep, Resume, Flags, Return, TypeOK, BytesInv,
                ControlInv, InterruptionMeansReady, Ready
<1>9. CASE RecvClosed
    BY <1>9 DEF RecvClosed, Return, TypeOK, BytesInv, ControlInv, InterruptionMeansReady
<1>10. ASSUME NEW lim \in Limits, RecvAtOnce(lim)  PROVE IInv'
    <2>0. lim \in Nat /\ lim # 0
        OBVIOUS
    <2>1. ret' \in [err : Errors, len : Nat] /\ ret'.err # "INTERRUPTED_SLEEP"
          /\ (ReadSome(lim) \/ ReadReset \/ UNCHANGED <<rx, peer, got>>)
        BY <1>10, <2>0, ReadReports DEF RecvAtOnce, Return, ReadReset
    <2>2. pc = "running" /\ limit' = lim /\ UNCHANGED <<pc, ev, timed, watch, what, fd, sent>>
        BY <1>10 DEF RecvAtOnce
    <2>3. TypeOK' /\ BytesInv'
        BY <2>0, <2>1, <2>2, ReadStep DEF TypeOK, BytesInv
    <2>. QED  BY <2>1, <2>2, <2>3 DEF ControlInv, InterruptionMeansReady
<1>11. ASSUME NEW lim \in Limits, NEW finite \in BOOLEAN, RecvWaits(lim, finite)  PROVE IInv'
    BY <1>11 DEF RecvWaits, Yield, TypeOK, BytesInv, ControlInv, InterruptionMeansReady
<1>12. CASE Sleep
    BY <1>12 DEF Sleep, Yield, TypeOK, BytesInv, ControlInv, InterruptionMeansReady
<1>13. CASE Disconnect
    BY <1>13 DEF Disconnect, Return, TypeOK, BytesInv, ControlInv, InterruptionMeansReady
<1>14. CASE WorkerReturns
    BY <1>14 DEF WorkerReturns, TypeOK, BytesInv, ControlInv, InterruptionMeansReady
<1>15. CASE UNCHANGED vars
    BY <1>15 DEF vars, TypeOK, BytesInv, ControlInv, InterruptionMeansReady, Ready
<1>. QED
    BY <1>1, <1>2, <1>3, <1>4, <1>5, <1>6, <1>7, <1>8, <1>9, <1>10, <1>11, <1>12,
       <1>13, <1>14, <1>15 DEF Next

\* In every reachable state the event matches the coroutine and what recv
\* returned matches what the kernel has left: the invariant of the theorems
\* below.
THEOREM Inductive == Spec => []IInv
BY InitInv, NextInv, PTL DEF Spec

-----------------------------------------------------------------------------
\* Every variable of a TCP session keeps its type: recv never counts more bytes
\* than the peer sent.
THEOREM TypeCorrect == Spec => []TypeOK
<1>1. IInv => TypeOK  BY DEF IInv
<1>. QED  BY Inductive, <1>1, PTL

\* recv loses and repeats no byte while the connection stands, whatever stale
\* flags, timeouts and sleeps lie between the calls.
THEOREM BytesKept == Spec => []NoByteLost
<1>1. IInv => NoByteLost  BY DEF IInv, BytesInv, NoByteLost
<1>. QED  BY Inductive, <1>1, PTL

\* sleep() reports an interruption only when there is something to receive.
THEOREM InterruptedSleep == Spec => []InterruptionMeansReady
<1>1. IInv => InterruptionMeansReady  BY DEF IInv
<1>. QED  BY Inductive, <1>1, PTL

\* recv reports an empty success only at the end of the stream: errors and
\* spurious wake-ups are never taken for it.
THEOREM EmptySuccess == Spec => EmptyMeansEnd
<1>. DEFINE A == pc = "recv" /\ pc' = "running" /\ ret'.err = "OK" /\ ret'.len = 0
                   => AtEnd
<1>1. ASSUME IInv, [Next]_vars  PROVE [A]_vars
    <2>. SUFFICES ASSUME Next, pc = "recv", pc' = "running",
                         ret'.err = "OK", ret'.len = 0
                  PROVE  AtEnd
        BY <1>1
    <2>1. CallbackEndsRecv
        BY DEF Next, PeerSends, PeerCloses, PeerResets, EventReadable, TimerExpires,
               CallbackStarts, CallbackEndsSleep, RecvClosed, RecvAtOnce, RecvWaits,
               Yield, Sleep, Disconnect, WorkerReturns
    <2>2. limit \in Nat /\ limit # 0 /\ TypeOK
        BY <1>1 DEF IInv, TypeOK, ControlInv
    <2>3. ~ReadSome(limit)
        BY <2>2, ReadReports
    <2>. QED  BY <2>1, <2>3 DEF CallbackEndsRecv, ReadReset, Return
<1>. QED  BY Inductive, <1>1, PTL DEF Spec, EmptyMeansEnd
=============================================================================
