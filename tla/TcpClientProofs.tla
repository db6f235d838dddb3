--------------------------- MODULE TcpClientProofs ---------------------------
(***************************************************************************)
(* Theorems about TcpClient, for any number of inits, attempts and resets. *)
(***************************************************************************)
EXTENDS TcpClient, TLAPS

\* A connection that stands or stood was accepted by the peer.  While the
\* coroutine waits for an attempt, a failure of it has its name in SO_ERROR,
\* where the callback is the first to read it.
AttemptInv ==
    /\ tcp \in {"established", "finished"} => accepted
    /\ ev # "none" => pc = "connect"
    /\ pc = "connect" => /\ fd = "open" /\ ~connected
                         /\ tcp = "closed" => soError # "none"

IInv == TypeOK /\ AttemptInv /\ ConnectedIsTrue

USE BoundsAssumption

\* Type correctness in two parts: the provers that reason about numbers do not
\* take Boolean values for data.
Flags == connected \in BOOLEAN /\ timed \in BOOLEAN /\ accepted \in BOOLEAN

TypeRest ==
    /\ pc \in {"running", "connect"}
    /\ fd \in {"none", "open"}
    /\ peer \in {"accepting", "refusing", "unreachable"}
    /\ ev \in {"none", "pending", "ready", "expired"}
    /\ watch \subseteq {"READ", "WRITE"}
    /\ what \subseteq {"READ", "WRITE", "TIMEOUT"}
    /\ status \in Errors \cup SysErrors
    /\ attempt \in {"unconnected", "connecting", "connected"}
    /\ tcp \in {"closed", "syn", "established", "finished"}
    /\ soError \in {"none"} \cup SysErrors
    /\ resets \in 0 .. MaxResets /\ inits \in 0 .. MaxInit

\* The two parts are the type invariant.
LEMMA TypeParts == (TypeOK <=> Flags /\ TypeRest) /\ (TypeOK' <=> Flags' /\ TypeRest')
BY DEF TypeOK, Flags, TypeRest

-----------------------------------------------------------------------------
\* What connect(2) may return, with the state that it leaves.
LEMMA ConnectResults ==
    ASSUME TypeOK, NEW k \in connect
    PROVE  /\ k.attempt \in {"unconnected", "connecting", "connected"}
           /\ k.tcp \in {"closed", "syn", "established", "finished"}
           /\ k.soError \in {"none"} \cup SysErrors
           /\ k.result \in {"EINPROGRESS", "OK"} \cup SysErrors
           /\ k.result = "EINPROGRESS" => attempt = "unconnected" /\ k.tcp = "syn"
           /\ k.result = "OK" =>
                 attempt = "unconnected" \/ tcp \in {"established", "finished"}
           /\ k.tcp \in {"established", "finished"} =>
                 \/ attempt = "unconnected" /\ k.result = "OK"
                 \/ attempt # "unconnected" /\ k.tcp = tcp
<1>1. CASE attempt = "unconnected"
    BY <1>1 DEF connect, Begin, Kernel, SysErrors
<1>2. CASE attempt = "connected"
    BY <1>2 DEF connect, Report, Kernel, TypeOK, SysErrors
<1>3. CASE attempt = "connecting"
    <2>1. CASE tcp = "syn"
        BY <1>3, <2>1 DEF connect, Report, Kernel, TypeOK, SysErrors
    <2>2. CASE tcp \in {"established", "finished"}
        BY <1>3, <2>2 DEF connect, Report, Kernel, TypeOK, SysErrors
    <2>3. CASE tcp = "closed"
        BY <1>3, <2>3 DEF connect, Report, Kernel, TypeOK, SysErrors
    <2>. QED  BY <2>1, <2>2, <2>3 DEF TypeOK
<1>. QED  BY <1>1, <1>2, <1>3 DEF TypeOK

\* A fresh object satisfies the invariant.
LEMMA InitInv == Init => IInv
<1>1. Init => TypeOK
    <2>1. Init => Flags
        BY DEF Init, Flags
    <2>2. Init => TypeRest
        BY DEF Init, TypeRest, Errors
    <2>. QED  BY <2>1, <2>2, TypeParts
<1>2. Init => AttemptInv /\ ConnectedIsTrue
    BY DEF Init, AttemptInv, ConnectedIsTrue
<1>. QED  BY <1>1, <1>2 DEF IInv

\* Every step, of the peer, of the loop or of the coroutine, keeps it.
LEMMA NextInv == IInv /\ [Next]_vars => IInv'
<1>. SUFFICES ASSUME IInv, [Next]_vars  PROVE IInv'
    OBVIOUS
<1>. USE DEF IInv, sockVars
<1>1. CASE InitClient
    <2>1. TypeOK'
        <3>1. Flags'
            BY <1>1 DEF InitClient, Clear, Flags
        <3>2. TypeRest'
            BY <1>1, TypeParts DEF InitClient, Clear, TypeRest, Errors
        <3>. QED  BY <3>1, <3>2, TypeParts
    <2>2. AttemptInv' /\ ConnectedIsTrue'
        BY <1>1 DEF InitClient, Clear, AttemptInv, ConnectedIsTrue
    <2>. QED  BY <2>1, <2>2
<1>2. CASE InitFails
    <2>1. TypeOK'
        <3>1. Flags'
            BY <1>2 DEF InitFails, Clear, Flags
        <3>2. TypeRest'
            BY <1>2, TypeParts DEF InitFails, Clear, TypeRest, Errors, SysErrors
        <3>. QED  BY <3>1, <3>2, TypeParts
    <2>2. AttemptInv' /\ ConnectedIsTrue'
        BY <1>2 DEF InitFails, Clear, AttemptInv, ConnectedIsTrue
    <2>. QED  BY <2>1, <2>2
<1>3. ASSUME NEW error \in Errors, CallRefused(error)  PROVE IInv'
    BY <1>3 DEF CallRefused, TypeOK, AttemptInv, ConnectedIsTrue
<1>4. ASSUME NEW finite \in BOOLEAN, Connect(finite)  PROVE IInv'
    <2>1. PICK k \in connect :
            /\ attempt' = k.attempt /\ tcp' = k.tcp /\ soError' = k.soError
            /\ accepted' = IF attempt = "unconnected" THEN k.result = "OK" ELSE accepted
            /\ \/ k.result = "EINPROGRESS" /\ Wait(finite) /\ UNCHANGED <<connected, status>>
               \/ k.result # "EINPROGRESS" /\ Finish(k.result)
                  /\ UNCHANGED <<pc, ev, timed, watch>>
        BY <1>4 DEF Connect
    <2>2. /\ pc = "running" /\ fd = "open" /\ ~connected
          /\ UNCHANGED <<fd, what, peer, resets, inits>>
        BY <1>4 DEF Connect
    <2>3. ev = "none"
        BY <2>2 DEF AttemptInv
    <2>4. accepted' \in BOOLEAN /\ (tcp' \in {"established", "finished"} => accepted')
        BY <2>1, ConnectResults DEF TypeOK, AttemptInv
    <2>5. CASE k.result = "EINPROGRESS"
        BY <2>1, <2>2, <2>4, <2>5, ConnectResults
           DEF Wait, TypeOK, AttemptInv, ConnectedIsTrue
    <2>6. CASE k.result # "EINPROGRESS"
        <3>1. Finish(k.result) /\ UNCHANGED <<pc, ev, timed, watch>>
            BY <2>1, <2>6
        <3>2. k.result = "OK" => accepted'
            BY <2>1, ConnectResults DEF AttemptInv
        <3>3. connected' = (k.result = "OK") /\ status' \in Errors \cup SysErrors
            BY <2>2, <2>6, <3>1, ConnectResults DEF Finish, Errors
        <3>. QED
            BY <2>1, <2>2, <2>3, <2>4, <3>1, <3>2, <3>3, ConnectResults
               DEF TypeOK, AttemptInv, ConnectedIsTrue
    <2>. QED  BY <2>5, <2>6
<1>5. CASE EventReady
    BY <1>5 DEF EventReady, TypeOK, AttemptInv, ConnectedIsTrue
<1>6. CASE TimerExpires
    BY <1>6 DEF TimerExpires, TypeOK, AttemptInv, ConnectedIsTrue
<1>7. CASE CallbackReady
    <2>1. Conditions # {} /\ what' \subseteq {"READ", "WRITE"}
        BY <1>7 DEF CallbackReady, Conditions
    <2>2. tcp # "syn"
        BY <2>1 DEF Conditions
    <2>3. Outcome = "OK" => accepted
        BY <1>7, <2>2 DEF CallbackReady, Outcome, TypeOK, AttemptInv, SysErrors
    <2>4. Outcome \in Errors \cup SysErrors
        BY DEF Outcome, TypeOK, Errors
    <2>. QED
        BY <1>7, <2>1, <2>3, <2>4
           DEF CallbackReady, Resume, Finish, TypeOK, AttemptInv, ConnectedIsTrue
<1>8. CASE CallbackTimeout
    BY <1>8 DEF CallbackTimeout, Resume, Finish, TypeOK, AttemptInv, ConnectedIsTrue, Errors
<1>9. ASSUME NEW p \in {"accepting", "refusing", "unreachable"}, PeerChanges(p)  PROVE IInv'
    BY <1>9 DEF PeerChanges, TypeOK, AttemptInv, ConnectedIsTrue
<1>10. CASE PeerAccepts
    BY <1>10 DEF PeerAccepts, TypeOK, AttemptInv, ConnectedIsTrue
<1>11. CASE PeerRefuses
    BY <1>11 DEF PeerRefuses, TypeOK, AttemptInv, ConnectedIsTrue, SysErrors
<1>12. CASE PeerFinishes
    BY <1>12 DEF PeerFinishes, TypeOK, AttemptInv, ConnectedIsTrue
<1>13. CASE PeerResets
    BY <1>13 DEF PeerResets, TypeOK, AttemptInv, ConnectedIsTrue, SysErrors
<1>14. CASE UNCHANGED vars
    BY <1>14 DEF vars, TypeOK, AttemptInv, ConnectedIsTrue
<1>. QED
    BY <1>1, <1>2, <1>3, <1>4, <1>5, <1>6, <1>7, <1>8, <1>9, <1>10, <1>11, <1>12,
       <1>13, <1>14 DEF Next, Loop

\* In every reachable state a connection was accepted, and a failed attempt
\* that is waited for has left its error: the invariant of the theorems below.
THEOREM Inductive == Spec => []IInv
BY InitInv, NextInv, PTL DEF Spec

-----------------------------------------------------------------------------
\* Every variable of a TCP client keeps its type, the statuses it returns
\* included.
THEOREM TypeCorrect == Spec => []TypeOK
<1>1. IInv => TypeOK  BY DEF IInv
<1>. QED  BY Inductive, <1>1, PTL

\* A client that takes itself for connected is on an open socket whose present
\* attempt the peer has accepted.
THEOREM ConnectedTruly == Spec => []ConnectedIsTrue
<1>1. IInv => ConnectedIsTrue  BY DEF IInv
<1>. QED  BY Inductive, <1>1, PTL
=============================================================================
