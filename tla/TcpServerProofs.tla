---------------------------- MODULE TcpServerProofs ----------------------------
(***************************************************************************)
(* Theorems about TcpServer, for any finite set of descriptors and any     *)
(* number of session objects and of connections.                           *)
(***************************************************************************)
EXTENDS TcpServer, FiniteSetTheorems, TLAPS

USE FdAssumption, ObjectAssumption, BoundAssumption

\* A descriptor that is open is that of one session, which lives and is filed
\* under it; only a session that is suspended has an event.
FdInv ==
    /\ \A s \in Session :
          /\ ev[s] # "none" => sess[s] \in {"created", "waiting"}
          /\ ~Live(s) => fdOf[s] = 0
          /\ fdOf[s] # 0 => fdOf[s] \in open \ left
    /\ \A s, t \in Session : fdOf[s] = fdOf[t] /\ fdOf[s] # 0 => s = t
    /\ \A n \in open : \E s \in Session : fdOf[s] = n

IInv == TypeOK /\ backlog <= made /\ FdInv /\ MapMatchesSessions

-----------------------------------------------------------------------------

\* A server that was just set up satisfies the invariant.
LEMMA InitInv == Init => IInv
<1>1. ASSUME Init  PROVE TypeOK
    <2>1. quit \in BOOLEAN
        BY <1>1, Zenon DEF Init
    <2>2. /\ sess \in [Session -> {"none", "created", "waiting", "running"}]
          /\ ev \in [Session -> {"none", "pending", "active"}]
          /\ fdOf \in [Session -> Fd \cup {0}] /\ deletes \in [Session -> Nat]
        BY <1>1 DEF Init
    <2>3. sessions \in [Fd -> Session \cup {None}]
        BY <1>1 DEF Init
    <2>. QED  BY <1>1, <2>1, <2>2, <2>3 DEF Init, TypeOK
<1>2. Init => backlog <= made /\ FdInv /\ MapMatchesSessions
    BY DEF Init, FdInv, MapMatchesSessions, Live
<1>. QED  BY <1>1, <1>2 DEF IInv

\* Every step keeps the types, and the backlog below the connections made.
LEMMA TypeStep == IInv /\ [Next]_vars => TypeOK' /\ backlog' <= made'
<1>. SUFFICES ASSUME IInv, [Next]_vars  PROVE TypeOK' /\ backlog' <= made'
    OBVIOUS
<1>. USE DEF IInv, TypeOK, srvVars, sessVars, ownVars
<1>. DEFINE Goal == TypeOK' /\ backlog' <= made'
<1>1. ASSUME Connect \/ QuitServer \/ ServerReadable \/ AcceptFails \/ SessionInitFails
      PROVE  Goal
    <2>1. CASE Connect           BY <2>1 DEF Connect
    <2>2. CASE QuitServer        BY <2>2 DEF QuitServer
    <2>3. CASE ServerReadable    BY <2>3 DEF ServerReadable
    <2>4. CASE AcceptFails       BY <2>4 DEF AcceptFails
    <2>5. CASE SessionInitFails  BY <2>5 DEF SessionInitFails
    <2>. QED  BY <1>1, <2>1, <2>2, <2>3, <2>4, <2>5
<1>2. ASSUME NEW n \in Fd, NEW s \in Session, Accept(n, s)  PROVE Goal
    BY <1>2 DEF Accept, FileSession, AddEvent
<1>3. ASSUME DeleteServer, UNCHANGED <<base, made, quit>>  PROVE Goal
    <2>1. \A s \in Session : Cardinality(Entries(s)) \in Nat
        <3>1. \A s \in Session : IsFiniteSet(Entries(s))
            BY FS_Subset DEF Entries
        <3>. QED  BY <3>1, FS_CardinalityType
    <2>2. deletes' \in [Session -> Nat]
        BY <1>3, <2>1 DEF DeleteServer
    <2>3. /\ sess' \in [Session -> {"none", "created", "waiting", "running"}]
          /\ ev' \in [Session -> {"none", "pending", "active"}]
        BY <1>3 DEF DeleteServer
    <2>4. fdOf' \in [Session -> Fd \cup {0}]
        BY <1>3 DEF DeleteServer
    <2>5. sessions' \in [Fd -> Session \cup {None}]
        BY <1>3 DEF DeleteServer
    <2>6. open' \subseteq Fd /\ left' \subseteq Fd /\ control' \subseteq Session \cup {Server}
        BY <1>3 DEF DeleteServer
    <2>7. quit' \in BOOLEAN
        BY <1>3
    <2>8. /\ srv' = "deleted" /\ srvFlags' = {} /\ backlog' = 0 /\ made' = made
          /\ base' = base
        BY <1>3 DEF DeleteServer
    <2>. QED  BY <2>2, <2>3, <2>4, <2>5, <2>6, <2>7, <2>8
<1>4. ASSUME ServerQuits  PROVE Goal
    <2>1. CASE Server \in control
        BY <1>3, <1>4, <2>1 DEF ServerQuits
    <2>2. CASE Server \notin control
        BY <1>4, <2>2 DEF ServerQuits
    <2>. QED  BY <2>1, <2>2
<1>5. ASSUME ProgramDeletesServer  PROVE Goal
    BY <1>3, <1>5 DEF ProgramDeletesServer
<1>6. ASSUME NEW s \in Session, SessionActivated(s) \/ SessionResumes(s) \/ SessionWaits(s)
      PROVE  Goal
    <2>1. CASE SessionActivated(s)  BY <2>1 DEF SessionActivated
    <2>2. CASE SessionResumes(s)    BY <2>2 DEF SessionResumes
    <2>3. CASE SessionWaits(s)      BY <2>3 DEF SessionWaits
    <2>. QED  BY <1>6, <2>1, <2>2, <2>3
<1>7. ASSUME NEW s \in Session, SessionDisconnects(s)  PROVE Goal
    BY <1>7 DEF SessionDisconnects
<1>8. ASSUME NEW s \in Session, SessionReturns(s)  PROVE Goal
    <2>1. sessions' \in [Fd -> Session \cup {None}]
        BY <1>8 DEF SessionReturns, NotifySessionEnds
    <2>2. /\ sess' \in [Session -> {"none", "created", "waiting", "running"}]
          /\ fdOf' \in [Session -> Fd \cup {0}] /\ deletes' \in [Session -> Nat]
        BY <1>8 DEF SessionReturns
    <2>. QED  BY <1>8, <2>1, <2>2 DEF SessionReturns, CloseFd
<1>9. ASSUME DeleteBase  PROVE Goal
    <2>1. deletes' \in [Session -> Nat]
        BY <1>9 DEF DeleteBase
    <2>. QED  BY <1>9, <2>1 DEF DeleteBase
<1>10. ASSUME UNCHANGED vars  PROVE Goal
    BY <1>10 DEF vars
<1>. HIDE DEF Goal, IInv, TypeOK
<1>11. Goal
    BY <1>1, <1>2, <1>4, <1>5, <1>6, <1>7, <1>8, <1>9, <1>10 DEF Next
<1>. QED  BY <1>11 DEF Goal

\* When the server is deleted, every session that has a connection goes with
\* it: its descriptor is one that no session has left, so it is filed there.
LEMMA DeletionStep ==
    ASSUME IInv, srv = "listening", DeleteServer
    PROVE  FdInv' /\ MapMatchesSessions'
<1>. USE DEF FdInv, MapMatchesSessions, Live
<1>0. /\ sess \in [Session -> {"none", "created", "waiting", "running"}]
      /\ fdOf \in [Session -> Fd \cup {0}]
      /\ sessions \in [Fd -> Session \cup {None}] /\ open \subseteq Fd
      /\ FdInv /\ MapMatchesSessions
    BY DEF IInv, TypeOK
<1>1. ASSUME NEW s \in Session, fdOf[s] # 0  PROVE s \in Filed
    <2>1. fdOf[s] \in Fd \ left /\ Live(s)
        BY <1>0, <1>1
    <2>2. \A n \in Fd \ left : sessions[n] = s <=> Live(s) /\ fdOf[s] = n
        BY <1>0
    <2>3. sessions[fdOf[s]] = s
        BY <2>1, <2>2
    <2>. QED  BY <2>1, <2>3 DEF Filed
<1>2. \A s \in Session : /\ fdOf'[s] = 0
                         /\ sess'[s] = "none" \/ sess'[s] = sess[s]
                         /\ ev'[s] = "none" \/ (ev'[s] = ev[s] /\ sess'[s] = sess[s])
    <2>1. ASSUME NEW s \in Session, s \in Filed
          PROVE  fdOf'[s] = 0 /\ sess'[s] = "none" /\ ev'[s] = "none"
        BY <2>1 DEF DeleteServer
    <2>2. ASSUME NEW s \in Session, s \notin Filed
          PROVE  fdOf'[s] = 0 /\ sess'[s] = sess[s] /\ ev'[s] = ev[s]
        BY <1>1, <2>2 DEF DeleteServer
    <2>. QED  BY <2>1, <2>2
<1>3. open' = {}
    <2>1. open' = open \ {fdOf[s] : s \in Filed}
        BY DEF DeleteServer
    <2>2. ASSUME NEW n \in open  PROVE n \in {fdOf[s] : s \in Filed}
        <3>1. PICK s \in Session : fdOf[s] = n
            BY <1>0
        <3>. QED  BY <1>0, <1>1, <3>1
    <2>. QED  BY <2>1, <2>2
<1>. QED  BY <1>0, <1>2, <1>3 DEF DeleteServer

\* Every step keeps descriptors, sessions and their entries in agreement.
LEMMA FdStep == IInv /\ [Next]_vars => FdInv' /\ MapMatchesSessions'
<1>. SUFFICES ASSUME IInv, [Next]_vars  PROVE FdInv' /\ MapMatchesSessions'
    OBVIOUS
<1>. DEFINE Goal == FdInv' /\ MapMatchesSessions'
<1>. USE DEF FdInv, MapMatchesSessions, Live, srvVars, sessVars, ownVars
<1>0. /\ sess \in [Session -> {"none", "created", "waiting", "running"}]
      /\ ev \in [Session -> {"none", "pending", "active"}]
      /\ fdOf \in [Session -> Fd \cup {0}]
      /\ sessions \in [Fd -> Session \cup {None}] /\ open \subseteq Fd
      /\ FdInv /\ MapMatchesSessions /\ 0 \notin Fd
    BY DEF IInv, TypeOK
<1>1. ASSUME Connect \/ QuitServer \/ ServerReadable \/ AcceptFails \/ SessionInitFails
                \/ DeleteBase \/ UNCHANGED vars
      PROVE  Goal
    <2>1. UNCHANGED <<srv, open, sessions, left, sess, fdOf, ev>>
        BY <1>1 DEF Connect, QuitServer, ServerReadable, AcceptFails, SessionInitFails,
                    DeleteBase, vars
    <2>2. FdInv'
        BY <1>0, <2>1
    <2>3. MapMatchesSessions'
        <3>1. \A s \in Session : Live(s)' <=> Live(s)
            BY <2>1
        <3>2. MapMatchesSessions
            BY <1>0
        <3>. QED  BY <2>1, <3>1, <3>2
    <2>. QED  BY <2>2, <2>3
<1>2. ASSUME NEW n \in Fd, NEW s \in Session, Accept(n, s)  PROVE Goal
    <2>1. /\ srv = "listening" /\ srv' = srv /\ n \notin open /\ ~Live(s) /\ fdOf[s] = 0
          /\ open' = open \cup {n} /\ left' = left \ {n}
          /\ sess' = [sess EXCEPT ![s] = "created"]
          /\ fdOf' = [fdOf EXCEPT ![s] = n]
          /\ ev' = [ev EXCEPT ![s] = "pending"]
          /\ sessions' = [sessions EXCEPT ![n] = s]
        BY <1>0, <1>2 DEF Accept, NextFd, FileSession, AddEvent
    <2>2. \A t \in Session : t # s => fdOf[t] # n
        BY <1>0, <2>1
    <2>3. FdInv'
        BY <1>0, <2>1, <2>2
    <2>4. ASSUME NEW m \in Fd \ left', NEW t \in Session
          PROVE  sessions'[m] = t <=> Live(t)' /\ fdOf'[t] = m
        <3>1. CASE m = n
            BY <1>0, <2>1, <2>2, <3>1
        <3>2. CASE m # n
            <4>1. m \in Fd \ left /\ sessions'[m] = sessions[m]
                BY <1>0, <2>1, <3>2
            <4>. QED  BY <1>0, <2>1, <3>2, <4>1
        <3>. QED  BY <3>1, <3>2
    <2>. QED  BY <2>1, <2>3, <2>4
<1>3. ASSUME ServerQuits \/ ProgramDeletesServer  PROVE Goal
    <2>1. CASE DeleteServer
        BY <1>3, <2>1, DeletionStep DEF ServerQuits, ProgramDeletesServer
    <2>2. CASE ~DeleteServer
        <3>1. UNCHANGED <<srv, open, sessions, left, sess, fdOf, ev>>
            BY <1>3, <2>2 DEF ServerQuits, ProgramDeletesServer
        <3>. QED  BY <1>0, <3>1
    <2>. QED  BY <2>1, <2>2
<1>4. ASSUME NEW s \in Session, SessionActivated(s) \/ SessionResumes(s) \/ SessionWaits(s)
      PROVE  Goal
    <2>1. /\ UNCHANGED <<srv, open, sessions, left, fdOf>> /\ Live(s)
          /\ \A t \in Session : t # s => sess'[t] = sess[t] /\ ev'[t] = ev[t]
          /\ \/ ev'[s] = "active" /\ sess'[s] = sess[s] /\ ev[s] # "none"
             \/ ev'[s] = "none" /\ sess'[s] = "running"
             \/ ev'[s] = "pending" /\ sess'[s] = "waiting"
        BY <1>0, <1>4 DEF SessionActivated, SessionResumes, SessionWaits
    <2>2. \A t \in Session : Live(t)' <=> Live(t)
        BY <2>1
    <2>3. FdInv'
        BY <1>0, <2>1, <2>2
    <2>4. MapMatchesSessions'
        BY <1>0, <2>1, <2>2
    <2>. QED  BY <2>3, <2>4
<1>5. ASSUME NEW s \in Session, SessionDisconnects(s)  PROVE Goal
    <2>1. /\ sess[s] = "running" /\ fdOf[s] # 0 /\ open' = open \ {fdOf[s]}
          /\ left' = left \cup {fdOf[s]} /\ fdOf' = [fdOf EXCEPT ![s] = 0]
          /\ UNCHANGED <<srv, sess, ev, sessions>>
        BY <1>5 DEF SessionDisconnects
    <2>2. FdInv'
        BY <1>0, <2>1
    <2>3. MapMatchesSessions'
        BY <1>0, <2>1
    <2>. QED  BY <2>2, <2>3
<1>6. ASSUME NEW s \in Session, SessionReturns(s)  PROVE Goal
    <2>1. /\ sess[s] = "running" /\ srv # "deleted" /\ open' = open \ {fdOf[s]}
          /\ sess' = [sess EXCEPT ![s] = "none"] /\ fdOf' = [fdOf EXCEPT ![s] = 0]
          /\ sessions' = IF fdOf[s] = 0 THEN sessions
                         ELSE [sessions EXCEPT ![fdOf[s]] = None]
          /\ UNCHANGED <<srv, left, ev>>
        BY <1>6 DEF SessionReturns, NotifySessionEnds, CloseFd
    <2>2. FdInv'
        BY <1>0, <2>1
    <2>3. ASSUME NEW m \in Fd \ left, NEW t \in Session
          PROVE  sessions'[m] = t <=> Live(t)' /\ fdOf'[t] = m
        <3>1. sessions[m] = t <=> Live(t) /\ fdOf[t] = m
            BY <1>0, <2>1
        <3>2. CASE fdOf[s] = m
            BY <1>0, <2>1, <3>1, <3>2
        <3>3. CASE fdOf[s] # m
            BY <1>0, <2>1, <3>1, <3>3
        <3>. QED  BY <3>2, <3>3
    <2>. QED  BY <2>1, <2>2, <2>3
<1>. HIDE DEF Goal, FdInv, MapMatchesSessions
<1>7. Goal
    BY <1>1, <1>2, <1>3, <1>4, <1>5, <1>6 DEF Next
<1>. QED  BY <1>7 DEF Goal

\* The inductive invariant holds.
THEOREM Inductive == Spec => []IInv
<1>1. IInv /\ [Next]_vars => IInv'
    BY TypeStep, FdStep DEF IInv
<1>. QED  BY InitInv, <1>1, PTL DEF Spec

\* Every variable of the server and its sessions keeps its type; the backlog is
\* bounded by the connections made.
THEOREM TypeCorrect == Spec => []TypeOK
<1>1. IInv => TypeOK
    BY DEF IInv
<1>. QED  BY Inductive, <1>1, PTL

\* _sessions holds exactly the live sessions that have a connection, each under
\* its descriptor, but for the numbers whose session disconnected itself: a
\* number the kernel gives out again leads to the session that has it now.  And
\* no session that has a connection outlives the server.
THEOREM MapMatches == Spec => []MapMatchesSessions
<1>1. IInv => MapMatchesSessions
    BY DEF IInv
<1>. QED  BY Inductive, <1>1, PTL

\* No descriptor leaks and none is shared: what accept() returned is closed by
\* disconnect(), by ~TCPItnlSession or with the server, exactly once.
THEOREM Descriptors == Spec => []FdsAreOwned
<1>1. IInv => FdsAreOwned
    <2>. SUFFICES ASSUME IInv, NEW n \in Fd
         PROVE  Cardinality({s \in Session : Live(s) /\ fdOf[s] = n})
                    = IF n \in open THEN 1 ELSE 0
        BY DEF FdsAreOwned
    <2>. DEFINE owners == {s \in Session : Live(s) /\ fdOf[s] = n}
    <2>0. FdInv /\ n # 0
        BY DEF IInv
    <2>1. CASE n \in open
        <3>1. PICK s \in Session : fdOf[s] = n
            BY <2>0, <2>1 DEF FdInv
        <3>2. owners = {s}
            BY <2>0, <3>1 DEF FdInv
        <3>. QED  BY <2>1, <3>2, FS_Singleton
    <2>2. CASE n \notin open
        <3>1. owners = {}
            BY <2>0, <2>2 DEF FdInv
        <3>. QED  BY <2>2, <3>1, FS_EmptySet
    <2>. QED  BY <2>1, <2>2
<1>. QED  BY Inductive, <1>1, PTL
=============================================================================
