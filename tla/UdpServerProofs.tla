---------------------------- MODULE UdpServerProofs ----------------------------
(***************************************************************************)
(* Theorems about UdpServer, for any peers and ports, any number of        *)
(* session objects and of datagrams.                                       *)
(***************************************************************************)
EXTENDS UdpServer, SequenceTheorems, TLAPS

USE ObjectAssumption, AddrLenAssumption

\* A live session has a peer, only a suspended one has an event, and only a
\* live one an inbox; a server with a worker of the program's has no sessions.
SessionInv ==
    /\ \A s \in Session :
          /\ Live(s) => peerOf[s] \in Peer
          /\ ev[s] # "none" => sess[s] \in {"created", "waiting"}
          /\ ~Live(s) => inbox[s] = <<>>
    /\ srv \in Plain => \A p \in Peer : map[p] = None

\* The datagrams in the socket were sent and are in the order of sending.
SocketInv ==
    /\ \A i \in 1 .. Len(rx) : rx[i].no <= sendNo
    /\ \A i, j \in 1 .. Len(rx) :
          i < j /\ rx[i].no # 0 /\ rx[j].no # 0 => rx[i].no < rx[j].no

IInv == TypeOK /\ SessionInv /\ MapMatchesSessions /\ SocketInv

-----------------------------------------------------------------------------

\* A server that was just set up satisfies the invariant.
LEMMA InitInv == Init => IInv
<1>1. ASSUME Init  PROVE TypeOK
    <2>1. <<>> \in Seq(Datagram) /\ <<>> \in Seq(1 .. MaxSend)
        BY EmptySeq
    <2>2. /\ inbox = [s \in Session |-> <<>>] /\ handled = [p \in Peer |-> <<>>]
          /\ rx = <<>> /\ quit = FALSE
        BY <1>1 DEF Init
    <2>3. /\ inbox \in [Session -> Seq(1 .. MaxSend)]
          /\ handled \in [Peer -> Seq(1 .. MaxSend)]
          /\ rx \in Seq(Datagram) /\ quit \in BOOLEAN
        BY <2>1, <2>2, Zenon
    <2>4. remote \in [bytes : [1 .. Room -> Peer \cup {None}], len : 0 .. Room]
        BY <1>1 DEF Init
    <2>. QED  BY <1>1, <2>3, <2>4 DEF Init, TypeOK, Plain, Object
<1>2. Init => SessionInv /\ MapMatchesSessions
    BY DEF Init, SessionInv, MapMatchesSessions, Live
<1>3. Init => SocketInv
    BY EmptySeq DEF Init, SocketInv
<1>. QED  BY <1>1, <1>2, <1>3 DEF IInv

\* The first datagram of the socket, and what is left behind it.
LEMMA FirstDatagram ==
    ASSUME TypeOK, SocketInv, rx # <<>>
    PROVE  /\ Head(rx) \in Datagram /\ Head(rx) = rx[1] /\ Head(rx).no \in 0 .. sendNo
           /\ Tail(rx) \in Seq(Datagram) /\ Len(rx) \in Nat /\ Len(rx) > 0
           /\ Len(Tail(rx)) = Len(rx) - 1
           /\ \A i \in 1 .. Len(rx) - 1 : Tail(rx)[i] = rx[i + 1]
           /\ \A i \in 1 .. Len(rx) : rx[i] \in Datagram
<1>1. rx \in Seq(Datagram)
    BY DEF TypeOK
<1>2. /\ Head(rx) \in Datagram /\ Tail(rx) \in Seq(Datagram)
      /\ Len(Tail(rx)) = Len(rx) - 1
      /\ \A i \in 1 .. Len(Tail(rx)) : Tail(rx)[i] = rx[i + 1]
    BY <1>1, HeadTailProperties
<1>3. Len(rx) \in Nat /\ Len(rx) > 0 /\ Head(rx) = rx[1]
    BY <1>1, EmptySeq
<1>4. Head(rx).no \in Nat /\ Head(rx).no <= sendNo
    BY <1>2, <1>3 DEF Datagram, SocketInv
<1>5. \A i \in 1 .. Len(rx) : rx[i] \in Datagram
    BY <1>1, ElementOfSeq
<1>. QED  BY <1>2, <1>3, <1>4, <1>5 DEF TypeOK

\* What a callback of the server's that takes a datagram does to the socket.
LEMMA Taking ==
    ASSUME TypeOK, SocketInv, NEW d, TakeDatagram(d)
    PROVE  /\ d \in Datagram /\ d.from \in Peer /\ d.no \in 0 .. MaxSend
           /\ rx' \in Seq(Datagram)
           /\ remote' \in [bytes : [1 .. Room -> Peer \cup {None}], len : 0 .. Room]
           /\ last' \in Peer \cup {None}
           /\ srvFlags' = {}
<1>1. rx # <<>> /\ d = Head(rx) /\ rx' = Tail(rx)
    BY DEF TakeDatagram
<1>2. /\ d \in Datagram /\ d.from \in Peer /\ d.no \in 0 .. MaxSend
      /\ rx' \in Seq(Datagram)
    BY <1>1, FirstDatagram DEF Datagram, TypeOK
<1>3. AddrLen[d.from] \in 0 .. Room
    BY <1>2
<1>4. remote' \in [bytes : [1 .. Room -> Peer \cup {None}], len : 0 .. Room]
    BY <1>2, <1>3 DEF TakeDatagram, StoreSender, TypeOK
<1>. QED  BY <1>2, <1>4 DEF TakeDatagram

\* Every step keeps the types.
LEMMA TypeStep == IInv /\ [Next]_vars => TypeOK'
<1>. SUFFICES ASSUME IInv, [Next]_vars  PROVE TypeOK'
    OBVIOUS
<1>. USE DEF IInv, TypeOK, srvVars, fromVars, sessVars, ownVars, Plain, Object
<1>1. ASSUME NEW p \in Peer, NEW empty \in BOOLEAN, Arrive(p, empty)  PROVE TypeOK'
    <2>1. [from |-> p, no |-> IF empty THEN 0 ELSE sendNo + 1] \in Datagram
        BY DEF Datagram
    <2>2. rx' \in Seq(Datagram)
        BY <1>1, <2>1, AppendProperties DEF Arrive
    <2>. QED  BY <1>1, <2>2 DEF Arrive
<1>2. ASSUME QuitServer \/ ServerStarts \/ ServerReadable \/ WorkerTimer \/ WorkerResumes
      PROVE  TypeOK'
    BY <1>2 DEF QuitServer, ServerStarts, ServerReadable, WorkerTimer, WorkerResumes
<1>3. ASSUME ServerForwards  PROVE TypeOK'
    <2>1. PICK d \in Range(rx) :
             /\ ServerReceives(d) /\ d.no # 0 /\ map[d.from] # None
             /\ inbox' \in {[inbox EXCEPT ![map[d.from]] = Append(@, d.no)], inbox}
             /\ UNCHANGED <<srv, sess, peerOf, ev, ownVars, sendNo, handled, quit>>
        BY <1>3 DEF ServerForwards
    <2>2. TakeDatagram(d) /\ d.no \in 1 .. MaxSend /\ map[d.from] \in Session
        BY <2>1, Taking DEF ServerReceives
    <2>3. Append(inbox[map[d.from]], d.no) \in Seq(1 .. MaxSend)
        BY <2>2, AppendProperties
    <2>4. inbox' \in [Session -> Seq(1 .. MaxSend)]
        BY <2>1, <2>2, <2>3
    <2>. QED  BY <2>1, <2>2, <2>4, Taking
<1>4. ASSUME ServerRefuses \/ ServerIgnores  PROVE TypeOK'
    BY <1>4, Taking DEF ServerRefuses, ServerIgnores, ServerReceives
<1>5. ASSUME ServerQuits \/ WorkerReturns  PROVE TypeOK'
    <2>1. EndServer
        BY <1>5 DEF ServerQuits, WorkerReturns
    <2>2. <<>> \in Seq(1 .. MaxSend) /\ <<>> \in Seq(Datagram)
        BY EmptySeq
    <2>3. doubled' \subseteq Object
        BY <2>1 DEF EndServer, Delete, Gone, InMap
    <2>4. CASE Server \in control
        <3>1. /\ srv' = "deleted" /\ control' \subseteq Object
              /\ map' \in [Peer -> Session \cup {None}]
            BY <2>1, <2>4 DEF EndServer
        <3>2. /\ sess' \in [Session -> {"none", "created", "waiting", "running"}]
              /\ ev' \in [Session -> {"none", "pending", "active"}]
            BY <2>1, <2>4 DEF EndServer
        <3>3. peerOf' \in [Session -> Peer \cup {None}]
            BY <2>1, <2>4 DEF EndServer
        <3>4. inbox' \in [Session -> Seq(1 .. MaxSend)]
            <4>1. inbox' = [s \in Session |-> IF s \in InMap THEN <<>> ELSE inbox[s]]
                BY <2>1, <2>4 DEF EndServer
            <4>. HIDE DEF IInv, TypeOK
            <4>2. inbox \in [Session -> Seq(1 .. MaxSend)]
                BY DEF IInv, TypeOK
            <4>. QED  BY <2>2, <4>1, <4>2, Zenon
        <3>. QED  BY <2>1, <2>2, <2>3, <3>1, <3>2, <3>3, <3>4 DEF EndServer
    <2>5. CASE Server \notin control
        BY <2>1, <2>2, <2>3, <2>5 DEF EndServer
    <2>. QED  BY <2>4, <2>5
<1>6. ASSUME NEW where \in {"receiving", "sleeping"}, WorkerWaits(where)  PROVE TypeOK'
    BY <1>6 DEF WorkerWaits
<1>7. ASSUME WorkerReceives  PROVE TypeOK'
    <2>1. PICK d \in Range(rx) :
             /\ srv = "receiving" /\ TakeDatagram(d) /\ srv' = "running"
             /\ handled' = IF d.no = 0 THEN handled
                           ELSE [handled EXCEPT ![d.from] = Append(@, d.no)]
             /\ UNCHANGED <<sessVars, ownVars, sendNo, quit>>
        BY <1>7 DEF WorkerReceives
    <2>2. d.no # 0 => Append(handled[d.from], d.no) \in Seq(1 .. MaxSend)
        BY <2>1, Taking, AppendProperties
    <2>3. handled' \in [Peer -> Seq(1 .. MaxSend)]
        BY <2>1, <2>2
    <2>. QED  BY <2>1, <2>3, Taking
<1>8. ASSUME NEW s \in Session, ServerCreates(s)  PROVE TypeOK'
    <2>1. PICK d \in Range(rx) :
             /\ ServerReceives(d) /\ d.no # 0 /\ CreateFor(s, d)
             /\ UNCHANGED <<srv, base, doubled, sendNo, handled, quit>>
        BY <1>8 DEF ServerCreates
    <2>2. TakeDatagram(d) /\ d.no \in 1 .. MaxSend /\ d.from \in Peer
        BY <2>1, Taking DEF ServerReceives
    <2>3. <<d.no>> \in Seq(1 .. MaxSend) /\ <<>> \in Seq(1 .. MaxSend)
        BY <2>2, EmptySeq
    <2>4. PICK q \in Seq(1 .. MaxSend) : inbox' = [inbox EXCEPT ![s] = q]
        BY <2>1, <2>3 DEF CreateFor
    <2>5. inbox' \in [Session -> Seq(1 .. MaxSend)]
        BY <2>4
    <2>. QED
        BY <2>1, <2>2, <2>5, Taking DEF CreateFor, AddEvent, PutUnderControl
<1>9. ASSUME NEW s \in Session, SessionActivated(s) \/ SessionResumes(s) \/ SessionWaits(s)
      PROVE  TypeOK'
    <2>1. CASE SessionActivated(s)  BY <2>1 DEF SessionActivated
    <2>2. CASE SessionResumes(s)    BY <2>2 DEF SessionResumes
    <2>3. CASE SessionWaits(s)      BY <2>3 DEF SessionWaits
    <2>. QED  BY <1>9, <2>1, <2>2, <2>3
<1>10. ASSUME NEW s \in Session, SessionTakes(s)  PROVE TypeOK'
    <2>1. peerOf[s] \in Peer /\ inbox[s] \in Seq(1 .. MaxSend) /\ inbox[s] # <<>>
        BY <1>10 DEF SessionTakes, SessionInv, Live
    <2>2. Head(inbox[s]) \in 1 .. MaxSend /\ Tail(inbox[s]) \in Seq(1 .. MaxSend)
        BY <2>1, HeadTailProperties
    <2>3. Append(handled[peerOf[s]], Head(inbox[s])) \in Seq(1 .. MaxSend)
        BY <2>1, <2>2, AppendProperties
    <2>. QED  BY <1>10, <2>1, <2>2, <2>3 DEF SessionTakes
<1>11. ASSUME NEW s \in Session, SessionReturns(s)  PROVE TypeOK'
    BY <1>11, EmptySeq DEF SessionReturns, NotifySessionEnds, Delete, Gone
<1>12. ASSUME DeleteBase  PROVE TypeOK'
    BY <1>12 DEF DeleteBase, Delete, Gone
<1>13. CASE UNCHANGED vars
    BY <1>13 DEF vars
<1>. HIDE DEF IInv, TypeOK, srvVars, fromVars, sessVars, ownVars, Plain, Object
<1>. QED
    BY <1>1, <1>2, <1>3, <1>4, <1>5, <1>6, <1>7, <1>8, <1>9, <1>10, <1>11, <1>12,
       <1>13 DEF Next

\* Every step keeps map and sessions in agreement: the session that ends erases
\* its own entry, and the server takes all of them with it.
LEMMA SessionStep == IInv /\ [Next]_vars => SessionInv' /\ MapMatchesSessions'
<1>. SUFFICES ASSUME IInv, [Next]_vars  PROVE SessionInv' /\ MapMatchesSessions'
    OBVIOUS
<1>. USE DEF SessionInv, MapMatchesSessions, Live, srvVars, fromVars, sessVars, ownVars,
             Plain
<1>. DEFINE Goal == SessionInv' /\ MapMatchesSessions'
<1>0. /\ TypeOK /\ SessionInv /\ MapMatchesSessions /\ SocketInv
      /\ map \in [Peer -> Session \cup {None}]
      /\ sess \in [Session -> {"none", "created", "waiting", "running"}]
      /\ peerOf \in [Session -> Peer \cup {None}]
      /\ ev \in [Session -> {"none", "pending", "active"}]
      /\ inbox \in [Session -> Seq(1 .. MaxSend)]
    BY DEF IInv, TypeOK
<1>1. ASSUME UNCHANGED <<map, sess, peerOf, ev, inbox>>,
             srv' = srv \/ (srv' \in Plain \ {"starting"} /\ srv \in Plain)
                 \/ (srv' = "waiting" /\ srv = "created")
      PROVE  Goal
    BY <1>0, <1>1
<1>2. ASSUME ServerForwards  PROVE Goal
    <2>1. PICK d \in Range(rx) :
             /\ ServerReceives(d) /\ d.no # 0 /\ map[d.from] # None
             /\ inbox' \in {[inbox EXCEPT ![map[d.from]] = Append(@, d.no)], inbox}
             /\ UNCHANGED <<srv, sess, peerOf, ev, ownVars, sendNo, handled, quit>>
        BY <1>2 DEF ServerForwards
    <2>2. d.from \in Peer /\ srv = "waiting"
        BY <1>0, <2>1, Taking DEF ServerReceives
    <2>3. map[d.from] \in Session /\ Live(map[d.from])
        BY <1>0, <2>1, <2>2
    <2>4. \A s \in Session : s # map[d.from] => inbox'[s] = inbox[s]
        BY <1>0, <2>1
    <2>. QED  BY <1>0, <2>1, <2>3, <2>4
<1>3. ASSUME EndServer, srv \in {"waiting", "running"}  PROVE Goal
    <2>1. CASE Server \in control
        <3>1. \A s \in Session : Live(s) => s \in InMap
            BY <1>0, <1>3 DEF InMap
        <3>2. \A s \in Session : /\ sess'[s] = "none" /\ ev'[s] = "none"
                                 /\ inbox'[s] = <<>>
            BY <1>0, <1>3, <2>1, <3>1 DEF EndServer
        <3>. QED  BY <1>3, <2>1, <3>2 DEF EndServer
    <2>2. CASE Server \notin control
        BY <1>0, <1>3, <2>2 DEF EndServer
    <2>. QED  BY <2>1, <2>2
<1>4. ASSUME NEW s \in Session, ServerCreates(s)  PROVE Goal
    <2>1. PICK d \in Range(rx) :
             /\ ServerReceives(d) /\ d.no # 0 /\ CreateFor(s, d)
             /\ UNCHANGED <<srv, base, doubled, sendNo, handled, quit>>
        BY <1>4 DEF ServerCreates
    <2>2. d.from \in Peer /\ srv = "waiting"
        BY <1>0, <2>1, Taking DEF ServerReceives
    <2>3. /\ sess[s] = "none" /\ map[d.from] = None
          /\ sess' = [sess EXCEPT ![s] = "created"]
          /\ peerOf' = [peerOf EXCEPT ![s] = d.from]
          /\ map' = [map EXCEPT ![d.from] = s]
          /\ ev' = [ev EXCEPT ![s] = "pending"]
        BY <2>1 DEF CreateFor, AddEvent
    <2>4. \A t \in Session : t # s => inbox'[t] = inbox[t]
        BY <1>0, <2>1 DEF CreateFor
    <2>. QED  BY <1>0, <2>1, <2>2, <2>3, <2>4
<1>5. ASSUME NEW s \in Session, SessionActivated(s) \/ SessionResumes(s) \/ SessionWaits(s)
      PROVE  Goal
    BY <1>0, <1>5 DEF SessionActivated, SessionResumes, SessionWaits
<1>6. ASSUME NEW s \in Session, SessionTakes(s)  PROVE Goal
    BY <1>0, <1>6 DEF SessionTakes
<1>7. ASSUME NEW s \in Session, SessionReturns(s)  PROVE Goal
    BY <1>0, <1>7 DEF SessionReturns, NotifySessionEnds
<1>8. ASSUME NEW p \in Peer, NEW empty \in BOOLEAN, Arrive(p, empty)  PROVE Goal
    BY <1>1, <1>8 DEF Arrive
<1>9. ASSUME QuitServer \/ ServerReadable \/ WorkerTimer \/ WorkerResumes  PROVE Goal
    BY <1>1, <1>9 DEF QuitServer, ServerReadable, WorkerTimer, WorkerResumes
<1>10. ASSUME ServerRefuses \/ ServerIgnores \/ DeleteBase  PROVE Goal
    BY <1>1, <1>10 DEF ServerRefuses, ServerIgnores, DeleteBase
<1>11. ASSUME ServerStarts \/ WorkerReceives  PROVE Goal
    BY <1>1, <1>11 DEF ServerStarts, WorkerReceives
<1>12. ASSUME NEW where \in {"receiving", "sleeping"}, WorkerWaits(where)  PROVE Goal
    BY <1>1, <1>12 DEF WorkerWaits
<1>13. ASSUME ServerQuits \/ WorkerReturns  PROVE Goal
    BY <1>3, <1>13 DEF ServerQuits, WorkerReturns
<1>14. ASSUME UNCHANGED vars  PROVE Goal
    BY <1>1, <1>14 DEF vars
<1>. HIDE DEF SessionInv, MapMatchesSessions, Goal
<1>15. Goal
    BY <1>2, <1>4, <1>5, <1>6, <1>7, <1>8, <1>9, <1>10, <1>11, <1>12, <1>13, <1>14 DEF Next
<1>. QED  BY <1>15 DEF Goal

\* Every step keeps the datagrams in the socket in order: they arrive behind
\* and leave in front.
LEMMA SocketStep == IInv /\ [Next]_vars => SocketInv'
<1>. SUFFICES ASSUME IInv, [Next]_vars  PROVE SocketInv'
    OBVIOUS
<1>. USE DEF srvVars, fromVars, sessVars, ownVars
<1>0. /\ TypeOK /\ SocketInv /\ sendNo \in Nat /\ rx \in Seq(Datagram) /\ Len(rx) \in Nat
    BY LenProperties DEF IInv, TypeOK
<1>1. ASSUME NEW p \in Peer, NEW empty \in BOOLEAN, Arrive(p, empty)  PROVE SocketInv'
    <2>. DEFINE d == [from |-> p, no |-> IF empty THEN 0 ELSE sendNo + 1]
    <2>1. d \in Datagram /\ d.no \in {0, sendNo + 1}
        BY <1>0 DEF Datagram
    <2>2. rx' = Append(rx, d) /\ sendNo' = sendNo + 1
        BY <1>1 DEF Arrive
    <2>3. /\ Len(rx') = Len(rx) + 1 /\ rx'[Len(rx) + 1] = d
          /\ \A i \in 1 .. Len(rx) : rx'[i] = rx[i] /\ rx[i].no \in Nat
        <3>1. Len(rx') = Len(rx) + 1 /\ rx'[Len(rx) + 1] = d
              /\ \A i \in 1 .. Len(rx) : rx'[i] = rx[i]
            BY <1>0, <2>1, <2>2, AppendProperties
        <3>2. \A i \in 1 .. Len(rx) : rx[i] \in Datagram
            BY <1>0, ElementOfSeq
        <3>. QED  BY <3>1, <3>2 DEF Datagram
    <2>. HIDE DEF d
    <2>. QED  BY <1>0, <2>1, <2>2, <2>3 DEF SocketInv
<1>2. ASSUME NEW d, TakeDatagram(d), sendNo' = sendNo  PROVE SocketInv'
    BY <1>0, <1>2, FirstDatagram DEF TakeDatagram, SocketInv
<1>3. CASE EndServer
    BY <1>3, EmptySeq DEF EndServer, SocketInv
<1>4. CASE UNCHANGED <<rx, sendNo>>
    BY <1>0, <1>4 DEF SocketInv
<1>5. ASSUME ServerForwards \/ ServerRefuses \/ ServerIgnores \/ WorkerReceives
      PROVE  \E d : TakeDatagram(d) /\ sendNo' = sendNo
    BY <1>5 DEF ServerForwards, ServerRefuses, ServerIgnores, WorkerReceives, ServerReceives
<1>6. ASSUME NEW s \in Session, ServerCreates(s)
      PROVE  \E d : TakeDatagram(d) /\ sendNo' = sendNo
    BY <1>6 DEF ServerCreates, ServerReceives
<1>7. ASSUME NEW s \in Session,
             SessionActivated(s) \/ SessionResumes(s) \/ SessionTakes(s)
                \/ SessionWaits(s) \/ SessionReturns(s)
      PROVE  UNCHANGED <<rx, sendNo>>
    BY <1>7 DEF SessionActivated, SessionResumes, SessionTakes, SessionWaits, SessionReturns
<1>8. ASSUME QuitServer \/ ServerStarts \/ ServerReadable \/ WorkerTimer \/ WorkerResumes
                 \/ DeleteBase \/ (\E where \in {"receiving", "sleeping"} : WorkerWaits(where))
      PROVE  UNCHANGED <<rx, sendNo>>
    BY <1>8 DEF QuitServer, ServerStarts, ServerReadable, WorkerTimer, WorkerResumes,
                DeleteBase, WorkerWaits
<1>9. ASSUME ServerQuits \/ WorkerReturns  PROVE EndServer
    BY <1>9 DEF ServerQuits, WorkerReturns
<1>10. CASE UNCHANGED vars
    BY <1>4, <1>10 DEF vars
<1>. QED
    BY <1>1, <1>2, <1>3, <1>4, <1>5, <1>6, <1>7, <1>8, <1>9, <1>10 DEF Next

\* In every reachable state map and sessions agree and the socket is in order:
\* the invariant of the theorems below.
THEOREM Inductive == Spec => []IInv
<1>1. IInv /\ [Next]_vars => IInv'
    BY TypeStep, SessionStep, SocketStep DEF IInv
<1>. QED  BY InitInv, <1>1, PTL DEF Spec

-----------------------------------------------------------------------------

\* Every variable of the server and its sessions keeps its type: only datagrams
\* that are not empty reach an inbox or a worker's account.
THEOREM TypeCorrect == Spec => []TypeOK
<1>1. IInv => TypeOK  BY DEF IInv
<1>. QED  BY Inductive, <1>1, PTL

\* While the server exists its map holds exactly the live sessions, and none
\* outlives it, for any number of peers, sessions and ports.
THEOREM MapMatches == Spec => []MapMatchesSessions
<1>1. IInv => MapMatchesSessions  BY DEF IInv
<1>. QED  BY Inductive, <1>1, PTL

-----------------------------------------------------------------------------
(* The order of a peer's datagrams.                                        *)

Increasing(q) == \A i, j \in 1 .. Len(q) : i < j => q[i] < q[j]

Before(q, r) == \A i \in 1 .. Len(q), j \in 1 .. Len(r) : q[i] < r[j]

UpTo(q, n) == \A i \in 1 .. Len(q) : q[i] <= n

\* The numbers in q are below those of all the peer's datagrams in the socket.
Ahead(q, socket, p) ==
    \A i \in 1 .. Len(q), j \in 1 .. Len(socket) :
        socket[j].from = p /\ socket[j].no # 0 => q[i] < socket[j].no

\* What a peer's workers got comes before what its session's inbox holds, and
\* that before what is in the socket; a session that ended took its inbox along.
OrderInv ==
    /\ \A p \in Peer : /\ Increasing(handled[p]) /\ UpTo(handled[p], sendNo)
                       /\ Ahead(handled[p], rx, p)
    /\ \A s \in Session :
          /\ Increasing(inbox[s]) /\ UpTo(inbox[s], sendNo)
          /\ Live(s) => /\ Before(handled[peerOf[s]], inbox[s])
                        /\ Ahead(inbox[s], rx, peerOf[s])

\* A sequence that grows by a number above all of it stays increasing, and
\* stays where it was if that number lies there.
LEMMA Grows ==
    ASSUME NEW q \in Seq(Nat), Increasing(q), NEW n \in Nat,
           \A i \in 1 .. Len(q) : q[i] < n
    PROVE  /\ Increasing(Append(q, n))
           /\ \A m \in Nat : n <= m => UpTo(Append(q, n), m)
           /\ \A socket, p : Ahead(q, socket, p) /\ Ahead(<<n>>, socket, p)
                                => Ahead(Append(q, n), socket, p)
           /\ \A r : Before(r, q) /\ (\A i \in 1 .. Len(r) : r[i] < n)
                        => Before(r, Append(q, n))
           /\ \A r : Before(q, r) /\ (\A i \in 1 .. Len(r) : n < r[i])
                        => Before(Append(q, n), r)
<1>. DEFINE z == Append(q, n)
<1>1. /\ Len(q) \in Nat /\ Len(z) = Len(q) + 1
      /\ \A i \in 1 .. Len(q) : z[i] = q[i] /\ q[i] \in Nat
      /\ z[Len(q) + 1] = n
    BY AppendProperties, LenProperties, ElementOfSeq
<1>. HIDE DEF z
<1>2. \A i \in 1 .. Len(z) : z[i] = n \/ (i \in 1 .. Len(q) /\ z[i] = q[i])
    BY <1>1
<1>3. ASSUME NEW i \in 1 .. Len(z), NEW j \in 1 .. Len(z), i < j  PROVE z[i] < z[j]
    <2>1. i \in 1 .. Len(q) /\ z[i] = q[i]
        BY <1>1, <1>3
    <2>2. CASE j = Len(q) + 1
        BY <1>1, <2>1, <2>2
    <2>3. CASE j \in 1 .. Len(q)
        BY <1>1, <1>3, <2>1, <2>3 DEF Increasing
    <2>. QED  BY <1>1, <2>2, <2>3
<1>4. \A m \in Nat : n <= m => UpTo(z, m)
    BY <1>1, <1>2 DEF UpTo
<1>5. ASSUME NEW socket, NEW p, Ahead(q, socket, p), Ahead(<<n>>, socket, p)
      PROVE  Ahead(z, socket, p)
    <2>1. \A j \in 1 .. Len(socket) :
             socket[j].from = p /\ socket[j].no # 0 => n < socket[j].no
        BY <1>5 DEF Ahead
    <2>. QED  BY <1>2, <1>5, <2>1 DEF Ahead
<1>6. ASSUME NEW r, Before(r, q), \A i \in 1 .. Len(r) : r[i] < n  PROVE Before(r, z)
    BY <1>2, <1>6 DEF Before
<1>7. ASSUME NEW r, Before(q, r), \A i \in 1 .. Len(r) : n < r[i]  PROVE Before(z, r)
    BY <1>2, <1>7 DEF Before
<1>. QED  BY <1>3, <1>4, <1>5, <1>6, <1>7 DEF z, Increasing

\* The first number of an increasing sequence is below the others, and lies
\* with them where the sequence does.
LEMMA Shrinks ==
    ASSUME NEW q \in Seq(Nat), Increasing(q), q # <<>>
    PROVE  /\ Increasing(Tail(q)) /\ Head(q) \in Nat
           /\ \A i \in 1 .. Len(Tail(q)) : Head(q) < Tail(q)[i]
           /\ \A m : UpTo(q, m) => UpTo(Tail(q), m) /\ Head(q) <= m
           /\ \A socket, p : Ahead(q, socket, p) =>
                 /\ Ahead(Tail(q), socket, p)
                 /\ Ahead(<<Head(q)>>, socket, p)
           /\ \A r : Before(r, q) =>
                 Before(r, Tail(q)) /\ \A i \in 1 .. Len(r) : r[i] < Head(q)
<1>. DEFINE z == Tail(q)  h == Head(q)
<1>1. /\ Len(q) \in Nat /\ Len(q) > 0 /\ Len(z) = Len(q) - 1 /\ h = q[1]
      /\ \A i \in 1 .. Len(z) : z[i] = q[i + 1]
      /\ h \in Nat
    BY HeadTailProperties, EmptySeq
<1>. HIDE DEF z, h
<1>2. 1 \in 1 .. Len(q) /\ \A i \in 1 .. Len(z) : i + 1 \in 1 .. Len(q) /\ z[i] = q[i + 1]
    BY <1>1
<1>3. Increasing(z) /\ \A i \in 1 .. Len(z) : h < z[i]
    <2>1. \A i, j \in 1 .. Len(z) : i < j => z[i] < z[j]
        <3>1. ASSUME NEW i \in 1 .. Len(z), NEW j \in 1 .. Len(z), i < j  PROVE z[i] < z[j]
            <4>1. i + 1 \in 1 .. Len(q) /\ j + 1 \in 1 .. Len(q) /\ i + 1 < j + 1
                BY <1>1, <3>1
            <4>. QED  BY <1>1, <4>1 DEF Increasing
        <3>. QED  BY <3>1
    <2>2. ASSUME NEW i \in 1 .. Len(z)  PROVE h < z[i]
        <3>1. 1 < i + 1 /\ i + 1 \in 1 .. Len(q) /\ 1 \in 1 .. Len(q)
            BY <1>1, <1>2
        <3>. QED  BY <1>1, <3>1 DEF Increasing
    <2>. QED  BY <2>1, <2>2 DEF Increasing
<1>4. \A m : UpTo(q, m) => UpTo(z, m) /\ h <= m
    BY <1>1, <1>2 DEF UpTo
<1>5. ASSUME NEW socket, NEW p, Ahead(q, socket, p)
      PROVE  Ahead(z, socket, p) /\ Ahead(<<h>>, socket, p)
    <2>1. Ahead(z, socket, p)
        BY <1>2, <1>5 DEF Ahead
    <2>2. \A i \in 1 .. Len(<<h>>) : i = 1 /\ <<h>>[i] = q[1]
        BY <1>1
    <2>3. Ahead(<<h>>, socket, p)
        BY <1>2, <1>5, <2>2 DEF Ahead
    <2>. QED  BY <2>1, <2>3
<1>6. ASSUME NEW r, Before(r, q)
      PROVE  Before(r, z) /\ \A i \in 1 .. Len(r) : r[i] < h
    BY <1>1, <1>2, <1>6 DEF Before
<1>. QED  BY <1>1, <1>3, <1>4, <1>5, <1>6 DEF z, h

\* A datagram that arrives has the highest number; nobody falls behind it.
LEMMA ArrivesBehind ==
    ASSUME NEW socket \in Seq(Datagram), NEW d \in Datagram, NEW n \in Nat,
           d.no \in {0, n + 1},
           NEW q \in Seq(Nat), UpTo(q, n), NEW p, Ahead(q, socket, p)
    PROVE  Ahead(q, Append(socket, d), p) /\ UpTo(q, n + 1)
<1>1. /\ Len(socket) \in Nat /\ Len(Append(socket, d)) = Len(socket) + 1
      /\ \A i \in 1 .. Len(socket) : Append(socket, d)[i] = socket[i]
      /\ Append(socket, d)[Len(socket) + 1] = d
    BY AppendProperties, LenProperties
<1>2. \A i \in 1 .. Len(q) : q[i] \in Nat
    BY ElementOfSeq
<1>. QED  BY <1>1, <1>2 DEF Ahead, UpTo

\* What is ahead of the socket stays ahead when the first datagram is taken,
\* and so does that datagram.
LEMMA TakenFirst ==
    ASSUME TypeOK, SocketInv, NEW d, TakeDatagram(d)
    PROVE  /\ \A q, p : Ahead(q, rx, p) => Ahead(q, rx', p)
           /\ \A q : Ahead(q, rx, d.from) /\ d.no # 0
                        => \A i \in 1 .. Len(q) : q[i] < d.no
           /\ d.no # 0 => \A p : Ahead(<<d.no>>, rx', p)
           /\ d.no \in Nat /\ d.no <= sendNo
<1>1. rx # <<>> /\ d = Head(rx) /\ rx' = Tail(rx)
    BY DEF TakeDatagram
<1>2. /\ d = rx[1] /\ d.no \in 0 .. sendNo /\ Len(rx) \in Nat /\ Len(rx) > 0
      /\ Len(rx') = Len(rx) - 1 /\ \A i \in 1 .. Len(rx') : rx'[i] = rx[i + 1]
    BY <1>1, FirstDatagram
<1>3. \A q, p : Ahead(q, rx, p) => Ahead(q, rx', p)
    BY <1>2 DEF Ahead
<1>4. \A q : Ahead(q, rx, d.from) /\ d.no # 0 => \A i \in 1 .. Len(q) : q[i] < d.no
    BY <1>2 DEF Ahead
<1>5. d.no # 0 => \A j \in 1 .. Len(rx') : rx'[j].no # 0 => d.no < rx'[j].no
    BY <1>2 DEF SocketInv
<1>6. d.no # 0 => \A p : Ahead(<<d.no>>, rx', p)
    BY <1>5 DEF Ahead
<1>7. d.no \in Nat /\ d.no <= sendNo
    BY <1>2 DEF TypeOK
<1>. QED  BY <1>3, <1>4, <1>6, <1>7, Zenon

\* Every step keeps the order.
LEMMA OrderStep == IInv /\ OrderInv /\ [Next]_vars => OrderInv'
<1>. SUFFICES ASSUME IInv, OrderInv, [Next]_vars  PROVE OrderInv'
    OBVIOUS
<1>. USE DEF OrderInv, Live, srvVars, fromVars, sessVars, ownVars
<1>0. /\ TypeOK /\ SessionInv /\ SocketInv /\ sendNo \in Nat /\ rx \in Seq(Datagram)
      /\ \A p \in Peer, s \in Session :
            srv # "deleted" => (map[p] = s <=> Live(s) /\ peerOf[s] = p)
      /\ srv = "deleted" => \A s \in Session : ~Live(s)
      /\ map \in [Peer -> Session \cup {None}]
      /\ sess \in [Session -> {"none", "created", "waiting", "running"}]
      /\ peerOf \in [Session -> Peer \cup {None}]
      /\ inbox \in [Session -> Seq(1 .. MaxSend)]
      /\ handled \in [Peer -> Seq(1 .. MaxSend)]
    BY DEF IInv, TypeOK, MapMatchesSessions
<1>00. /\ \A s \in Session : inbox[s] \in Seq(Nat)
       /\ \A p \in Peer : handled[p] \in Seq(Nat)
    <2>1. \A q \in Seq(1 .. MaxSend) : q \in Seq(Nat)
        BY SeqMonotonic
    <2>. QED  BY <1>0, <2>1
<1>000. sendNo \in Nat
    BY <1>0
<1>1. CASE UNCHANGED <<rx, sendNo, handled, inbox, peerOf>>
           /\ \A s \in Session : Live(s)' => Live(s)
    BY <1>0, <1>1
<1>2. ASSUME NEW p \in Peer, NEW empty \in BOOLEAN, Arrive(p, empty)  PROVE OrderInv'
    <2>. DEFINE d == [from |-> p, no |-> IF empty THEN 0 ELSE sendNo + 1]
    <2>1. /\ rx' = Append(rx, d) /\ sendNo' = sendNo + 1
          /\ UNCHANGED <<handled, inbox, peerOf, sess>>
        BY <1>2 DEF Arrive
    <2>2. d \in Datagram /\ d.no \in {0, sendNo + 1}
        BY <1>0 DEF Datagram
    <2>. HIDE DEF d
    <2>3. \A q \in Seq(Nat) : \A r : UpTo(q, sendNo) /\ Ahead(q, rx, r)
             => Ahead(q, rx', r) /\ UpTo(q, sendNo')
        BY <1>0, <2>1, <2>2, ArrivesBehind
    <2>4. ASSUME NEW r \in Peer
          PROVE  /\ Increasing(handled[r]) /\ UpTo(handled[r], sendNo')
                 /\ Ahead(handled[r], rx', r)
        BY <1>00, <2>3
    <2>5. ASSUME NEW s \in Session
          PROVE  /\ Increasing(inbox[s]) /\ UpTo(inbox[s], sendNo')
                 /\ Live(s) => /\ Before(handled[peerOf[s]], inbox[s])
                               /\ Ahead(inbox[s], rx', peerOf[s])
        <3>1. Increasing(inbox[s]) /\ UpTo(inbox[s], sendNo) /\ inbox[s] \in Seq(Nat)
              /\ (Live(s) => Ahead(inbox[s], rx, peerOf[s]))
            BY <1>00
        <3>2. ~Live(s) => inbox[s] = <<>>
            BY <1>0 DEF SessionInv
        <3>3. UpTo(inbox[s], sendNo')
            <4>1. CASE Live(s)   BY <2>3, <3>1, <4>1
            <4>2. CASE ~Live(s)  BY <3>2, <4>2, EmptySeq DEF UpTo
            <4>. QED  BY <4>1, <4>2
        <3>. QED  BY <2>3, <3>1, <3>3
    <2>. QED  BY <2>1, <2>4, <2>5
<1>3. ASSUME ServerForwards  PROVE OrderInv'
    <2>1. PICK d \in Range(rx) :
             /\ ServerReceives(d) /\ d.no # 0 /\ map[d.from] # None
             /\ inbox' \in {[inbox EXCEPT ![map[d.from]] = Append(@, d.no)], inbox}
             /\ UNCHANGED <<srv, sess, peerOf, ev, ownVars, sendNo, handled, quit>>
        BY <1>3 DEF ServerForwards
    <2>2. TakeDatagram(d) /\ srv = "waiting" /\ d.from \in Peer
        BY <1>0, <2>1, Taking DEF ServerReceives
    <2>3. PICK s \in Session : s = map[d.from] /\ Live(s) /\ peerOf[s] = d.from
        BY <1>0, <2>1, <2>2
    <2>4. \A q, p : Ahead(q, rx, p) => Ahead(q, rx', p)
        BY <1>0, <2>2, TakenFirst
    <2>5. CASE inbox' = inbox
        BY <1>0, <2>1, <2>4, <2>5
    <2>6. CASE inbox' = [inbox EXCEPT ![s] = Append(@, d.no)]
        <3>1. /\ \A i \in 1 .. Len(inbox[s]) : inbox[s][i] < d.no
              /\ \A i \in 1 .. Len(handled[d.from]) : handled[d.from][i] < d.no
              /\ Ahead(<<d.no>>, rx', d.from) /\ Ahead(inbox[s], rx', d.from)
              /\ d.no \in Nat /\ d.no <= sendNo
            BY <1>0, <2>1, <2>2, <2>3, <2>4, TakenFirst
        <3>2. /\ inbox'[s] = Append(inbox[s], d.no) /\ inbox[s] \in Seq(Nat)
              /\ Increasing(inbox[s]) /\ Before(handled[d.from], inbox[s])
            BY <1>0, <1>00, <2>3, <2>6
        <3>3. Increasing(inbox'[s])
            BY <3>1, <3>2, Grows
        <3>4. UpTo(inbox'[s], sendNo)
            BY <1>000, <3>1, <3>2, Grows
        <3>5. Before(handled[d.from], inbox'[s])
            BY <3>1, <3>2, Grows
        <3>7. Ahead(inbox'[s], rx', d.from)
            BY <3>1, <3>2, Grows
        <3>6. \A t \in Session : t # s => inbox'[t] = inbox[t]
            BY <1>0, <2>6
        <3>. QED
            BY <1>0, <2>1, <2>3, <2>4, <3>3, <3>4, <3>5, <3>6, <3>7
    <2>. QED  BY <2>1, <2>3, <2>5, <2>6
<1>4. ASSUME ServerRefuses \/ ServerIgnores  PROVE OrderInv'
    <2>1. /\ \E d : TakeDatagram(d)
          /\ UNCHANGED <<sess, peerOf, inbox, sendNo, handled>>
        BY <1>4 DEF ServerRefuses, ServerIgnores, ServerReceives
    <2>2. \A q, p : Ahead(q, rx, p) => Ahead(q, rx', p)
        BY <1>0, <2>1, TakenFirst
    <2>. QED  BY <2>1, <2>2
<1>5. ASSUME NEW s \in Session, ServerCreates(s)  PROVE OrderInv'
    <2>1. PICK d \in Range(rx) :
             /\ ServerReceives(d) /\ d.no # 0 /\ CreateFor(s, d)
             /\ UNCHANGED <<srv, base, doubled, sendNo, handled, quit>>
        BY <1>5 DEF ServerCreates
    <2>2. TakeDatagram(d) /\ d.from \in Peer
        BY <1>0, <2>1, Taking DEF ServerReceives
    <2>3. /\ \A q, p : Ahead(q, rx, p) => Ahead(q, rx', p)
          /\ \A i \in 1 .. Len(handled[d.from]) : handled[d.from][i] < d.no
          /\ Ahead(<<d.no>>, rx', d.from)
          /\ d.no \in Nat /\ d.no <= sendNo
        BY <1>0, <2>1, <2>2, TakenFirst
    <2>4. inbox'[s] \in {<<d.no>>, <<>>} /\ peerOf'[s] = d.from
          /\ \A t \in Session : t # s => /\ inbox'[t] = inbox[t] /\ sess'[t] = sess[t]
                                         /\ peerOf'[t] = peerOf[t]
        BY <1>0, <2>1 DEF CreateFor
    <2>5. /\ Increasing(inbox'[s]) /\ UpTo(inbox'[s], sendNo)
          /\ Before(handled[d.from], inbox'[s]) /\ Ahead(inbox'[s], rx', d.from)
        <3>1. CASE inbox'[s] = <<>>
            BY <3>1, EmptySeq DEF Increasing, UpTo, Before, Ahead
        <3>2. CASE inbox'[s] = <<d.no>>
            <4>1. Len(inbox'[s]) = 1 /\ inbox'[s][1] = d.no
                BY <3>2
            <4>2. \A i \in 1 .. Len(inbox'[s]) : i = 1 /\ inbox'[s][i] = d.no
                BY <4>1
            <4>3. Increasing(inbox'[s]) /\ UpTo(inbox'[s], sendNo)
                BY <2>3, <4>1, <4>2 DEF Increasing, UpTo
            <4>. QED  BY <2>3, <3>2, <4>2, <4>3 DEF Before
        <3>. QED  BY <2>4, <3>1, <3>2
    <2>. QED  BY <2>1, <2>3, <2>4, <2>5
<1>6. ASSUME EndServer  PROVE OrderInv'
    <2>1. /\ \A q, p : Ahead(q, rx', p) /\ Increasing(<<>>) /\ UpTo(<<>>, sendNo)
          /\ UNCHANGED <<handled, sendNo>>
        BY <1>6, EmptySeq DEF EndServer, Ahead, Increasing, UpTo
    <2>2. \A s \in Session :
             \/ inbox'[s] = inbox[s] /\ sess'[s] = sess[s] /\ peerOf'[s] = peerOf[s]
             \/ inbox'[s] = <<>> /\ sess'[s] = "none"
        BY <1>0, <1>6 DEF EndServer
    <2>. QED  BY <2>1, <2>2
<1>7. ASSUME WorkerReceives  PROVE OrderInv'
    <2>1. PICK d \in Range(rx) :
             /\ srv = "receiving" /\ TakeDatagram(d) /\ srv' = "running"
             /\ handled' = IF d.no = 0 THEN handled
                           ELSE [handled EXCEPT ![d.from] = Append(@, d.no)]
             /\ UNCHANGED <<sessVars, ownVars, sendNo, quit>>
        BY <1>7 DEF WorkerReceives
    <2>2. d.from \in Peer /\ \A s \in Session : ~Live(s)
        BY <1>0, <2>1, Taking DEF SessionInv, Plain
    <2>3. \A q, p : Ahead(q, rx, p) => Ahead(q, rx', p)
        BY <1>0, <2>1, TakenFirst
    <2>4. CASE d.no = 0
        BY <1>0, <2>1, <2>2, <2>3, <2>4
    <2>5. CASE d.no # 0
        <3>1. /\ \A i \in 1 .. Len(handled[d.from]) : handled[d.from][i] < d.no
              /\ Ahead(<<d.no>>, rx', d.from) /\ Ahead(handled[d.from], rx', d.from)
              /\ d.no \in Nat /\ d.no <= sendNo
            BY <1>0, <2>1, <2>2, <2>3, <2>5, TakenFirst
        <3>2. /\ handled'[d.from] = Append(handled[d.from], d.no)
              /\ handled[d.from] \in Seq(Nat) /\ Increasing(handled[d.from])
            BY <1>0, <1>00, <2>1, <2>2, <2>5
        <3>3. Increasing(handled'[d.from]) /\ UpTo(handled'[d.from], sendNo)
            BY <1>000, <3>1, <3>2, Grows
        <3>5. Ahead(handled'[d.from], rx', d.from)
            <4>1. Ahead(Append(handled[d.from], d.no), rx', d.from)
                BY <3>1, <3>2, Grows
            <4>. QED  BY <3>2, <4>1
        <3>4. \A p \in Peer : p # d.from => handled'[p] = handled[p]
            BY <1>0, <2>1, <2>5
        <3>. QED  BY <2>1, <2>2, <2>3, <3>3, <3>4, <3>5
    <2>. QED  BY <2>4, <2>5
<1>8. ASSUME NEW s \in Session, SessionTakes(s)  PROVE OrderInv'
    <2>. DEFINE p == peerOf[s]
    <2>1. p \in Peer /\ Live(s) /\ inbox[s] \in Seq(Nat) /\ inbox[s] # <<>>
          /\ \A t \in Session : Live(t) /\ peerOf[t] = p => t = s
        BY <1>0, <1>00, <1>8 DEF SessionTakes, SessionInv
    <2>2. /\ handled' = [handled EXCEPT ![p] = Append(@, Head(inbox[s]))]
          /\ inbox' = [inbox EXCEPT ![s] = Tail(@)]
          /\ UNCHANGED <<rx, sess, peerOf, sendNo>>
        BY <1>8 DEF SessionTakes
    <2>. DEFINE n == Head(inbox[s])
    <2>3. /\ handled'[p] = Append(handled[p], n) /\ handled[p] \in Seq(Nat)
          /\ Increasing(handled[p]) /\ Ahead(handled[p], rx, p)
          /\ inbox'[s] = Tail(inbox[s]) /\ Increasing(inbox[s]) /\ UpTo(inbox[s], sendNo)
          /\ Before(handled[p], inbox[s]) /\ Ahead(inbox[s], rx, p)
        BY <1>0, <1>00, <2>1, <2>2
    <2>. HIDE DEF p
    <2>4. /\ Increasing(inbox'[s]) /\ UpTo(inbox'[s], sendNo) /\ Ahead(inbox'[s], rx, p)
          /\ Before(handled[p], inbox'[s])
          /\ n \in Nat /\ n <= sendNo /\ Ahead(<<n>>, rx, p)
          /\ \A i \in 1 .. Len(inbox'[s]) : n < inbox'[s][i]
          /\ \A i \in 1 .. Len(handled[p]) : handled[p][i] < n
        BY <2>1, <2>3, Shrinks
    <2>. HIDE DEF n
    <2>5. Increasing(handled'[p]) /\ UpTo(handled'[p], sendNo) /\ Ahead(handled'[p], rx, p)
        BY <1>000, <2>3, <2>4, Grows
    <2>6. Before(handled'[p], inbox'[s])
        BY <2>3, <2>4, Grows
    <2>9. /\ \A q \in Peer : q # p => handled'[q] = handled[q]
          /\ \A t \in Session : t # s => inbox'[t] = inbox[t]
        BY <1>0, <2>2
    <2>10. \A t \in Session : Live(t) /\ t # s => peerOf[t] \in Peer /\ peerOf[t] # p
        BY <1>0, <2>1 DEF SessionInv
    <2>11. peerOf[s] = p
        BY DEF p
    <2>12. ASSUME NEW q \in Peer
           PROVE  /\ Increasing(handled'[q]) /\ UpTo(handled'[q], sendNo)
                  /\ Ahead(handled'[q], rx, q)
        BY <2>5, <2>9
    <2>13. ASSUME NEW t \in Session
           PROVE  /\ Increasing(inbox'[t]) /\ UpTo(inbox'[t], sendNo)
                  /\ Live(t) => /\ Before(handled'[peerOf[t]], inbox'[t])
                                /\ Ahead(inbox'[t], rx, peerOf[t])
        <3>1. CASE t = s  BY <2>4, <2>6, <2>11, <3>1
        <3>2. CASE t # s  BY <2>9, <2>10, <3>2
        <3>. QED  BY <3>1, <3>2
    <2>. QED  BY <2>2, <2>12, <2>13
<1>9. ASSUME NEW s \in Session, SessionReturns(s)  PROVE OrderInv'
    <2>1. Increasing(<<>>) /\ UpTo(<<>>, sendNo)
        BY EmptySeq DEF Increasing, UpTo
    <2>. QED  BY <1>0, <1>9, <2>1 DEF SessionReturns
<1>10. ASSUME NEW s \in Session, SessionActivated(s) \/ SessionResumes(s) \/ SessionWaits(s)
       PROVE  OrderInv'
    BY <1>0, <1>1, <1>10 DEF SessionActivated, SessionResumes, SessionWaits, SessionInv
<1>11. ASSUME QuitServer \/ ServerStarts \/ ServerReadable \/ WorkerTimer \/ WorkerResumes
                 \/ DeleteBase \/ (\E where \in {"receiving", "sleeping"} : WorkerWaits(where))
                 \/ UNCHANGED vars
       PROVE  OrderInv'
    BY <1>1, <1>11 DEF QuitServer, ServerStarts, ServerReadable, WorkerTimer, WorkerResumes,
                       DeleteBase, WorkerWaits, vars
<1>12. ASSUME ServerQuits \/ WorkerReturns  PROVE EndServer
    BY <1>12 DEF ServerQuits, WorkerReturns
<1>. HIDE DEF OrderInv
<1>. QED
    BY <1>2, <1>3, <1>4, <1>5, <1>6, <1>7, <1>8, <1>9, <1>10, <1>11, <1>12 DEF Next

\* At the start nothing has been sent.
LEMMA InitOrder == Init => OrderInv
<1>1. /\ Increasing(<<>>) /\ UpTo(<<>>, 0)
      /\ \A p : Ahead(<<>>, <<>>, p)
    BY EmptySeq DEF Increasing, UpTo, Ahead
<1>. QED  BY <1>1 DEF Init, OrderInv, Live

\* The datagrams of a peer that its workers got, that wait for its session's
\* recv and that are in the server's socket are in the order they were sent,
\* each once, across the sessions the peer has had: forward_incoming_data()
\* and the map keep one path for each peer.
THEOREM Order == Spec => []PerPeerOrder
<1>1. IInv /\ OrderInv => PerPeerOrder
    <2>. SUFFICES ASSUME IInv, OrderInv, NEW p \in Peer
         PROVE  /\ \A i, j \in 1 .. Len(Forwarded(p)) :
                      i < j => Forwarded(p)[i] < Forwarded(p)[j]
                /\ \A i, j \in Queued(p) : i < j => rx[i].no < rx[j].no
                /\ \A i \in 1 .. Len(Forwarded(p)), j \in Queued(p) :
                      Forwarded(p)[i] < rx[j].no
        BY DEF PerPeerOrder
    <2>. DEFINE h == handled[p]  b == IF map[p] = None THEN <<>> ELSE inbox[map[p]]
    <2>1. /\ \A s \in Session :
                srv # "deleted" => (map[p] = s <=> Live(s) /\ peerOf[s] = p)
          /\ srv = "deleted" => \A s \in Session : ~Live(s)
          /\ map[p] \in Session \cup {None}
          /\ \A s \in Session : /\ ~Live(s) => inbox[s] = <<>>
                                /\ inbox[s] \in Seq(1 .. MaxSend)
          /\ h \in Seq(1 .. MaxSend) /\ SocketInv
        BY DEF IInv, TypeOK, MapMatchesSessions, SessionInv
    <2>2. /\ Increasing(h) /\ Ahead(h, rx, p)
          /\ Increasing(b) /\ Before(h, b) /\ Ahead(b, rx, p) /\ b \in Seq(1 .. MaxSend)
        <3>1. Increasing(h) /\ Ahead(h, rx, p)
            BY DEF OrderInv
        <3>2. CASE b = <<>>
            <4>1. Increasing(<<>>) /\ Ahead(<<>>, rx, p) /\ \A q : Before(q, <<>>)
                BY EmptySeq DEF Increasing, Before, Ahead
            <4>2. <<>> \in Seq(1 .. MaxSend)
                BY EmptySeq
            <4>. HIDE DEF b
            <4>. QED  BY <3>1, <3>2, <4>1, <4>2
        <3>3. CASE b # <<>>
            <4>1. PICK s \in Session : map[p] = s /\ b = inbox[s]
                BY <2>1, <3>3
            <4>2. Live(s) /\ peerOf[s] = p
                BY <2>1, <3>3, <4>1
            <4>. QED  BY <2>1, <3>1, <4>1, <4>2 DEF OrderInv
        <3>. QED  BY <3>2, <3>3
    <2>3. Forwarded(p) = h \o b
        BY DEF Forwarded
    <2>. HIDE DEF h, b
    <2>. DEFINE f == h \o b
    <2>4. /\ Len(h) \in Nat /\ Len(b) \in Nat /\ Len(f) = Len(h) + Len(b)
          /\ \A i \in 1 .. Len(f) : f[i] = IF i <= Len(h) THEN h[i] ELSE b[i - Len(h)]
        BY <2>1, <2>2, ConcatProperties, LenProperties
    <2>. HIDE DEF f
    <2>5. ASSUME NEW i \in 1 .. Len(f), NEW j \in 1 .. Len(f), i < j  PROVE f[i] < f[j]
        <3>1. CASE j <= Len(h)
            <4>1. i \in 1 .. Len(h) /\ j \in 1 .. Len(h) /\ f[i] = h[i] /\ f[j] = h[j]
                BY <2>4, <2>5, <3>1
            <4>. QED  BY <2>2, <2>5, <4>1 DEF Increasing
        <3>2. CASE i <= Len(h) /\ ~(j <= Len(h))
            <4>1. /\ i \in 1 .. Len(h) /\ j - Len(h) \in 1 .. Len(b)
                  /\ f[i] = h[i] /\ f[j] = b[j - Len(h)]
                BY <2>4, <3>2
            <4>. QED  BY <2>2, <4>1 DEF Before
        <3>3. CASE ~(i <= Len(h))
            <4>1. /\ i - Len(h) \in 1 .. Len(b) /\ j - Len(h) \in 1 .. Len(b)
                  /\ f[i] = b[i - Len(h)] /\ f[j] = b[j - Len(h)]
                  /\ i - Len(h) < j - Len(h)
                BY <2>4, <2>5, <3>3
            <4>. QED  BY <2>2, <4>1 DEF Increasing
        <3>. QED  BY <2>4, <3>1, <3>2, <3>3
    <2>6. \A i, j \in Queued(p) : i < j => rx[i].no < rx[j].no
        BY <2>1 DEF Queued, SocketInv
    <2>7. ASSUME NEW i \in 1 .. Len(f), NEW j \in Queued(p)  PROVE f[i] < rx[j].no
        <3>1. j \in 1 .. Len(rx) /\ rx[j].from = p /\ rx[j].no # 0
            BY DEF Queued
        <3>2. CASE i <= Len(h)
            <4>1. i \in 1 .. Len(h) /\ f[i] = h[i]
                BY <2>4, <3>2
            <4>. QED  BY <2>2, <3>1, <4>1 DEF Ahead
        <3>3. CASE ~(i <= Len(h))
            <4>1. i - Len(h) \in 1 .. Len(b) /\ f[i] = b[i - Len(h)]
                BY <2>4, <3>3
            <4>. QED  BY <2>2, <3>1, <4>1 DEF Ahead
        <3>. QED  BY <3>2, <3>3
    <2>8. Forwarded(p) = f
        BY <2>3 DEF f
    <2>. QED  BY <2>5, <2>6, <2>7, <2>8
<1>. QED  BY Inductive, InitOrder, OrderStep, <1>1, PTL DEF Spec
=============================================================================
