---------------------------- MODULE LifetimeProofs ----------------------------
(***************************************************************************)
(* Theorems about Lifetime, for any sets of sessions, sub routines and     *)
(* clients, and whatever the workers permit themselves.                    *)
(***************************************************************************)
EXTENDS Lifetime, FiniteSetTheorems, TLAPS

USE ObjectsAssumption DEF Proc, NetClient, Client, Object

\* p has c: as a client of its own, or inside a DNS client of its own.
Has(p, c) == c \in chain[p] \/ \E d \in chain[p] \cap DnsClient : c = inner[d]

\* Live objects form trees.  A procedure that exists has a coroutine and a
\* chain of live clients; a live client is in the chain of its owner, or inside
\* a DNS client that is; and no two DNS clients share what is inside.
TreeInv ==
    /\ \A p \in Proc :
          /\ p \in live <=> co[p] # "none"
          /\ p \notin live => chain[p] = {}
    /\ \A c \in live \cap NetClient : owner[c] \in live /\ Has(owner[c], c)
    /\ \A d \in live \cap DnsClient : \E p \in live \cap Proc : d \in chain[p]
    /\ \A p \in Proc : \A c \in chain[p] :
          /\ c \in live
          /\ c \in NetClient => owner[c] = p
          /\ c \in DnsClient => /\ inner[c] \in live \cap UdpClient
                                /\ owner[inner[c]] = p
                                /\ inner[c] \notin chain[p]
    /\ \A p, q \in Proc : \A d \in chain[p] \cap DnsClient, e \in chain[q] \cap DnsClient :
          /\ d = e => p = q
          /\ inner[d] = inner[e] => d = e

\* The events in the loop and the coroutines that wait correspond: each event
\* is a live object's that resumes a suspended coroutine, and no coroutine has
\* two or, while it is suspended, none.
WakeInv ==
    /\ \A o \in pending : /\ o \in live
                          /\ Resumed(o) \in Proc /\ co[Resumed(o)] = "suspended"
    /\ \A o, u \in pending : Resumed(o) = Resumed(u) => o = u
    /\ \A p \in Proc : co[p] = "suspended" => \E o \in pending : Resumed(o) = p
    /\ \A p \in Proc : co[p] = "running" <=> p = running

\* The base has a pointer to every object but sub routines of the program's, and
\* knows of every deletion but those in untold; the server's map has an entry
\* for every session that exists.
HandleInv ==
    /\ live \ control \subseteq Routine
    /\ control \ live \subseteq untold
    /\ map = live \cap Session

\* The object whose callback is on the stack exists as long as the worker has
\* not deleted it, and the coroutine that runs is the one that it resumes.
ArgumentInv == cb # None /\ ~sawn => cb \in live /\ Resumed(cb) = running

\* A coroutine runs exactly while a callback is on the stack.  When the base
\* is gone nothing runs, and no client is left.
StackInv ==
    /\ running = None <=> cb = None
    /\ cb = None => ~sawn
    /\ base = "freed" => cb = None /\ live \cap Client = {}

HeapInv == TreeInv /\ WakeInv /\ HandleInv /\ ArgumentInv

IInv == TypeOK /\ StackInv /\ (base = "alive" => HeapInv)

-----------------------------------------------------------------------------

\* An empty process satisfies the invariant.
LEMMA InitInv == Init => IInv
<1>1. Init => TypeOK
    BY DEF Init, TypeOK
<1>2. Init => StackInv
    BY DEF Init, StackInv
<1>3. Init => TreeInv /\ WakeInv
    BY DEF Init, TreeInv, WakeInv
<1>4. Init => HandleInv /\ ArgumentInv
    BY DEF Init, HandleInv, ArgumentInv
<1>. QED  BY <1>1, <1>2, <1>3, <1>4 DEF IInv, HeapInv

\* A procedure's members, and what dies with it, in terms of Has.
LEMMA Members ==
    ASSUME NEW p \in Proc
    PROVE  /\ \A x : x \in Inside(p) <=> Has(p, x)
           /\ \A x : x \in Destroyed(p) <=> x = p \/ Has(p, x)
BY DEF Inside, Destroyed, WithInner, Has

\* What a DNS client in a tree has inside is a UDP client.
LEMMA InsideDns ==
    ASSUME TypeOK, TreeInv
    PROVE  /\ \A d \in live \cap DnsClient : inner[d] \in UdpClient
           /\ \A p \in Proc : Insides(Destroyed(p)) \subseteq UdpClient
<1>1. \A d \in live \cap DnsClient : inner[d] \in UdpClient
    BY DEF TreeInv
<1>2. ASSUME NEW p \in Proc  PROVE Insides(Destroyed(p)) \subseteq UdpClient
    <2>1. \A d \in Destroyed(p) \cap DnsClient : d \in chain[p]
        BY Members DEF TypeOK, TreeInv, Has
    <2>. QED  BY <2>1 DEF Insides, TreeInv
<1>. QED  BY <1>1, <1>2

\* Every step keeps the types.
LEMMA TypeStep ==
    ASSUME TypeOK, StackInv, TreeInv, WakeInv, Next  PROVE TypeOK'
<1>. USE DEF TypeOK, heap, serverVars, NoMisuse
<1>0. running # None => running \in live \cap Proc
    BY DEF TreeInv, WakeInv
<1>1. ASSUME NEW s \in Session, StartSession(s) \/ ForwardTo(s)  PROVE TypeOK'
    BY <1>1 DEF StartSession, ForwardTo
<1>2. ASSUME NEW r \in Routine, DeleteRoutine(r)  PROVE TypeOK'
    BY <1>2, InsideDns DEF DeleteRoutine, DeleteObject, DelEvents
<1>3. ASSUME NEW r \in Routine, NEW autoFree \in BOOLEAN, StartRoutine(r, autoFree)
      PROVE  TypeOK'
    BY <1>3 DEF StartRoutine
<1>4. ASSUME NEW o \in Proc \cup NetClient, Dispatch(o)  PROVE TypeOK'
    BY <1>4 DEF Dispatch, Resumed
<1>5. ASSUME NEW o \in Proc \cup NetClient, Wait(o)  PROVE TypeOK'
    BY <1>5 DEF Wait, AddEvent, BackInCallback, StackInv
<1>6. ASSUME NEW c \in NetClient, NewNetClient(c)  PROVE TypeOK'
    BY <1>6 DEF NewNetClient
<1>7. ASSUME NEW c \in DnsClient, NewDnsClientFails(c)  PROVE TypeOK'
    BY <1>7 DEF NewDnsClientFails
<1>8. ASSUME NEW c \in DnsClient, NEW u \in UdpClient, NewDnsClient(c, u)  PROVE TypeOK'
    BY <1>8 DEF NewDnsClient
<1>9. ASSUME NEW c \in Client, DeleteClient(c)  PROVE TypeOK'
    <2>1. Insides(Destroyed(c)) \subseteq UdpClient
        BY <1>0, <1>9 DEF DeleteClient, Insides, Destroyed, WithInner, TreeInv
    <2>. QED
        BY <1>9, <2>1 DEF DeleteClient, DeleteUnderControl, DeleteObject, DelEvents
<1>10. ASSUME Return  PROVE TypeOK'
    <2>1. Insides(Destroyed(running)) \subseteq UdpClient
        BY <1>0, <1>10, InsideDns DEF Return
    <2>. QED
        BY <1>10, <2>1
           DEF Return, NotifySessionEnds, DeleteUnderControl, DeleteObject, DelEvents,
               BackInCallback, StackInv
<1>11. ASSUME DeleteBase  PROVE TypeOK'
    <2>. DEFINE gone == UNION {Destroyed(o) : o \in control \cap live}
    <2>1. Insides(gone) \subseteq UdpClient
        <3>1. ASSUME NEW o \in control \cap live, NEW d \in Destroyed(o) \cap DnsClient
              PROVE  inner[d] \in UdpClient
            <4>1. CASE o \in Proc
                BY <3>1, <4>1, InsideDns DEF Insides
            <4>2. CASE o \notin Proc
                BY <3>1, <4>2, InsideDns DEF Destroyed, WithInner
            <4>. QED  BY <4>1, <4>2
        <3>. QED  BY <3>1 DEF Insides
    <2>2. untold' \subseteq Object
        BY <1>11, <2>1 DEF DeleteBase
    <2>. QED  BY <1>11, <2>2 DEF DeleteBase
<1>12. ASSUME EndServer  PROVE TypeOK'
    BY <1>12 DEF EndServer
<1>13. ASSUME DeleteServer  PROVE TypeOK'
    <2>. DEFINE gone == UNION {Destroyed(s) : s \in map \cup outlived}
    <2>1. Insides(gone) \subseteq UdpClient
        BY InsideDns DEF Insides
    <2>2. untold' \subseteq Object
        BY <1>13, <2>1 DEF DeleteServer
    <2>. QED  BY <1>13, <2>2 DEF DeleteServer, DelEvents
<1>. HIDE DEF TypeOK, heap, serverVars, NoMisuse, Proc, NetClient, Client, Object
<1>. QED
    BY <1>1, <1>2, <1>3, <1>4, <1>5, <1>6, <1>7, <1>8, <1>9, <1>10, <1>11, <1>12, <1>13
       DEF Next

-----------------------------------------------------------------------------
(* The trees.                                                              *)

\* The destructors of procedures leave no part of their trees, and take no part
\* of another.
LEMMA ProcsDie ==
    ASSUME TypeOK, TreeInv, NEW P \in SUBSET Proc, NEW gone,
           \A x : x \in gone <=> \E p \in P : x \in Destroyed(p),
           live' = live \ gone,
           \A q \in Proc : /\ chain'[q] = IF q \in P THEN {} ELSE chain[q]
                           /\ co'[q] = IF q \in P THEN "none" ELSE co[q],
           UNCHANGED <<owner, inner>>
    PROVE  TreeInv'
<1>. USE Members DEF Has
<1>1. \A q \in Proc : \A x : q \notin P /\ Has(q, x) => x \notin gone
    BY DEF TreeInv, TypeOK
<1>2. \A q \in Proc : q \in gone <=> q \in P
    BY DEF TypeOK
<1>4. \A q \in Proc :
          /\ q \in live' <=> co'[q] # "none"
          /\ q \notin live' => chain'[q] = {}
    BY <1>2 DEF TreeInv
<1>5. ASSUME NEW c \in live' \cap NetClient
      PROVE  owner'[c] \in live' /\ Has(owner[c], c)'
    <2>1. c \in live /\ c \notin gone /\ owner[c] \in live /\ Has(owner[c], c)
          /\ owner[c] \in Proc
        BY <1>5 DEF TreeInv, TypeOK
    <2>2. owner[c] \notin P
        BY <2>1
    <2>. QED  BY <1>2, <2>1, <2>2
<1>6. ASSUME NEW d \in live' \cap DnsClient
      PROVE  \E q \in live' \cap Proc : d \in chain'[q]
    <2>1. PICK q \in live \cap Proc : d \in chain[q]
        BY DEF TreeInv
    <2>2. q \notin P
        BY <2>1
    <2>. QED  BY <1>2, <2>1, <2>2
<1>7. \A q \in Proc : \A c \in chain'[q] :
          /\ c \in live'
          /\ c \in NetClient => owner'[c] = q
          /\ c \in DnsClient => /\ inner'[c] \in live' \cap UdpClient
                                /\ owner'[inner'[c]] = q
                                /\ inner'[c] \notin chain'[q]
    BY <1>1 DEF TreeInv, TypeOK
<1>8. \A q, r \in Proc :
          \A d \in chain'[q] \cap DnsClient, e \in chain'[r] \cap DnsClient :
              /\ d = e => q = r
              /\ inner'[d] = inner'[e] => d = e
    BY DEF TreeInv
<1>. QED  BY <1>4, <1>5, <1>6, <1>7, <1>8 DEF TreeInv

\* delete_client() takes a client, and what is inside, out of one tree.
LEMMA ClientDies ==
    ASSUME TypeOK, TreeInv, NEW c \in Client, running \in live \cap Proc,
           c \in chain[running],
           live' = live \ Destroyed(c),
           chain' = [chain EXCEPT ![running] = @ \ {c}],
           UNCHANGED <<owner, inner, co>>
    PROVE  TreeInv'
<1>. USE DEF Has
<1>1. Destroyed(c) = {c} \cup (IF c \in DnsClient THEN {inner[c]} ELSE {})
    BY DEF Destroyed, WithInner
<1>2. \A q \in Proc :
          /\ chain'[q] = chain[q] \ {c}
          /\ q \in live' <=> q \in live
    BY <1>1 DEF TreeInv, TypeOK
<1>3. \A q \in Proc :
          /\ q \in live' <=> co'[q] # "none"
          /\ q \notin live' => chain'[q] = {}
    BY <1>2 DEF TreeInv
<1>4. \A x \in live' \cap NetClient : owner'[x] \in live' /\ Has(owner[x], x)'
    BY <1>1, <1>2 DEF TreeInv, TypeOK
<1>5. \A d \in live' \cap DnsClient : \E q \in live' \cap Proc : d \in chain'[q]
    BY <1>1, <1>2 DEF TreeInv, TypeOK
<1>6. \A q \in Proc : \A x \in chain'[q] :
          /\ x \in live'
          /\ x \in NetClient => owner'[x] = q
          /\ x \in DnsClient => /\ inner'[x] \in live' \cap UdpClient
                                /\ owner'[inner'[x]] = q
                                /\ inner'[x] \notin chain'[q]
    BY <1>1, <1>2 DEF TreeInv, TypeOK
<1>7. \A q, r \in Proc :
          \A d \in chain'[q] \cap DnsClient, e \in chain'[r] \cap DnsClient :
              /\ d = e => q = r
              /\ inner'[d] = inner'[e] => d = e
    BY <1>2 DEF TreeInv
<1>. QED  BY <1>3, <1>4, <1>5, <1>6, <1>7 DEF TreeInv

\* Every step keeps the trees as long as the base stands.
LEMMA TreeStep ==
    ASSUME TypeOK, StackInv, TreeInv, WakeInv, HandleInv, Next, base' = "alive"
    PROVE  TreeInv'
<1>. USE DEF TypeOK, serverVars
<1>0. running # None => running \in live \cap Proc
    BY DEF TreeInv, WakeInv
<1>1. ASSUME NEW s \in Session, StartSession(s)  PROVE TreeInv'
    BY <1>1 DEF StartSession, TreeInv, Has
<1>2. ASSUME NEW s \in Session, ForwardTo(s)  PROVE TreeInv'
    BY <1>2 DEF ForwardTo, heap, TreeInv, Has
<1>3. ASSUME NEW r \in Routine, DeleteRoutine(r)  PROVE TreeInv'
    <2>1. /\ live' = live \ Destroyed(r) /\ UNCHANGED <<owner, inner>>
          /\ \A q \in Proc : /\ chain'[q] = IF q \in {r} THEN {} ELSE chain[q]
                             /\ co'[q] = IF q \in {r} THEN "none" ELSE co[q]
        BY <1>3 DEF DeleteRoutine, DeleteObject
    <2>2. {r} \in SUBSET Proc
        OBVIOUS
    <2>. QED  BY <2>1, <2>2, ProcsDie
<1>4. ASSUME NEW r \in Routine, NEW autoFree \in BOOLEAN, StartRoutine(r, autoFree)
      PROVE  TreeInv'
    BY <1>4 DEF StartRoutine, TreeInv, Has
<1>5. ASSUME NEW o \in Proc \cup NetClient, Dispatch(o)  PROVE TreeInv'
    BY <1>5 DEF Dispatch, heap, TreeInv, WakeInv, Has
<1>6. ASSUME NEW o \in Proc \cup NetClient, Wait(o)  PROVE TreeInv'
    BY <1>0, <1>6 DEF Wait, heap, TreeInv, Has
<1>7. ASSUME NEW c \in NetClient, NewNetClient(c)  PROVE TreeInv'
    BY <1>0, <1>7 DEF NewNetClient, TreeInv, Has
<1>8. ASSUME NEW c \in DnsClient, NewDnsClientFails(c)  PROVE TreeInv'
    BY <1>8 DEF NewDnsClientFails, TreeInv, Has
<1>9. ASSUME NEW c \in DnsClient, NEW u \in UdpClient, NewDnsClient(c, u)
      PROVE  TreeInv'
    BY <1>0, <1>9 DEF NewDnsClient, TreeInv, Has
<1>10. ASSUME NEW c \in Client, DeleteClient(c)  PROVE TreeInv'
    BY <1>0, <1>10, ClientDies DEF DeleteClient, DeleteUnderControl, DeleteObject
<1>11. ASSUME Return  PROVE TreeInv'
    <2>1. CASE running \in control
        <3>1. /\ live' = live \ Destroyed(running) /\ UNCHANGED <<owner, inner>>
              /\ \A q \in Proc : /\ chain'[q] = IF q \in {running} THEN {} ELSE chain[q]
                                 /\ co'[q] = IF q \in {running} THEN "none" ELSE co[q]
            BY <1>0, <1>11, <2>1 DEF Return, DeleteUnderControl, DeleteObject
        <3>2. {running} \in SUBSET Proc
            BY <1>0, <1>11 DEF Return
        <3>. QED  BY <3>1, <3>2, ProcsDie
    <2>2. CASE running \notin control
        BY <1>0, <1>11, <2>2 DEF Return, TreeInv, Has
    <2>. QED  BY <2>1, <2>2
<1>12. ~DeleteBase
    BY DEF DeleteBase
<1>13. ASSUME EndServer  PROVE TreeInv'
    BY <1>13 DEF EndServer, heap, TreeInv, Has
<1>14. ASSUME DeleteServer  PROVE TreeInv'
    <2>. DEFINE P == map \cup outlived
                gone == UNION {Destroyed(s) : s \in P}
    <2>1. P \in SUBSET Proc
        OBVIOUS
    <2>2. /\ live' = live \ gone /\ UNCHANGED <<owner, inner>>
          /\ \A q \in Proc : /\ chain'[q] = IF q \in P THEN {} ELSE chain[q]
                             /\ co'[q] = IF q \in P THEN "none" ELSE co[q]
        BY <1>14 DEF DeleteServer
    <2>3. \A x : x \in gone <=> \E p \in P : x \in Destroyed(p)
        OBVIOUS
    <2>. HIDE DEF P, gone
    <2>. QED  BY <2>1, <2>2, <2>3, ProcsDie
<1>. HIDE DEF TypeOK, serverVars, Proc, NetClient, Client, Object
<1>. QED
    BY <1>1, <1>2, <1>3, <1>4, <1>5, <1>6, <1>7, <1>8, <1>9, <1>10, <1>11, <1>12, <1>13,
       <1>14 DEF Next

-----------------------------------------------------------------------------
(* Events and coroutines.                                                  *)

\* The events that resume a coroutine are those of its procedure and of the
\* procedure's members.
LEMMA EventsOf ==
    ASSUME TypeOK, TreeInv, WakeInv, NEW p \in Proc
    PROVE  \A o \in pending : /\ o \in Destroyed(p) <=> Resumed(o) = p
                              /\ o \in {p} \cup Inside(p) <=> Resumed(o) = p
BY Members DEF TypeOK, TreeInv, WakeInv, Resumed, Has

\* Every step keeps events and coroutines matched as long as the base stands.
LEMMA WakeStep ==
    ASSUME TypeOK, StackInv, TreeInv, WakeInv, HandleInv, Next, base' = "alive"
    PROVE  WakeInv'
<1>. USE DEF TypeOK, Resumed
<1>0. running # None => running \in live \cap Proc /\ co[running] = "running"
    BY DEF TreeInv, WakeInv
<1>1. ASSUME NEW s \in Session, StartSession(s)  PROVE WakeInv'
    BY <1>1 DEF StartSession, LoopRuns, StackInv, TreeInv, WakeInv
<1>2. ASSUME NEW s \in Session, ForwardTo(s)  PROVE WakeInv'
    BY <1>2 DEF ForwardTo, heap, WakeInv
<1>3. ASSUME NEW r \in Routine, DeleteRoutine(r)  PROVE WakeInv'
    BY <1>3, EventsOf DEF DeleteRoutine, DeleteObject, DelEvents, TreeInv, WakeInv
<1>4. ASSUME NEW r \in Routine, NEW autoFree \in BOOLEAN, StartRoutine(r, autoFree)
      PROVE  WakeInv'
    BY <1>4 DEF StartRoutine, TreeInv, WakeInv
<1>5. ASSUME NEW o \in Proc \cup NetClient, Dispatch(o)  PROVE WakeInv'
    BY <1>5 DEF Dispatch, LoopRuns, heap, StackInv, WakeInv
<1>6. ASSUME NEW o \in Proc \cup NetClient, Wait(o)  PROVE WakeInv'
    BY <1>0, <1>6 DEF Wait, Waitable, AddEvent, BackInCallback, heap, TreeInv, WakeInv
<1>7. ASSUME NEW c \in NetClient, NewNetClient(c)  PROVE WakeInv'
    BY <1>0, <1>7 DEF NewNetClient, WakeInv
<1>8. ASSUME NEW c \in DnsClient, NewDnsClientFails(c)  PROVE WakeInv'
    BY <1>8 DEF NewDnsClientFails, WakeInv
<1>9. ASSUME NEW c \in DnsClient, NEW u \in UdpClient, NewDnsClient(c, u)
      PROVE  WakeInv'
    BY <1>0, <1>9 DEF NewDnsClient, WakeInv
<1>10. ASSUME NEW c \in Client, DeleteClient(c)  PROVE WakeInv'
    <2>1. \A o \in pending : o \notin Destroyed(c)
        BY <1>0, <1>10 DEF DeleteClient, Destroyed, WithInner, TreeInv, WakeInv
    <2>. QED
        BY <1>0, <1>10, <2>1
           DEF DeleteClient, DeleteUnderControl, DeleteObject, DelEvents, WakeInv
<1>11. ASSUME Return  PROVE WakeInv'
    <2>1. CASE running \in control
        BY <1>0, <1>11, <2>1, EventsOf
           DEF Return, DeleteUnderControl, DeleteObject, DelEvents, BackInCallback, WakeInv
    <2>2. CASE running \notin control
        BY <1>0, <1>11, <2>2 DEF Return, BackInCallback, WakeInv
    <2>. QED  BY <2>1, <2>2
<1>12. ~DeleteBase
    BY DEF DeleteBase
<1>13. ASSUME EndServer  PROVE WakeInv'
    BY <1>13 DEF EndServer, heap, WakeInv
<1>14. ASSUME DeleteServer  PROVE WakeInv'
    <2>. DEFINE P == map \cup outlived
    <2>1. /\ live' = live \ UNION {Destroyed(s) : s \in P}
          /\ pending' = pending \ UNION {Destroyed(s) : s \in P}
          /\ \A q \in Proc : co'[q] = IF q \in P THEN "none" ELSE co[q]
          /\ UNCHANGED <<owner, running>> /\ running \notin Session
        BY <1>14 DEF DeleteServer, DelEvents
    <2>2. \A o \in pending : o \in UNION {Destroyed(s) : s \in P} <=> Resumed(o) \in P
        BY EventsOf
    <2>3. P \subseteq Session
        OBVIOUS
    <2>. HIDE DEF P
    <2>. QED  BY <2>1, <2>2, <2>3 DEF WakeInv
<1>. HIDE DEF TypeOK, Proc, NetClient, Client, Object
<1>. QED
    BY <1>1, <1>2, <1>3, <1>4, <1>5, <1>6, <1>7, <1>8, <1>9, <1>10, <1>11, <1>12, <1>13,
       <1>14 DEF Next

-----------------------------------------------------------------------------
(* The base's pointers, and the stack.                                     *)

\* Every step leaves the base with a pointer to what it has to delete, and with
\* none to what is deleted but where it is not told; and the map with an entry
\* for every session.
LEMMA HandleStep ==
    ASSUME TypeOK, StackInv, TreeInv, WakeInv, HandleInv, Next, base' = "alive"
    PROVE  HandleInv'
<1>. USE DEF TypeOK, HandleInv, serverVars
<1>0. running # None => running \in live \cap Proc
    BY DEF TreeInv, WakeInv
<1>1. ASSUME NEW s \in Session, StartSession(s) \/ ForwardTo(s)  PROVE HandleInv'
    BY <1>1 DEF StartSession, ForwardTo, heap
<1>2. ASSUME NEW r \in Routine, DeleteRoutine(r)  PROVE HandleInv'
    BY <1>2, Members DEF DeleteRoutine, DeleteObject, Insides, TreeInv, Has
<1>3. ASSUME NEW r \in Routine, NEW autoFree \in BOOLEAN, StartRoutine(r, autoFree)
      PROVE  HandleInv'
    BY <1>3 DEF StartRoutine
<1>4. ASSUME NEW o \in Proc \cup NetClient, Dispatch(o) \/ Wait(o)  PROVE HandleInv'
    BY <1>4 DEF Dispatch, Wait, heap
<1>5. ASSUME NEW c \in NetClient, NewNetClient(c)  PROVE HandleInv'
    BY <1>5 DEF NewNetClient
<1>6. ASSUME NEW c \in DnsClient, NewDnsClientFails(c)  PROVE HandleInv'
    BY <1>6 DEF NewDnsClientFails
<1>7. ASSUME NEW c \in DnsClient, NEW u \in UdpClient, NewDnsClient(c, u)
      PROVE  HandleInv'
    BY <1>7 DEF NewDnsClient
<1>8. ASSUME NEW c \in Client, DeleteClient(c)  PROVE HandleInv'
    BY <1>0, <1>8
       DEF DeleteClient, DeleteUnderControl, DeleteObject, Insides, Destroyed, WithInner,
           TreeInv
<1>9. ASSUME Return  PROVE HandleInv'
    <2>1. CASE running \in control
        BY <1>0, <1>9, <2>1, Members
           DEF Return, NotifySessionEnds, DeleteUnderControl, DeleteObject, Insides,
               TreeInv, Has
    <2>2. CASE running \notin control
        BY <1>0, <1>9, <2>2 DEF Return, NotifySessionEnds
    <2>. QED  BY <2>1, <2>2
<1>10. ~DeleteBase
    BY DEF DeleteBase
<1>11. ASSUME EndServer  PROVE HandleInv'
    BY <1>11 DEF EndServer, heap
<1>12. ASSUME DeleteServer  PROVE HandleInv'
    <2>. DEFINE P == map \cup outlived
                gone == UNION {Destroyed(s) : s \in P}
    <2>1. /\ live' = live \ gone /\ control' = control \ UNION {chain[s] : s \in P}
          /\ untold' = untold \cup (P \cap live) \cup Insides(gone)
          /\ map' = {}
        BY <1>12 DEF DeleteServer
    <2>2. \A x : x \in gone <=> \E s \in P : x = s \/ Has(s, x)
        BY Members
    <2>3. \A s \in P : chain[s] \subseteq gone
        BY <2>2 DEF Has
    <2>4. live' \ control' \subseteq Routine
        BY <2>1, <2>3
    <2>5. ASSUME NEW x \in control', x \notin live'  PROVE x \in untold'
        <3>1. CASE x \notin live
            BY <2>1, <2>5, <3>1
        <3>2. CASE x \in live
            <4>1. x \in gone /\ \A s \in P : x \notin chain[s]
                BY <2>1, <2>5, <3>2
            <4>2. PICK s \in P : x = s \/ \E d \in chain[s] \cap DnsClient : x = inner[d]
                BY <2>2, <4>1 DEF Has
            <4>3. CASE x = s
                BY <2>1, <3>2, <4>3
            <4>4. CASE \E d \in chain[s] \cap DnsClient : x = inner[d]
                BY <2>1, <2>3, <4>4 DEF Insides
            <4>. QED  BY <4>2, <4>3, <4>4
        <3>. QED  BY <3>1, <3>2
    <2>6. live' \cap Session = {}
        BY <2>1, <2>2
    <2>. QED  BY <2>1, <2>4, <2>5, <2>6
<1>. HIDE DEF TypeOK, HandleInv, serverVars, Proc, NetClient, Client, Object
<1>. QED
    BY <1>1, <1>2, <1>3, <1>4, <1>5, <1>6, <1>7, <1>8, <1>9, <1>10, <1>11, <1>12 DEF Next

\* No step frees the object whose callback is on the stack but delete_client(),
\* which notes it in sawn.
LEMMA ArgumentStep ==
    ASSUME TypeOK, StackInv, HeapInv, Next, base' = "alive"
    PROVE  ArgumentInv'
<1>. USE DEF TypeOK, ArgumentInv
<1>0. TreeInv /\ WakeInv /\ HandleInv /\ ArgumentInv
    BY DEF HeapInv
<1>00. running # None => running \in live \cap Proc
    BY <1>0 DEF TreeInv, WakeInv
<1>1. ASSUME NEW s \in Session, StartSession(s) \/ ForwardTo(s)  PROVE ArgumentInv'
    BY <1>0, <1>1 DEF StartSession, ForwardTo, LoopRuns, heap
<1>2. ASSUME NEW r \in Routine, DeleteRoutine(r)  PROVE ArgumentInv'
    <2>1. r # running
        BY <1>0, <1>2 DEF DeleteRoutine, WakeInv
    <2>2. cb # None /\ ~sawn => cb \notin Destroyed(r)
        BY <1>0, <2>1, Members DEF TreeInv, Has, Resumed
    <2>. QED
        BY <1>0, <1>2, <2>2 DEF DeleteRoutine, DeleteObject, Resumed
<1>3. ASSUME NEW r \in Routine, NEW autoFree \in BOOLEAN, StartRoutine(r, autoFree)
      PROVE  ArgumentInv'
    BY <1>0, <1>3 DEF StartRoutine, Resumed
<1>4. ASSUME NEW o \in Proc \cup NetClient, Dispatch(o)  PROVE ArgumentInv'
    BY <1>0, <1>4 DEF Dispatch, heap, WakeInv, Resumed
<1>5. ASSUME NEW o \in Proc \cup NetClient, Wait(o)  PROVE ArgumentInv'
    BY <1>5 DEF Wait, BackInCallback
<1>6. ASSUME NEW c \in NetClient, NewNetClient(c)  PROVE ArgumentInv'
    BY <1>0, <1>6 DEF NewNetClient, Resumed
<1>7. ASSUME NEW c \in DnsClient, NewDnsClientFails(c)  PROVE ArgumentInv'
    BY <1>0, <1>7 DEF NewDnsClientFails, Resumed
<1>8. ASSUME NEW c \in DnsClient, NEW u \in UdpClient, NewDnsClient(c, u)
      PROVE  ArgumentInv'
    BY <1>0, <1>8 DEF NewDnsClient, Resumed
<1>9. ASSUME NEW c \in Client, DeleteClient(c)  PROVE ArgumentInv'
    BY <1>0, <1>9
       DEF DeleteClient, DeleteUnderControl, DeleteObject, Destroyed, Resumed
<1>10. ASSUME Return  PROVE ArgumentInv'
    BY <1>10 DEF Return, BackInCallback
<1>11. ~DeleteBase
    BY DEF DeleteBase
<1>12. ASSUME EndServer  PROVE ArgumentInv'
    BY <1>0, <1>12 DEF EndServer, heap, Resumed
<1>13. ASSUME DeleteServer  PROVE ArgumentInv'
    <2>1. running \notin Session /\ map \cup outlived \subseteq Session
        BY <1>13 DEF DeleteServer
    <2>2. ASSUME cb # None, ~sawn, NEW s \in map \cup outlived
          PROVE  cb \notin Destroyed(s)
        BY <1>0, <2>1, <2>2, Members DEF TreeInv, Has, Resumed
    <2>. QED
        BY <1>0, <1>13, <2>2 DEF DeleteServer, Resumed
<1>. HIDE DEF TypeOK, ArgumentInv, Proc, NetClient, Client, Object
<1>. QED
    BY <1>1, <1>2, <1>3, <1>4, <1>5, <1>6, <1>7, <1>8, <1>9, <1>10, <1>11, <1>12, <1>13
       DEF Next

\* Only a base that stands lets anything happen.
LEMMA NextNeedsBase == ASSUME StackInv, Next  PROVE base # "freed"
BY DEF StackInv, Next, StartSession, ForwardTo, EndServer, DeleteServer, DeleteRoutine,
       StartRoutine, Dispatch, Wait, NewNetClient, NewDnsClientFails, NewDnsClient,
       DeleteClient, Return, DeleteBase, LoopRuns

\* Every step keeps stack and coroutines matched; the step that frees the base
\* takes every client with it.
LEMMA StackStep ==
    ASSUME TypeOK, StackInv, TreeInv, WakeInv, HandleInv, Next, base = "alive"
    PROVE  StackInv'
<1>1. CASE DeleteBase
    BY <1>1 DEF DeleteBase, LoopRuns, StackInv, HandleInv, TypeOK, Destroyed, WithInner
<1>2. CASE \E o \in Proc \cup NetClient : Dispatch(o)
    BY <1>2 DEF Dispatch, LoopRuns, StackInv, TypeOK, WakeInv
<1>3. CASE Return \/ \E o \in Proc \cup NetClient : Wait(o)
    BY <1>3 DEF Return, Wait, BackInCallback, StackInv
<1>4. CASE base' = base /\ cb' = cb /\ running' = running /\ (sawn' = sawn \/ cb # None)
    BY <1>4 DEF StackInv
<1>5. ASSUME NEW c \in Client, DeleteClient(c)
      PROVE  base' = base /\ cb' = cb /\ running' = running /\ cb # None
    BY <1>5 DEF DeleteClient, StackInv
<1>. HIDE DEF Proc, NetClient, Client, Object
<1>. QED
    BY <1>1, <1>2, <1>3, <1>4, <1>5
       DEF Next, StartSession, ForwardTo, EndServer, DeleteServer, DeleteRoutine,
           StartRoutine, NewNetClient, NewDnsClientFails, NewDnsClient

\* Every step keeps the invariant.
LEMMA NextInv == IInv /\ [Next]_vars => IInv'
<1>1. CASE UNCHANGED vars
    BY <1>1 DEF IInv, vars, heap, serverVars, misuse, TypeOK, StackInv, HeapInv, TreeInv,
                WakeInv, HandleInv, ArgumentInv, Has, Resumed
<1>2. ASSUME IInv, Next  PROVE IInv'
    <2>1. /\ base = "alive" /\ TypeOK /\ StackInv
          /\ HeapInv /\ TreeInv /\ WakeInv /\ HandleInv
        BY <1>2, NextNeedsBase DEF IInv, HeapInv, TypeOK
    <2>. QED
        BY <1>2, <2>1, TypeStep, StackStep, TreeStep, WakeStep, HandleStep, ArgumentStep
           DEF IInv, HeapInv
<1>. QED  BY <1>1, <1>2

\* In every reachable state ownership is a forest and the events match the
\* coroutines: the invariant of the theorems below.
THEOREM Inductive == Spec => []IInv
BY InitInv, NextInv, PTL DEF Spec

-----------------------------------------------------------------------------

\* Every variable keeps its type: nothing but a procedure ever runs, whatever
\* callback resumed it.
THEOREM TypeCorrect == Spec => []TypeOK
<1>1. IInv => TypeOK  BY DEF IInv
<1>. QED  BY Inductive, <1>1, PTL

\* A coroutine that waits has exactly one event to be resumed by, its own or
\* a client's, and one that runs or has ended has none.
THEOREM OneEvent == Spec => []OneWakeup
<1>1. IInv => OneWakeup
    <2>. SUFFICES ASSUME IInv, base = "alive", NEW p \in Proc
                  PROVE  Cardinality(pending \cap ({p} \cup Inside(p))) =
                             IF co[p] = "suspended" THEN 1 ELSE 0
        BY DEF OneWakeup
    <2>. DEFINE events == pending \cap ({p} \cup Inside(p))
    <2>1. \A o : o \in events <=> o \in pending /\ Resumed(o) = p
        BY EventsOf DEF IInv, HeapInv
    <2>2. CASE co[p] = "suspended"
        <3>1. PICK o \in pending : Resumed(o) = p
            BY <2>2 DEF IInv, HeapInv, WakeInv
        <3>2. events = {o}
            BY <2>1, <3>1 DEF IInv, HeapInv, WakeInv
        <3>. QED  BY <2>2, <3>2, FS_Singleton
    <2>3. CASE co[p] # "suspended"
        <3>1. events = {}
            BY <2>1, <2>3 DEF IInv, HeapInv, WakeInv
        <3>. QED  BY <2>3, <3>1, FS_EmptySet
    <2>. QED  BY <2>2, <2>3
<1>. QED  BY Inductive, <1>1, PTL

\* Every client belongs to exactly one live procedure, and the base loses none:
\* whatever is deleted from whatever callback, and whatever address is used
\* again, no client outlives its owner or leaks.
THEOREM Ownership == Spec => []ClientsAreOwned
<1>1. IInv => ClientsAreOwned
    <2>. SUFFICES ASSUME IInv  PROVE ClientsAreOwned
        OBVIOUS
    <2>1. ASSUME NEW c \in live \cap Client
          PROVE  Cardinality({p \in live \cap Proc : c \in Inside(p)}) = 1
        <3>. DEFINE owners == {p \in live \cap Proc : c \in Inside(p)}
        <3>1. TypeOK /\ TreeInv
            BY DEF IInv, HeapInv, StackInv, TypeOK
        <3>2. \E p \in live \cap Proc : Has(p, c)
            BY <3>1 DEF TypeOK, TreeInv, Has
        <3>3. \A p, q \in Proc : Has(p, c) /\ Has(q, c) => p = q
            BY <3>1 DEF TypeOK, TreeInv, Has
        <3>4. \E p : owners = {p}
            BY <3>2, <3>3, Members
        <3>. QED  BY <3>4, FS_Singleton
    <2>2. base = "alive" => live \ control \subseteq Routine
        BY DEF IInv, HeapInv, HandleInv
    <2>. QED  BY <2>1, <2>2 DEF ClientsAreOwned
<1>. QED  BY Inductive, <1>1, PTL

-----------------------------------------------------------------------------
(* What is used or deleted after it was freed.                             *)

\* A callback uses a freed object only when the worker it resumed has deleted
\* the client the callback is of, and the server only when a session ended in a
\* client's callback.  Every other order of deletions, by delete_client(), with
\* a procedure, a server or a DNS client, leaves no event and no entry behind.
THEOREM Uses == Spec => UsesAreKnown
<1>1. ASSUME IInv, Next
      PROVE  touched' \subseteq outlived \cup (IF sawn THEN {cb} ELSE {})
    <2>1. base = "alive" /\ HandleInv /\ ArgumentInv /\ StackInv
        BY <1>1, NextNeedsBase DEF IInv, HeapInv, TypeOK
    <2>2. CASE \E s \in Session : ForwardTo(s)
        BY <2>1, <2>2 DEF ForwardTo, HandleInv
    <2>3. CASE Return \/ \E o \in Proc \cup NetClient : Wait(o)
        BY <2>1, <2>3 DEF Return, Wait, BackInCallback, StackInv, ArgumentInv
    <2>4. CASE touched' = {}
        BY <2>4
    <2>. HIDE DEF Proc, NetClient, Client, Object
    <2>. QED
        BY <1>1, <2>2, <2>3, <2>4
           DEF Next, NoMisuse, StartSession, EndServer, DeleteServer, DeleteRoutine,
               StartRoutine, Dispatch, NewNetClient, NewDnsClientFails, NewDnsClient,
               DeleteClient, DeleteBase
<1>. QED  BY Inductive, <1>1, PTL DEF Spec, UsesAreKnown

\* An object is deleted twice only if ~UDPServer, ~DNSItnlClient or a failing
\* new_DNS_client() did it without the base, or if the server was not told of
\* its session's end.
THEOREM Doubles == Spec => DoublesAreKnown
<1>1. ASSUME IInv, Next  PROVE doubled' \subseteq untold' \cup outlived
    <2>1. base = "alive" /\ HandleInv
        BY <1>1, NextNeedsBase DEF IInv, HeapInv, TypeOK
    <2>2. CASE DeleteServer
        BY <2>1, <2>2 DEF DeleteServer, HandleInv
    <2>3. CASE DeleteBase
        <3>. DEFINE gone == UNION {Destroyed(o) : o \in control \cap live}
        <3>1. control \cap live \subseteq gone
            BY DEF Destroyed, WithInner
        <3>2. Insides(control \cap live) \subseteq Insides(gone)
            BY <3>1 DEF Insides
        <3>3. /\ doubled' = (control \ live) \cup (control \cap Insides(control \cap live))
              /\ untold' = untold \cup Insides(gone)
            BY <2>3 DEF DeleteBase
        <3>. QED  BY <2>1, <3>2, <3>3 DEF HandleInv
    <2>4. CASE doubled' = {}
        BY <2>4
    <2>. HIDE DEF Proc, NetClient, Client, Object
    <2>. QED
        BY <1>1, <2>2, <2>3, <2>4
           DEF Next, NoMisuse, StartSession, ForwardTo, EndServer, DeleteRoutine,
               StartRoutine, Dispatch, Wait, Return, BackInCallback, NewNetClient,
               NewDnsClientFails, NewDnsClient, DeleteClient
<1>. QED  BY Inductive, <1>1, PTL DEF Spec, DoublesAreKnown
=============================================================================
