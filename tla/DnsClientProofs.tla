--------------------------- MODULE DnsClientProofs ---------------------------
(***************************************************************************)
(* Theorems about DnsClient for every set of names, replies, timeouts and  *)
(* contents of /etc/resolv.conf, and every capacity and bound.             *)
(***************************************************************************)
EXTENDS DnsClient, WellFoundedInduction, TLAPS

-----------------------------------------------------------------------------
(* The deadline.                                                           *)

\* Every wait is armed with the time that is left, and both run down together.
LEMMA RecvKeepsDeadline ==
    ASSUME NEW seconds, Recv(seconds), UNCHANGED forever,
           ~forever => left' = seconds
    PROVE  DeadlineKept'
<1>. SUFFICES ASSUME pc' = "wait", ~forever  PROVE timer' = left'
    BY DEF DeadlineKept
<1>. QED  BY DEF Recv, Wait

\* The loop of resolve() goes on with the time left, or gives up.
LEMMA GoOnKeepsDeadline ==
    ASSUME GoOn, UNCHANGED <<forever, left>>
    PROVE  DeadlineKept'
<1>1. CASE Recv(left)
    BY <1>1, RecvKeepsDeadline
<1>2. CASE Return("TIMEOUT", <<>>)
    BY <1>2 DEF Return, DeadlineKept
<1>. QED  BY <1>1, <1>2 DEF GoOn

\* Every step keeps timer and deadline together: the clock moves both.
LEMMA DeadlineStep == DeadlineKept /\ [Next]_vars => DeadlineKept'
<1>. SUFFICES ASSUME DeadlineKept, [Next]_vars  PROVE DeadlineKept'
    OBVIOUS
<1>. USE DEF callVars, confVars, netVars
<1>1. ASSUME NEW n \in Names, NEW endless \in BOOLEAN,
             ResolveAt(n, endless) \/ ResolveByDefault(n, endless)
      PROVE  DeadlineKept'
    BY <1>1 DEF ResolveAt, ResolveByDefault, DeadlineKept
<1>2. ASSUME NEW n \in Names, Lookup(n)  PROVE DeadlineKept'
    BY <1>2 DEF Lookup, DeadlineKept
<1>3. ASSUME NEW f \in Files, EditFile(f)  PROVE DeadlineKept'
    BY <1>3 DEF EditFile, DeadlineKept
<1>4. ASSUME NEW type \in Types, NEW ip \in ServerTypes, TryServer(type, ip)
      PROVE  DeadlineKept'
    BY <1>4 DEF TryServer, DeadlineKept
<1>5. CASE NoMoreServers \/ NoAddress \/ SendFails
    BY <1>5 DEF NoMoreServers, NoAddress, SendFails, Return, DeadlineKept
<1>6. ASSUME NEW seconds \in Timeouts \cup {0}, Send(seconds)  PROVE DeadlineKept'
    BY <1>6, RecvKeepsDeadline DEF Send
<1>7. CASE Received
    <2>1. Succeed \/ GoOn
        BY <1>7 DEF Received
    <2>2. CASE Succeed
        BY <2>2 DEF Succeed, DeadlineKept
    <2>. QED  BY <1>7, <2>1, <2>2, GoOnKeepsDeadline DEF Received
<1>8. CASE ReceivedNothing
    BY <1>8, GoOnKeepsDeadline DEF ReceivedNothing
<1>9. CASE QuickResolve \/ ResolveReturns
    BY <1>9 DEF QuickResolve, ResolveReturns, Return, DeadlineKept
<1>10. CASE EventReadable \/ TimerExpires
    BY <1>10 DEF EventReadable, TimerExpires, DeadlineKept
<1>11. CASE CallbackRead \/ CallbackTimeout
    BY <1>11 DEF CallbackRead, CallbackTimeout, Return, DeadlineKept
<1>12. ASSUME NEW r \in Replies, Reply(r)  PROVE DeadlineKept'
    BY <1>12 DEF Reply, DeadlineKept
<1>13. CASE Stray
    BY <1>13 DEF Stray, DeadlineKept
<1>14. CASE Tick
    BY <1>14 DEF Tick, DeadlineKept
<1>15. CASE UNCHANGED vars
    BY <1>15 DEF vars, DeadlineKept
<1>. QED
    BY <1>1, <1>2, <1>3, <1>4, <1>5, <1>6, <1>7, <1>8, <1>9, <1>10, <1>11, <1>12,
       <1>13, <1>14, <1>15 DEF Next, Coroutine, Loop

\* Useless datagrams, however many, neither shorten nor lengthen the time that
\* resolve() waits.
THEOREM Deadline == Spec => []DeadlineKept
<1>1. Init => DeadlineKept
    BY DEF Init, DeadlineKept
<1>. QED  BY <1>1, DeadlineStep, PTL DEF Spec

-----------------------------------------------------------------------------
(* The search for a server.                                                *)

HasOwn == \E i \in 1 .. Len(file) : file[i] = Own

\* As long as nobody rewrites the file, the loop has seen the servers before
\* its index, in the list of the file as it is, and none was of the own type.
SearchInv ==
    /\ index \in Nat /\ file \in Files /\ IPs \in Files
    /\ pc = "choose" => byDefault
    /\ pc = "choose" /\ ~edited /\ HasOwn =>
          /\ IPs # <<>>
          /\ index > 0 => /\ IPs = file /\ index <= Len(file)
                          /\ \A i \in 1 .. index : file[i] # Own

ServerInv == SearchInv /\ ServerOfOwnType

\* A list of servers that is not empty has a positive length.
LEMMA FileFacts ==
    ASSUME NEW f \in Files
    PROVE  Len(f) \in Nat /\ (f # <<>> => Len(f) > 0)
BY FilesAssumption

\* A process that has not read the file yet knows no server.
LEMMA ServerInit == Init => ServerInv
<1>. SUFFICES ASSUME Init  PROVE ServerInv
    OBVIOUS
<1>1. index \in Nat /\ pc = "idle"
    BY DEF Init
<1>2. file \in Files /\ IPs \in Files
    BY FilesAssumption DEF Init
<1>. QED  BY <1>1, <1>2 DEF ServerInv, SearchInv, ServerOfOwnType

\* What default_dns_server() returns to the loop when the file has a server of
\* the own type that was not met yet.
LEMMA NextServer ==
    ASSUME SearchInv, pc = "choose", ~edited, HasOwn, index < Len(IPs),
           NEW type, NEW ip, DefaultServer(type, ip)
    PROVE  /\ index < Len(file) /\ type = file[index + 1] /\ ip = type
           /\ IPs' = file /\ file # <<>>
<1>1. Len(file) \in Nat /\ Len(file) > 0 /\ file # <<>>
    BY FileFacts, FilesAssumption DEF SearchInv, HasOwn
<1>2. index < Len(file)
    BY <1>1 DEF SearchInv
<1>. QED  BY <1>1, <1>2 DEF DefaultServer, SearchInv

\* Every step keeps it; the loop's turn is the only one that moves the index.
LEMMA ServerStep == ServerInv /\ [Next]_vars => ServerInv'
<1>. SUFFICES ASSUME ServerInv, [Next]_vars  PROVE ServerInv'
    OBVIOUS
<1>. USE DEF callVars, confVars, netVars, ServerInv
<1>1. ASSUME NEW n \in Names, NEW endless \in BOOLEAN, ResolveAt(n, endless)
      PROVE  ServerInv'
    BY <1>1 DEF ResolveAt, Resolve, SearchInv, ServerOfOwnType
<1>2. ASSUME NEW n \in Names, NEW endless \in BOOLEAN, ResolveByDefault(n, endless)
      PROVE  ServerInv'
    <2>1. /\ pc' = "choose" /\ index' = 0 /\ byDefault' /\ UNCHANGED file
          /\ IPs' = IF IPs # <<>> THEN IPs ELSE file
        BY <1>2 DEF ResolveByDefault, Resolve
    <2>2. HasOwn => file # <<>>
        BY FileFacts, FilesAssumption DEF HasOwn, SearchInv
    <2>3. HasOwn' <=> HasOwn
        BY <2>1 DEF HasOwn
    <2>. QED  BY <2>1, <2>2, <2>3 DEF SearchInv, ServerOfOwnType
<1>3. ASSUME NEW f \in Files, EditFile(f)  PROVE ServerInv'
    BY <1>3 DEF EditFile, SearchInv, ServerOfOwnType
<1>4. ASSUME NEW type \in Types, NEW ip \in ServerTypes, TryServer(type, ip)
      PROVE  ServerInv'
    <2>1. /\ pc = "choose" /\ index < Len(IPs) /\ DefaultServer(type, ip)
          /\ server' = ip /\ UNCHANGED <<byDefault, file, edited>>
          /\ IF type = Own THEN pc' = "send" /\ index' = 0
             ELSE index' = index + 1 /\ pc' = pc
        BY <1>4 DEF TryServer
    <2>2. IPs' \in Files /\ index' \in Nat /\ file' \in Files
        BY <2>1 DEF DefaultServer, SearchInv
    <2>3. HasOwn' <=> HasOwn
        BY <2>1 DEF HasOwn
    <2>4. CASE edited \/ ~HasOwn
        BY <2>1, <2>2, <2>3, <2>4 DEF SearchInv, ServerOfOwnType, HasOwn
    <2>5. CASE ~edited /\ HasOwn
        <3>1. /\ index < Len(file) /\ type = file[index + 1] /\ ip = type
              /\ IPs' = file /\ file # <<>>
            BY <2>1, <2>5, NextServer
        <3>2. CASE type = Own
            BY <2>1, <2>2, <3>1, <3>2 DEF SearchInv, ServerOfOwnType
        <3>3. CASE type # Own
            <4>1. index' = index + 1 /\ pc' = "choose" /\ file' = file
                BY <2>1, <3>3
            <4>2. \A i \in 1 .. index : file[i] # Own
                BY <2>1, <2>5 DEF SearchInv
            <4>3. \A i \in 1 .. index + 1 : file[i] # Own
                BY <3>1, <3>3, <4>2 DEF SearchInv
            <4>4. Len(file) \in Nat /\ index + 1 <= Len(file)
                BY <3>1, FileFacts DEF SearchInv
            <4>. QED
                BY <2>1, <2>2, <3>1, <4>1, <4>3, <4>4 DEF SearchInv, ServerOfOwnType
        <3>. QED  BY <3>2, <3>3
    <2>. QED  BY <2>4, <2>5
<1>5. CASE NoMoreServers
    <2>1. /\ pc = "choose" /\ index >= Len(IPs) /\ pc' = "send" /\ index' = 0
          /\ UNCHANGED <<byDefault, server, IPs, file, edited>>
        BY <1>5 DEF NoMoreServers
    <2>2. edited \/ ~HasOwn
        BY <2>1, FileFacts DEF SearchInv, HasOwn
    <2>. QED  BY <2>1, <2>2 DEF SearchInv, ServerOfOwnType, HasOwn
<1>6. ASSUME UNCHANGED <<byDefault, server, index, IPs, file, edited>>,
             pc' \in {"choose", "send"} => pc' = pc
      PROVE  ServerInv'
    BY <1>6 DEF SearchInv, ServerOfOwnType, HasOwn
<1>7. ASSUME NEW n \in Names, Lookup(n)  PROVE ServerInv'
    BY <1>6, <1>7 DEF Lookup
<1>8. CASE NoAddress \/ SendFails
    BY <1>6, <1>8 DEF NoAddress, SendFails, Return
<1>9. ASSUME NEW seconds \in Timeouts \cup {0}, Send(seconds)  PROVE ServerInv'
    BY <1>6, <1>9 DEF Send, Recv, Wait
<1>10. ASSUME GoOn  PROVE pc' \notin {"choose", "send"}
    BY <1>10 DEF GoOn, Recv, Wait, Return
<1>11. CASE Received
    BY <1>6, <1>10, <1>11 DEF Received, Succeed
<1>12. CASE ReceivedNothing
    BY <1>6, <1>10, <1>12 DEF ReceivedNothing
<1>13. CASE QuickResolve \/ ResolveReturns
    BY <1>6, <1>13 DEF QuickResolve, ResolveReturns, Return
<1>14. CASE EventReadable \/ TimerExpires
    BY <1>6, <1>14 DEF EventReadable, TimerExpires
<1>15. CASE CallbackRead \/ CallbackTimeout
    BY <1>6, <1>15 DEF CallbackRead, CallbackTimeout, Return
<1>16. ASSUME NEW r \in Replies, Reply(r)  PROVE ServerInv'
    BY <1>6, <1>16 DEF Reply
<1>17. CASE Stray \/ Tick
    BY <1>6, <1>17 DEF Stray, Tick
<1>18. CASE UNCHANGED vars
    BY <1>6, <1>18 DEF vars
<1>. QED
    BY <1>1, <1>2, <1>3, <1>4, <1>5, <1>7, <1>8, <1>9, <1>11, <1>12, <1>13, <1>14,
       <1>15, <1>16, <1>17, <1>18 DEF Next, Coroutine, Loop

\* A server of the client's type is found wherever it is in the file, whatever
\* list earlier calls have left, unless the file is rewritten meanwhile.
THEOREM OwnServer == Spec => []ServerOfOwnType
<1>1. ServerInv => ServerOfOwnType
    BY DEF ServerInv
<1>. QED  BY <1>1, ServerInit, ServerStep, PTL DEF Spec

-----------------------------------------------------------------------------
(* The cache.                                                              *)

\* Every reply is read back as it was written, which TLC evaluates for bounded
\* replies: an induction over messages is beyond the provers.
AllReadBack == \A r \in Replies : ReadsBack(r)

\* A non-empty set of numbers has a least one.
LEMMA MinFound ==
    ASSUME NEW S \in SUBSET Nat, S # {}
    PROVE  Min(S) \in S
<1>1. PICK x \in S : \A y \in S : <<y, x>> \notin OpToRel(<, Nat)
    BY NatLessThanWellFounded, WFMin
<1>2. \A y \in S : ~(y < x)
    BY <1>1, Zenon DEF OpToRel
<1>3. \A y \in S : x <= y
    BY <1>2
<1>. QED  BY <1>3 DEF Min

Record == [name : Seq(STRING), type : STRING, ttl : Nat, address : Seq(STRING)]

\* A reply that may be kept has a least TTL, and its records are a result.
LEMMA ReplyFacts ==
    ASSUME NEW r \in Replies
    PROVE  /\ r.name \in Names
           /\ r.records \in Seq(Record)
           /\ r.answers \in 0 .. Len(r.records)
           /\ r.answers > 0 => LeastTtl(r) \in Nat
<1>1. /\ r.name \in Names
      /\ r.records \in Seq(Record)
      /\ r.answers \in 0 .. Len(r.records)
    BY RepliesAssumption DEF Record
<1>2. ASSUME r.answers > 0  PROVE LeastTtl(r) \in Nat
    <2>. DEFINE S == {r.records[i].ttl : i \in 1 .. r.answers}
    <2>1. ASSUME NEW i \in 1 .. r.answers  PROVE r.records[i].ttl \in Nat
        <3>1. r.records \in Seq(Record)
            BY <1>1
        <3>2. \A x \in Record : x.ttl \in Nat
            BY DEF Record
        <3>3. i \in 1 .. Len(r.records)
            <4>1. Len(r.records) \in Nat
                BY <3>1
            <4>. QED  BY <1>1, <4>1
        <3>4. r.records[i] \in Record
            BY <3>1, <3>3
        <3>. QED  BY <3>2, <3>4
    <2>2. S \in SUBSET Nat
        BY <2>1
    <2>3. 1 \in 1 .. r.answers
        BY <1>1, <1>2
    <2>4. r.records[1].ttl \in S
        BY <2>3
    <2>. HIDE DEF S
    <2>5. Min(S) \in S
        BY <2>2, <2>4, MinFound
    <2>. QED  BY <2>2, <2>5 DEF LeastTtl, S
<1>. QED  BY <1>1, <1>2

\* What is read of a reply that the servers may give.
LEMMA ParsedFacts ==
    ASSUME AllReadBack, NEW r \in Replies
    PROVE  /\ Parsed[r].ok => /\ r.rcode = 0 /\ r.answers > 0
                              /\ Parsed[r].domain = r.name
                              /\ Parsed[r].ttl = LeastTtl(r)
                              /\ Parsed[r].records = Known(r)
<1>1. Parsed[r] = Parse(Write(r))
    BY DEF Parsed
<1>2. CASE r.rcode = 0 /\ r.answers > 0
    <2>1. Parsed[r] = [ok |-> TRUE, domain |-> r.name, ttl |-> LeastTtl(r),
                       records |-> Known(r)]
        BY <1>1, <1>2 DEF AllReadBack, ReadsBack
    <2>. QED  BY <1>2, <2>1
<1>3. CASE ~(r.rcode = 0 /\ r.answers > 0)
    <2>1. Parsed[r] = Failed
        BY <1>1, <1>3 DEF AllReadBack, ReadsBack
    <2>. QED  BY <2>1 DEF Failed
<1>. QED  BY <1>2, <1>3

\* What may be known of a name.
MayKnow(n) ==
    {NoResult} \cup
    UNION {{[ttl |-> t, records |-> Known(r)] : t \in 0 .. LeastTtl(r)} :
           r \in {x \in Replies : x.name = n /\ x.rcode = 0 /\ x.answers > 0}}

Truthful(known) ==
    known \in [Names -> Results] /\ \A n \in Names : known[n] \in MayKnow(n)

\* Whatever may be known of a name is a result.
LEMMA MayKnowResults ==
    ASSUME NEW n, NEW c \in MayKnow(n)
    PROVE  /\ c \in Results
           /\ c # NoResult =>
                 \E r \in Replies :
                    /\ r.name = n /\ r.rcode = 0 /\ r.answers > 0
                    /\ c.ttl \in 0 .. LeastTtl(r) /\ c.records = Known(r)
                    /\ c = [ttl |-> c.ttl, records |-> Known(r)]
BY DEF MayKnow, Results

\* A part of what a reply says, for no longer than it lasts, may be known.
LEMMA ReplyMayBeKnown ==
    ASSUME NEW r \in Replies, r.rcode = 0, r.answers > 0, NEW t \in 0 .. LeastTtl(r)
    PROVE  [ttl |-> t, records |-> Known(r)] \in MayKnow(r.name)
BY DEF MayKnow

\* dns_result() only ever erases.
LEMMA ErasingIsTruthful ==
    ASSUME NEW known, Truthful(known), NEW n \in Names
    PROVE  Truthful(DnsResult(n, known))
<1>1. NoResult \in Results /\ \A m : NoResult \in MayKnow(m)
    BY DEF Results, MayKnow
<1>. QED  BY <1>1 DEF Truthful, DnsResult

\* A reply that arrives, however late, is kept under the name it is about.
LEMMA StoringIsTruthful ==
    ASSUME AllReadBack, Truthful(cache), NEW r \in Replies
    PROVE  Truthful(Stored(Parsed[r]))
<1>1. CASE ~Parsed[r].ok
    BY <1>1 DEF Stored
<1>2. CASE Parsed[r].ok
    <2>1. /\ r.rcode = 0 /\ r.answers > 0 /\ Parsed[r].domain = r.name
          /\ Parsed[r].ttl = LeastTtl(r) /\ Parsed[r].records = Known(r)
        BY <1>2, ParsedFacts
    <2>2. r.name \in Names /\ LeastTtl(r) \in 0 .. LeastTtl(r)
        BY <2>1, ReplyFacts
    <2>. DEFINE new == [ttl |-> LeastTtl(r), records |-> Known(r)]
    <2>3. new \in MayKnow(r.name)
        BY <2>1, <2>2, ReplyMayBeKnown
    <2>4. new \in Results
        BY <2>3, MayKnowResults
    <2>5. Stored(Parsed[r]) = [cache EXCEPT ![r.name] = new]
        BY <1>2, <2>1 DEF Stored
    <2>. HIDE DEF new
    <2>. QED  BY <2>2, <2>3, <2>4, <2>5 DEF Truthful
<1>. QED  BY <1>1, <1>2

\* The clock never lengthens what is left of a result.
LEMMA AgingIsTruthful ==
    ASSUME Truthful(cache)
    PROVE  Truthful([n \in Names |-> [cache[n] EXCEPT !.ttl = Down(@)]])
<1>1. ASSUME NEW n \in Names
      PROVE  /\ [cache[n] EXCEPT !.ttl = Down(@)] \in MayKnow(n)
             /\ [cache[n] EXCEPT !.ttl = Down(@)] \in Results
    <2>. DEFINE c == cache[n]
                d == [c EXCEPT !.ttl = Down(@)]
    <2>1. c \in MayKnow(n)
        BY DEF Truthful
    <2>2. CASE c = NoResult
        <3>1. d = NoResult
            BY <2>2 DEF NoResult, Down
        <3>. QED  BY <2>1, <2>2, <3>1, MayKnowResults
    <2>3. CASE c # NoResult
        <3>1. PICK r \in Replies :
                  /\ r.name = n /\ r.rcode = 0 /\ r.answers > 0
                  /\ c.ttl \in 0 .. LeastTtl(r) /\ c.records = Known(r)
                  /\ c = [ttl |-> c.ttl, records |-> Known(r)]
            BY <2>1, <2>3, MayKnowResults
        <3>2. LeastTtl(r) \in Nat
            BY <3>1, ReplyFacts
        <3>3. Down(c.ttl) \in 0 .. LeastTtl(r)
            BY <3>1, <3>2 DEF Down
        <3>4. d = [ttl |-> Down(c.ttl), records |-> Known(r)]
            BY <3>1
        <3>5. d \in MayKnow(n)
            BY <3>1, <3>3, <3>4, ReplyMayBeKnown
        <3>. QED  BY <3>5, MayKnowResults
    <2>. QED  BY <2>2, <2>3
<1>. QED  BY <1>1 DEF Truthful

\* quick_resolve() returns an address out of a reply, or none at all when
\* nothing is known.
LEMMA AddressIsKnown ==
    ASSUME NEW n, NEW c \in MayKnow(n)
    PROVE  /\ FirstIPv4(c.records) \in Texts
           /\ c = NoResult => FirstIPv4(c.records) = <<>>
<1>1. CASE c = NoResult
    <2>1. {i \in 1 .. Len(c.records) : c.records[i].type = "A"} = {}
        BY <1>1 DEF NoResult
    <2>. QED  BY <2>1 DEF FirstIPv4, Texts
<1>2. CASE c # NoResult
    <2>1. PICK r \in Replies : c.records = Known(r)
        BY <1>2, MayKnowResults
    <2>. DEFINE ipv4 == {i \in 1 .. Len(Known(r)) : Known(r)[i].type = "A"}
    <2>2. CASE ipv4 = {}
        BY <1>2, <2>1, <2>2 DEF FirstIPv4, Texts
    <2>3. CASE ipv4 # {}
        <3>1. Len(r.records) \in Nat
            BY ReplyFacts
        <3>2. Len(Known(r)) = Len(r.records)
            BY <3>1 DEF Known
        <3>3. ipv4 \in SUBSET Nat
            BY <3>1, <3>2
        <3>4. Min(ipv4) \in ipv4
            BY <2>3, <3>3, MinFound
        <3>5. FirstIPv4(c.records) = Known(r)[Min(ipv4)].address
            BY <2>1, <2>3 DEF FirstIPv4
        <3>. DEFINE i == Min(ipv4)
        <3>6. i \in 1 .. Len(r.records) /\ Known(r)[i].type = "A"
            BY <3>2, <3>4
        <3>. HIDE DEF i
        <3>7. Known(r)[i] =
                  IF i = Len(r.records) /\ r.records[i].type \in NameTypes
                  THEN [r.records[i] EXCEPT !.address = <<>>] ELSE r.records[i]
            BY <3>6 DEF Known
        <3>8. Known(r)[i].address \in {<<>>, r.records[i].address}
            <4>1. CASE i = Len(r.records) /\ r.records[i].type \in NameTypes
                <5>. DEFINE x == r.records[i]
                <5>1. x \in Record
                    BY <3>6, ReplyFacts DEF i
                <5>2. [x EXCEPT !.address = <<>>].address = <<>>
                    BY <5>1 DEF Record
                <5>. QED  BY <3>7, <4>1, <5>2
            <4>2. CASE ~(i = Len(r.records) /\ r.records[i].type \in NameTypes)
                BY <3>7, <4>2
            <4>. QED  BY <4>1, <4>2
        <3>9. Known(r)[i].address \in Texts
            BY <3>6, <3>8 DEF Texts
        <3>. QED  BY <1>2, <3>5, <3>9 DEF i
    <2>. QED  BY <2>2, <2>3
<1>. QED  BY <1>1, <1>2

-----------------------------------------------------------------------------
(* The inductive invariant.                                                *)

\* Nothing but what servers replied is known of a name, and an address is
\* returned only by quick_resolve().
IInv ==
    /\ TypeOK
    /\ Truthful(cache)
    /\ pc = "found" => ret.address = <<>>

\* A step that leaves the cache alone keeps it true.
LEMMA CacheUnchanged ==
    ASSUME Truthful(cache), UNCHANGED cache
    PROVE  Truthful(cache)' /\ cache' \in [Names -> Results]
BY DEF Truthful

\* A step that gives the cache a true value keeps it true.
LEMMA CacheReplaced ==
    ASSUME NEW known, Truthful(known), cache' = known
    PROVE  Truthful(cache)' /\ cache' \in [Names -> Results]
BY DEF Truthful

\* A client that was just made knows nothing.
LEMMA InitInv == Init => IInv
<1>. SUFFICES ASSUME Init  PROVE IInv
    OBVIOUS
<1>1. NoResult \in Results /\ \A m : NoResult \in MayKnow(m)
    BY DEF Results, MayKnow
<1>2. Truthful(cache) /\ cache \in [Names -> Results]
    BY <1>1 DEF Init, Truthful
<1>3. /\ IPs \in Files \cup {<<>>} /\ file \in Files
      /\ forever \in BOOLEAN /\ byDefault \in BOOLEAN /\ edited \in BOOLEAN
    BY FilesAssumption DEF Init
<1>4. ret \in [err : Errors, address : Texts] /\ ret.address = <<>>
    BY DEF Init, Errors, Texts
<1>5. /\ sock \in Seq(Replies \cup {NoReply}) /\ Len(sock) <= Capacity
      /\ asked \in [Names -> 0 .. Copies]
      /\ resolves \in 0 .. MaxResolves /\ stray \in 0 .. MaxStray
    BY BoundsAssumption DEF Init
<1>6. /\ pc = "idle" /\ domain \in Names /\ left \in Nat /\ timer \in Nat
      /\ index \in Nat /\ server \in ServerTypes /\ ev = "none" /\ what = {}
      /\ datagram \in Replies \cup {NoReply}
    BY DEF Init, ServerTypes
<1>. QED  BY <1>2, <1>3, <1>4, <1>5, <1>6 DEF IInv, TypeOK

\* recv_in_timeval() waits, or takes a datagram out of the socket.
LEMMA RecvTypes ==
    ASSUME TypeOK, NEW seconds \in Nat, Recv(seconds)
    PROVE  /\ pc' \in {"wait", "received"}
           /\ ev' \in {"none", "pending", "readable", "expired"} /\ timer' \in Nat
           /\ what' \subseteq {"READ", "TIMEOUT"}
           /\ sock' \in Seq(Replies \cup {NoReply}) /\ Len(sock') <= Capacity
           /\ datagram' \in Replies \cup {NoReply}
<1>. DEFINE Datagrams == Replies \cup {NoReply}
<1>1. /\ sock \in Seq(Datagrams) /\ Len(sock) <= Capacity /\ Capacity \in Nat
      /\ ev \in {"none", "pending", "readable", "expired"} /\ timer \in Nat
      /\ what \subseteq {"READ", "TIMEOUT"} /\ datagram \in Datagrams
    BY BoundsAssumption DEF TypeOK
<1>. HIDE DEF Datagrams
<1>2. sock # <<>> => /\ Head(sock) \in Datagrams /\ Tail(sock) \in Seq(Datagrams)
                     /\ Len(Tail(sock)) <= Capacity
    BY <1>1
<1>. QED  BY <1>1, <1>2 DEF Recv, Wait, Take, Datagrams

\* The loop goes on to wait, to the next datagram or back to the caller.
LEMMA GoOnTypes ==
    ASSUME TypeOK, GoOn
    PROVE  /\ pc' \in {"wait", "received", "idle"}
           /\ ev' \in {"none", "pending", "readable", "expired"} /\ timer' \in Nat
           /\ what' \subseteq {"READ", "TIMEOUT"}
           /\ sock' \in Seq(Replies \cup {NoReply}) /\ Len(sock') <= Capacity
           /\ datagram' \in Replies \cup {NoReply}
           /\ ret' \in [err : Errors, address : Texts]
<1>1. CASE Recv(left) /\ UNCHANGED ret
    <2>1. left \in Nat
        BY DEF TypeOK
    <2>. QED  BY <1>1, <2>1, RecvTypes DEF TypeOK
<1>2. CASE Return("TIMEOUT", <<>>) /\ UNCHANGED <<ev, timer, what, sock, datagram>>
    BY <1>2 DEF Return, TypeOK, Errors, Texts
<1>. QED  BY <1>1, <1>2 DEF GoOn

\* Every step keeps the invariant, when replies are read back.
LEMMA NextInv == AllReadBack /\ IInv /\ [Next]_vars => IInv'
<1>. SUFFICES ASSUME AllReadBack, IInv, [Next]_vars  PROVE IInv'
    OBVIOUS
<1>. USE DEF callVars, confVars, netVars
<1>0. TypeOK /\ Truthful(cache) /\ (pc = "found" => ret.address = <<>>)
    BY DEF IInv
<1>a. ASSUME UNCHANGED cache  PROVE Truthful(cache)' /\ cache' \in [Names -> Results]
    BY <1>0, <1>a, CacheUnchanged
<1>b. ASSUME Truthful(cache)', TypeOK', pc' = "found" => ret'.address = <<>>
      PROVE  IInv'
    BY <1>b DEF IInv
<1>1. ASSUME NEW n \in Names, NEW endless \in BOOLEAN, ResolveAt(n, endless)
      PROVE  IInv'
    <2>1. TypeOK'
        BY <1>0, <1>1, OwnAssumption, BoundsAssumption
           DEF ResolveAt, Resolve, TypeOK, ServerTypes
    <2>. QED  BY <1>a, <1>b, <1>1, <2>1 DEF ResolveAt, Resolve
<1>2. ASSUME NEW n \in Names, NEW endless \in BOOLEAN, ResolveByDefault(n, endless)
      PROVE  IInv'
    <2>1. server' \in ServerTypes /\ IPs' \in Files \cup {<<>>}
        <3>1. file # <<>> => file[1] \in {"IPv4", "IPv6"}
            BY <1>0, FilesAssumption DEF TypeOK
        <3>. QED
            BY <1>0, <1>2, <3>1, OwnAssumption DEF ResolveByDefault, TypeOK, ServerTypes
    <2>2. /\ pc' = "choose" /\ domain' \in Names /\ forever' \in BOOLEAN
          /\ index' = 0 /\ edited' = FALSE /\ resolves' = MaxResolves
          /\ UNCHANGED <<left, byDefault, file, ev, timer, what, netVars, datagram,
                         cache, ret>>
        BY <1>2 DEF ResolveByDefault, Resolve
    <2>3. resolves' \in 0 .. MaxResolves
        BY <2>2, BoundsAssumption
    <2>4. TypeOK'
        BY <1>0, <2>1, <2>2, <2>3 DEF TypeOK
    <2>. QED  BY <1>a, <1>b, <2>2, <2>4
<1>3. ASSUME NEW n \in Names, Lookup(n)  PROVE IInv'
    <2>1. Truthful(cache)' /\ cache' \in [Names -> Results]
        BY <1>0, <1>3, ErasingIsTruthful, CacheReplaced DEF Lookup
    <2>2. TypeOK'
        BY <1>0, <1>3, <2>1 DEF Lookup, TypeOK
    <2>. QED  BY <1>0, <1>b, <1>3, <2>1, <2>2 DEF Lookup
<1>4. ASSUME NEW f \in Files, EditFile(f)  PROVE IInv'
    <2>1. TypeOK'
        BY <1>0, <1>4 DEF EditFile, TypeOK
    <2>. QED  BY <1>0, <1>a, <1>b, <1>4, <2>1 DEF EditFile
<1>5. ASSUME NEW type \in Types, NEW ip \in ServerTypes, TryServer(type, ip)
      PROVE  IInv'
    <2>1. IPs' \in Files \cup {<<>>} /\ index' \in Nat /\ pc' \in {"choose", "send"}
        BY <1>0, <1>5 DEF TryServer, DefaultServer, TypeOK
    <2>2. TypeOK'
        BY <1>0, <1>5, <2>1 DEF TryServer, TypeOK
    <2>. QED  BY <1>a, <1>b, <1>5, <2>1, <2>2 DEF TryServer
<1>6. CASE NoMoreServers
    <2>1. TypeOK'
        BY <1>0, <1>6 DEF NoMoreServers, TypeOK
    <2>. QED  BY <1>a, <1>b, <1>6, <2>1 DEF NoMoreServers
<1>7. CASE NoAddress \/ SendFails
    <2>1. ret' \in [err : Errors, address : Texts]
        BY <1>7 DEF NoAddress, SendFails, Return, Errors, Texts
    <2>2. TypeOK'
        BY <1>0, <1>7, <2>1 DEF NoAddress, SendFails, Return, TypeOK
    <2>. QED  BY <1>a, <1>b, <1>7, <2>2 DEF NoAddress, SendFails, Return
<1>8. ASSUME NEW seconds \in Timeouts \cup {0}, Send(seconds)  PROVE IInv'
    <2>1. seconds \in Nat
        BY TimeoutsAssumption
    <2>2. asked' \in [Names -> 0 .. Copies]
        <3>1. asked \in [Names -> 0 .. Copies] /\ Copies \in 0 .. Copies
            BY <1>0, BoundsAssumption DEF TypeOK
        <3>2. \E x : asked' = [asked EXCEPT ![x] = Copies]
            BY <1>8 DEF Send
        <3>. QED  BY <3>1, <3>2
    <2>3. Recv(seconds)
        BY <1>8 DEF Send
    <2>4. TypeOK'
        BY <1>0, <1>8, <2>1, <2>2, <2>3, RecvTypes DEF Send, TypeOK
    <2>. QED  BY <1>0, <1>a, <1>b, <1>8, <2>1, <2>3, <2>4, RecvTypes DEF Send
<1>9. CASE Received
    <2>1. datagram \in Replies
        BY <1>0, <1>9 DEF Received, TypeOK
    <2>2. domain \in Names
        BY <1>0 DEF TypeOK
    <2>3. Truthful(cache)' /\ cache' \in [Names -> Results]
        BY <1>0, <1>9, <2>1, <2>2, StoringIsTruthful, ErasingIsTruthful, CacheReplaced
           DEF Received
    <2>4. CASE Succeed
        <3>1. TypeOK'
            BY <1>0, <1>9, <2>3, <2>4 DEF Received, Succeed, TypeOK, Errors, Texts
        <3>. QED  BY <1>b, <2>3, <2>4, <3>1 DEF Succeed
    <2>5. CASE GoOn
        <3>1. TypeOK'
            BY <1>0, <1>9, <2>3, <2>5, GoOnTypes DEF Received, TypeOK
        <3>. QED  BY <1>0, <1>b, <2>3, <2>5, <3>1, GoOnTypes
    <2>. QED  BY <1>9, <2>4, <2>5 DEF Received
<1>10. CASE ReceivedNothing
    <2>1. TypeOK'
        BY <1>0, <1>10, GoOnTypes DEF ReceivedNothing, TypeOK
    <2>. QED  BY <1>0, <1>a, <1>b, <1>10, <2>1, GoOnTypes DEF ReceivedNothing
<1>11. CASE QuickResolve
    <2>1. domain \in Names
        BY <1>0 DEF TypeOK
    <2>2. Truthful(DnsResult(domain, cache))
        BY <1>0, <2>1, ErasingIsTruthful
    <2>3. cache' = DnsResult(domain, cache)
        BY <1>11 DEF QuickResolve
    <2>4. Truthful(cache)' /\ cache' \in [Names -> Results]
        BY <2>2, <2>3, CacheReplaced
    <2>5. cache'[domain] \in MayKnow(domain)
        BY <2>1, <2>2, <2>3 DEF Truthful
    <2>6. FirstIPv4(cache'[domain].records) \in Texts
        BY <2>5, AddressIsKnown
    <2>7. /\ pc' = "idle"
          /\ ret' = [err |-> "OK", address |-> FirstIPv4(cache'[domain].records)]
          /\ UNCHANGED <<callVars, left, confVars, ev, timer, what, netVars, datagram,
                         resolves>>
        BY <1>11 DEF QuickResolve, Return
    <2>8. ret' \in [err : Errors, address : Texts]
        BY <2>6, <2>7 DEF Errors
    <2>9. TypeOK'
        BY <1>0, <2>4, <2>7, <2>8 DEF TypeOK
    <2>. QED  BY <1>b, <2>4, <2>7, <2>9
<1>12. CASE ResolveReturns
    <2>1. TypeOK'
        BY <1>0, <1>12 DEF ResolveReturns, TypeOK
    <2>. QED  BY <1>a, <1>b, <1>12, <2>1 DEF ResolveReturns
<1>13. CASE EventReadable \/ TimerExpires
    <2>1. TypeOK'
        BY <1>0, <1>13 DEF EventReadable, TimerExpires, TypeOK
    <2>. QED  BY <1>0, <1>a, <1>b, <1>13, <2>1 DEF EventReadable, TimerExpires
<1>14. CASE CallbackRead
    <2>. DEFINE Datagrams == Replies \cup {NoReply}
    <2>1. sock \in Seq(Datagrams) /\ Len(sock) <= Capacity /\ Capacity \in Nat
        BY <1>0, BoundsAssumption DEF TypeOK
    <2>. HIDE DEF Datagrams
    <2>2. sock # <<>> => /\ Head(sock) \in Datagrams /\ Tail(sock) \in Seq(Datagrams)
                         /\ Len(Tail(sock)) <= Capacity
        BY <2>1
    <2>3. /\ sock' \in Seq(Datagrams) /\ Len(sock') <= Capacity
          /\ datagram' \in Datagrams
        BY <1>14, <2>2 DEF CallbackRead, Take
    <2>4. TypeOK'
        BY <1>0, <1>14, <2>3 DEF CallbackRead, TypeOK, Datagrams
    <2>. QED  BY <1>a, <1>b, <1>14, <2>4 DEF CallbackRead
<1>15. CASE CallbackTimeout
    <2>1. TypeOK'
        BY <1>0, <1>15 DEF CallbackTimeout, Return, TypeOK, Errors, Texts
    <2>. QED  BY <1>a, <1>b, <1>15, <2>1 DEF CallbackTimeout, Return
<1>16. ASSUME NEW x \in Replies \cup {NoReply}, sock' = Append(sock, x),
              Len(sock) < Capacity
       PROVE  sock' \in Seq(Replies \cup {NoReply}) /\ Len(sock') <= Capacity
    <2>. DEFINE Datagrams == Replies \cup {NoReply}
    <2>1. sock \in Seq(Datagrams) /\ x \in Datagrams /\ Capacity \in Nat
        BY <1>0, BoundsAssumption DEF TypeOK
    <2>. HIDE DEF Datagrams
    <2>2. sock' \in Seq(Datagrams) /\ Len(sock') <= Capacity
        BY <1>16, <2>1
    <2>. QED  BY <2>2 DEF Datagrams
<1>17. ASSUME NEW r \in Replies, Reply(r)  PROVE IInv'
    <2>1. sock' \in Seq(Replies \cup {NoReply}) /\ Len(sock') <= Capacity
        BY <1>16, <1>17 DEF Reply
    <2>2. asked' \in [Names -> 0 .. Copies]
        <3>1. r.name \in Names /\ asked \in [Names -> 0 .. Copies] /\ Copies \in Nat
            BY <1>0, ReplyFacts, BoundsAssumption DEF TypeOK
        <3>. QED  BY <1>17, <3>1 DEF Reply
    <2>3. TypeOK'
        BY <1>0, <1>17, <2>1, <2>2 DEF Reply, TypeOK
    <2>. QED  BY <1>0, <1>a, <1>b, <1>17, <2>3 DEF Reply
<1>18. CASE Stray
    <2>1. sock' \in Seq(Replies \cup {NoReply}) /\ Len(sock') <= Capacity
        BY <1>16, <1>18 DEF Stray
    <2>2. stray' \in 0 .. MaxStray
        BY <1>0, <1>18, BoundsAssumption DEF Stray, TypeOK
    <2>3. TypeOK'
        BY <1>0, <1>18, <2>1, <2>2 DEF Stray, TypeOK
    <2>. QED  BY <1>0, <1>a, <1>b, <1>18, <2>3 DEF Stray
<1>19. CASE Tick
    <2>1. Truthful(cache)' /\ cache' \in [Names -> Results]
        BY <1>0, <1>19, AgingIsTruthful, CacheReplaced DEF Tick
    <2>2. left' \in Nat /\ timer' \in Nat
        BY <1>0, <1>19 DEF Tick, Down, TypeOK
    <2>3. TypeOK'
        BY <1>0, <1>19, <2>1, <2>2 DEF Tick, TypeOK
    <2>. QED  BY <1>0, <1>b, <1>19, <2>1, <2>3 DEF Tick
<1>20. CASE UNCHANGED vars
    <2>1. TypeOK'
        BY <1>0, <1>20 DEF vars, TypeOK
    <2>. QED  BY <1>0, <1>a, <1>b, <1>20, <2>1 DEF vars
<1>. QED
    BY <1>1, <1>2, <1>3, <1>4, <1>5, <1>6, <1>7, <1>8, <1>9, <1>10, <1>11, <1>12,
       <1>13, <1>14, <1>15, <1>17, <1>18, <1>19, <1>20 DEF Next, Coroutine, Loop

-----------------------------------------------------------------------------
(* The theorems about the cache.                                           *)

\* Every state that is reached satisfies the inductive invariant.
THEOREM Inductive == AllReadBack => (Spec => []IInv)
<1>. SUFFICES ASSUME AllReadBack  PROVE Spec => []IInv
    OBVIOUS
<1>1. IInv /\ [Next]_vars => IInv'
    BY NextInv
<1>. QED  BY InitInv, <1>1, PTL DEF Spec

\* The variables stay within their types: in particular the clock stops at
\* zero, the socket never holds more than it can, and what the cache holds is a
\* whole result or none.
THEOREM TypeCorrect == AllReadBack => (Spec => []TypeOK)
<1>. SUFFICES ASSUME AllReadBack  PROVE Spec => []TypeOK
    OBVIOUS
<1>1. IInv => TypeOK
    BY DEF IInv
<1>. QED  BY Inductive, <1>1, PTL

\* However replies are delayed, repeated and reordered, and whichever request
\* they answer, what is known of a name is what a server said of that name.
THEOREM Truth == AllReadBack => (Spec => []CacheIsTrue)
<1>. SUFFICES ASSUME AllReadBack  PROVE Spec => []CacheIsTrue
    OBVIOUS
<1>1. IInv => CacheIsTrue
    <2>. SUFFICES ASSUME IInv, NEW n \in Names, cache[n] # NoResult
                  PROVE  \E r \in Replies : /\ r.name = n /\ r.rcode = 0
                                            /\ cache[n].records = Known(r)
                                            /\ cache[n].ttl <= LeastTtl(r)
        BY DEF CacheIsTrue
    <2>1. cache[n] \in MayKnow(n)
        BY DEF IInv, Truthful
    <2>2. PICK r \in Replies :
              /\ r.name = n /\ r.rcode = 0 /\ r.answers > 0
              /\ cache[n].ttl \in 0 .. LeastTtl(r) /\ cache[n].records = Known(r)
        BY <2>1, MayKnowResults
    <2>3. cache[n].ttl <= LeastTtl(r)
        BY <2>2, ReplyFacts
    <2>. QED  BY <2>2, <2>3
<1>. QED  BY Inductive, <1>1, PTL

\* resolve() finds what it was asked for.
LEMMA FoundStep ==
    ASSUME IInv, Next, pc # "found", pc' = "found"
    PROVE  cache'[domain].ttl > 0
<1>1. Received
    BY DEF Next, ResolveAt, ResolveByDefault, Lookup, EditFile, Coroutine, TryServer,
           NoMoreServers, NoAddress, SendFails, Send, Recv, Wait, ReceivedNothing,
           GoOn, QuickResolve, ResolveReturns, Return, Loop, EventReadable,
           TimerExpires, CallbackRead, CallbackTimeout, Reply, Stray, Tick
<1>2. ~GoOn
    BY DEF GoOn, Recv, Wait, Return
<1>. DEFINE known == Stored(Parsed[datagram])
<1>3. cache' = DnsResult(domain, known) /\ Found(domain, known)
    BY <1>1, <1>2 DEF Received
<1>. QED  BY <1>3 DEF DnsResult, Found

\* What quick_resolve() returns comes out of a reply about the very name.
LEMMA AddressStep ==
    ASSUME IInv, Next, pc = "found", pc' = "idle", ret'.address # <<>>
    PROVE  \E r \in Replies : /\ r.name = domain /\ LeastTtl(r) > 0
                              /\ ret'.address = FirstIPv4(Known(r))
<1>1. UNCHANGED ret \/ QuickResolve
    <2>1. CallbackTimeout => ret'.address = <<>>
        BY DEF CallbackTimeout, Return
    <2>. QED
        BY <2>1 DEF Next, ResolveAt, ResolveByDefault, Resolve, Lookup, EditFile,
           Coroutine, TryServer, NoMoreServers, NoAddress, SendFails, Send, Received,
           ReceivedNothing, ResolveReturns, Loop, EventReadable, TimerExpires,
           CallbackRead, Reply, Stray, Tick
<1>2. QuickResolve
    BY <1>1 DEF IInv
<1>3. domain \in Names /\ Truthful(cache)
    BY DEF IInv, TypeOK
<1>4. Truthful(DnsResult(domain, cache)) /\ cache' = DnsResult(domain, cache)
    BY <1>2, <1>3, ErasingIsTruthful DEF QuickResolve
<1>. DEFINE c == cache'[domain]
<1>5. c \in MayKnow(domain)
    BY <1>3, <1>4 DEF Truthful
<1>6. ret'.address = FirstIPv4(c.records)
    BY <1>2 DEF QuickResolve, Return
<1>7. c # NoResult
    BY <1>5, <1>6, AddressIsKnown
<1>8. PICK r \in Replies :
          /\ r.name = domain /\ r.rcode = 0 /\ r.answers > 0
          /\ c.ttl \in 0 .. LeastTtl(r) /\ c.records = Known(r)
    BY <1>5, <1>7, MayKnowResults
<1>9. c.ttl > 0
    <2>1. Found(domain, cache) \/ c = NoResult
        BY <1>3, <1>4 DEF DnsResult, Truthful
    <2>. QED  BY <1>4, <1>7, <2>1 DEF Found, DnsResult
<1>10. LeastTtl(r) > 0
    BY <1>8, <1>9, ReplyFacts
<1>. QED  BY <1>6, <1>8, <1>10

\* resolve() succeeds only with an unexpired result for its name, and an
\* address that quick_resolve() returns is the first a server gave for it.
THEOREM Success == AllReadBack => (Spec => OkMeansFound)
<1>. SUFFICES ASSUME AllReadBack  PROVE Spec => OkMeansFound
    OBVIOUS
<1>1. IInv /\ [Next]_vars =>
          [/\ pc # "found" /\ pc' = "found" => cache'[domain].ttl > 0
           /\ pc = "found" /\ pc' = "idle" /\ ret'.address # <<>> =>
                 \E r \in Replies : r.name = domain /\ LeastTtl(r) > 0
                                   /\ ret'.address = FirstIPv4(Known(r))]_vars
    BY FoundStep, AddressStep
<1>. QED  BY Inductive, <1>1, PTL DEF Spec, OkMeansFound
=============================================================================
