------------------------------ MODULE DnsClient ------------------------------
(***************************************************************************)
(* A DNS client (coevent_dns_client.cpp) and the UDP client inside it      *)
(* (coevent_udp_client.cpp): resolve() chooses a name server, sends a      *)
(* request and reads datagrams until the client's cache has an unexpired   *)
(* result for the name, an error occurs or the time is up.                 *)
(*                                                                         *)
(* Datagrams are lost, delayed, repeated and reordered, and the answer to  *)
(* a request may arrive during a later resolve(): the client compares      *)
(* neither the transaction ID nor the sender.  What it keeps is told apart *)
(* by the name in the question of the reply alone.                         *)
(*                                                                         *)
(* Time is counted down: a second passes in Tick.  From one co_yield() to  *)
(* the next the coroutine runs alone in its thread; the clock, the network *)
(* and other processes go on meanwhile, so the steps it takes in between   *)
(* are actions of their own.                                               *)
(*                                                                         *)
(* An operator named X_... is X with a plausible slip; no specification    *)
(* uses it.                                                                *)
(***************************************************************************)
EXTENDS DnsMessage

CONSTANTS
    Own,         \* the network type of the client: "IPv4" or "IPv6"
    Names,       \* domain names, sequences of labels
    Replies,     \* what servers may reply, to whoever asked for reply.name
    Timeouts,    \* timeouts other than forever, in seconds
    Files,       \* contents of /etc/resolv.conf: the types of its servers in
                 \* turn; <<>> stands for a file that cannot be opened
    Copies,      \* bound: replies to one request that may still arrive
    Capacity,    \* datagrams the socket holds
    MaxResolves, \* bound: calls of resolve with a server given
    MaxStray     \* bound: datagrams without data that arrive

ASSUME OwnAssumption == Own \in {"IPv4", "IPv6"}
ASSUME FilesAssumption == Files \subseteq Seq({"IPv4", "IPv6"}) /\ <<>> \in Files
ASSUME TimeoutsAssumption == Timeouts \subseteq Nat \ {0}
ASSUME NamesAssumption == <<>> \notin Names
ASSUME RepliesAssumption ==
    \A r \in Replies :
        /\ r.name \in Names
        /\ r.records \in Seq([name : Seq(STRING), type : STRING, ttl : Nat,
                             address : Seq(STRING)])
        /\ r.answers \in 0 .. Len(r.records)
ASSUME BoundsAssumption ==
    Copies \in Nat /\ Capacity \in Nat \ {0} /\ MaxResolves \in Nat /\ MaxStray \in Nat

VARIABLES
    pc,         \* where the coroutine is: "idle" is outside of resolve()
    domain,     \* domain_name of the resolve in progress or last done
    forever,    \* should_recv_forever
    left,       \* end_time minus the present time, never less than 0
    byDefault,  \* no server was given
    index,      \* of the loop over the default servers
    server,     \* dns_ip: the type of the address, "none" if it is not one
    IPs,        \* g_DNS_network_type, as long as g_DNS_IPs
    file,       \* what /etc/resolv.conf holds
    edited,     \* it was changed since the loop began
    ev,         \* the UDP client's libevent event
    timer,      \* seconds until its timer is due, if it has one
    what,       \* *_libevent_what_storage of the UDP client
    sock,       \* datagrams in its socket
    datagram,   \* data_buff: the datagram just received
    asked,      \* how many replies to requests for a name may still arrive
    cache,      \* _dns_result
    ret,        \* what the last resolve returned and quick_resolve() makes of it
    resolves,   \* resolves begun
    stray       \* datagrams without data that arrived

callVars == <<domain, forever, byDefault>>
confVars == <<index, server, IPs, file, edited>>
netVars  == <<sock, asked, stray>>
vars == <<pc, callVars, left, confVars, ev, timer, what, netVars, datagram,
          cache, ret, resolves>>

-----------------------------------------------------------------------------
NoReply   == [name |-> <<>>, rcode |-> 0, answers |-> 0, authorities |-> 0, records |-> <<>>]
NoResult  == [ttl |-> -1, records |-> <<>>]
Results   == {NoResult} \cup
    UNION {{[ttl |-> t, records |-> Known(r)] : t \in 0 .. LeastTtl(r)} :
           r \in {x \in Replies : x.rcode = 0 /\ x.answers > 0}}
Parsed == [r \in Replies |-> Parse(Write(r))]

ServerTypes == {"IPv4", "IPv6", "none"}
Types == {"IPv4", "IPv6", "unknown"}
Errors == {"NONE", "OK", "TIMEOUT", "UNKNOWN", "SERVER_IP_NOT_FOUND", "SYS"}
Texts == {<<>>} \cup UNION {{r.records[i].address : i \in 1 .. Len(r.records)} : r \in Replies}

TypeOK ==
    /\ pc \in {"idle", "choose", "send", "wait", "received", "found"}
    /\ domain \in Names
    /\ forever \in BOOLEAN /\ byDefault \in BOOLEAN /\ edited \in BOOLEAN
    /\ left \in Nat /\ timer \in Nat
    /\ index \in Nat /\ server \in ServerTypes
    /\ IPs \in Files \cup {<<>>} /\ file \in Files
    /\ ev \in {"none", "pending", "readable", "expired"}
    /\ what \subseteq {"READ", "TIMEOUT"}
    /\ sock \in Seq(Replies \cup {NoReply}) /\ Len(sock) <= Capacity
    /\ datagram \in Replies \cup {NoReply}
    /\ asked \in [Names -> 0 .. Copies]
    /\ cache \in [Names -> Results]
    /\ ret \in [err : Errors, address : Texts]
    /\ resolves \in 0 .. MaxResolves /\ stray \in 0 .. MaxStray

\* The lists of servers belong to the process: when this client resolves for
\* the first time, others may have filled them.
Init ==
    /\ pc = "idle" /\ domain \in Names
    /\ forever = FALSE /\ left = 0
    /\ byDefault \in BOOLEAN
    /\ index = 0 /\ server = "none" /\ edited = FALSE
    /\ IF byDefault THEN file \in Files /\ IPs \in Files \cup {<<>>}
       ELSE file = <<>> /\ IPs = <<>>
    /\ ev = "none" /\ timer = 0 /\ what = {}
    /\ sock = <<>> /\ datagram = NoReply
    /\ asked = [n \in Names |-> 0]
    /\ cache = [n \in Names |-> NoResult]
    /\ ret = [err |-> "NONE", address |-> <<>>]
    /\ resolves = 0 /\ stray = 0

-----------------------------------------------------------------------------
(* The cache.                                                              *)

Stored_AsAsked(result) ==
    IF result.ok
    THEN [cache EXCEPT ![domain] = [ttl |-> result.ttl, records |-> result.records]]
    ELSE cache

\* _parse_dns_response(): a result replaces what was known of its domain.
Stored(result) ==
    IF result.ok
    THEN [cache EXCEPT ![result.domain] = [ttl |-> result.ttl, records |-> result.records]]
    ELSE cache

Found(n, known) == known[n].ttl > 0

DnsResult_EmptiesOnly(n, known) ==
    IF Found(n, known) THEN known ELSE [known EXCEPT ![n].records = <<>>]

\* dns_result() finds a result, or erases it when it has expired.
DnsResult(n, known) == IF Found(n, known) THEN known ELSE [known EXCEPT ![n] = NoResult]

\* The program asks.
Lookup(n) ==
    /\ pc = "idle" /\ cache[n] # NoResult
    /\ cache' = DnsResult(n, cache)
    /\ UNCHANGED <<pc, callVars, left, confVars, ev, timer, what, netVars,
                   datagram, ret, resolves>>

-----------------------------------------------------------------------------
(* Choosing the server.                                                    *)

Return(err, address) ==
    /\ pc' = "idle" /\ ret' = [err |-> err, address |-> address]

\* resolve(): a timeout_seconds of 0 or less leaves the timeval uninitialised,
\* so that resolve(n, 0) may have any timeout, forever included.
Resolve(n, endless) ==
    /\ pc = "idle" /\ resolves < MaxResolves
    /\ domain' = n /\ forever' = endless
    /\ UNCHANGED <<left, byDefault, ev, timer, what, netVars, datagram, cache, ret>>

ResolveAt(n, endless) ==
    /\ Resolve(n, endless) /\ ~byDefault
    /\ resolves' = resolves + 1
    /\ pc' = "send" /\ server' \in {Own, "none"}
    /\ UNCHANGED <<index, IPs, file, edited>>

\* Without a server given: an empty list is filled from the file, or a public
\* server is taken when that cannot be opened.  (For a file without a single
\* nameserver the code reads beyond the list; Files has none.)
ResolveByDefault(n, endless) ==
    /\ Resolve(n, endless) /\ byDefault
    /\ resolves' = MaxResolves
    /\ pc' = "choose" /\ index' = 0 /\ edited' = FALSE
    /\ IF IPs # <<>> THEN server' = "none" /\ UNCHANGED IPs
       ELSE server' = (IF file = <<>> THEN Own ELSE file[1]) /\ IPs' = file
    /\ UNCHANGED file

\* default_dns_server(index, &type): the file is read again every time, as the
\* time it was last read is never stored.  When it cannot be opened a public
\* server of the client's own type is returned, and no type.  The check of the
\* index lets the length of the list through: a list that has become shorter
\* is read behind its end, where anything may be found.
DefaultServer(type, ip) ==
    \/ /\ file = <<>> /\ type = "unknown" /\ ip = Own
       /\ UNCHANGED IPs
    \/ /\ file # <<>> /\ index < Len(file)
       /\ type = file[index + 1] /\ ip = type
       /\ IPs' = file
    \/ /\ file # <<>> /\ index = Len(file)
       /\ IPs' = file
    \/ /\ file # <<>> /\ index > Len(file)
       /\ type = "unknown" /\ ip = Own
       /\ IPs' = file

TryServer_FirstOnly(type, ip) ==
    /\ pc = "choose" /\ index < Len(IPs)
    /\ DefaultServer(type, ip)
    /\ server' = ip
    /\ pc' = "send" /\ index' = 0
    /\ UNCHANGED <<callVars, left, file, edited, ev, timer, what, netVars,
                   datagram, cache, ret, resolves>>

\* One turn of the loop, which ends at the first server of the client's type.
TryServer(type, ip) ==
    /\ pc = "choose" /\ index < Len(IPs)
    /\ DefaultServer(type, ip)
    /\ server' = ip
    /\ IF type = Own THEN pc' = "send" /\ index' = 0
       ELSE index' = index + 1 /\ UNCHANGED pc
    /\ UNCHANGED <<callVars, left, file, edited, ev, timer, what, netVars,
                   datagram, cache, ret, resolves>>

NoMoreServers ==
    /\ pc = "choose" /\ index >= Len(IPs)
    /\ pc' = "send" /\ index' = 0
    /\ UNCHANGED <<callVars, left, server, IPs, file, edited, ev, timer, what,
                   netVars, datagram, cache, ret, resolves>>

\* Another process rewrites the file.
EditFile(f) ==
    /\ byDefault /\ pc = "choose" /\ ~edited
    /\ f # file
    /\ file' = f /\ edited' = TRUE
    /\ UNCHANGED <<pc, callVars, left, index, server, IPs, ev, timer, what,
                   netVars, datagram, cache, ret, resolves>>

-----------------------------------------------------------------------------
(* recv_in_timeval() of the UDP client.                                    *)

Wait_Unarmed(seconds) ==
    /\ pc' = "wait" /\ ev' = "none" /\ timer' = seconds
    /\ what' = what \ {"READ"}
    /\ UNCHANGED <<sock, datagram>>

\* event_add() and co_yield().
Wait(seconds) ==
    /\ pc' = "wait" /\ ev' = "pending" /\ timer' = seconds
    /\ what' = what \ {"READ"}
    /\ UNCHANGED <<sock, datagram>>

Take ==
    /\ sock # <<>>
    /\ datagram' = Head(sock) /\ sock' = Tail(sock)

\* With EV_READ left from an earlier callback the socket is read at once; when
\* that gives nothing, or a datagram without data, the flag is cleared and
\* recv_in_timeval() calls itself, to wait.
Recv(seconds) ==
    \/ /\ "READ" \in what /\ Take /\ datagram' # NoReply
       /\ pc' = "received"
       /\ UNCHANGED <<ev, timer, what>>
    \/ /\ "READ" \in what /\ sock # <<>> /\ Head(sock) = NoReply
       /\ sock' = Tail(sock)
       /\ pc' = "wait" /\ ev' = "pending" /\ timer' = seconds
       /\ what' = what \ {"READ"}
       /\ UNCHANGED datagram
    \/ ("READ" \notin what \/ sock = <<>>) /\ Wait(seconds)

-----------------------------------------------------------------------------
(* The rest of resolve_in_timeval().                                       *)

\* dns_ip is not an address of the client's type.
NoAddress ==
    /\ pc = "send" /\ server # Own
    /\ Return("SERVER_IP_NOT_FOUND", <<>>)
    /\ UNCHANGED <<callVars, left, confVars, ev, timer, what, netVars,
                   datagram, cache, resolves>>

SendFails ==
    /\ pc = "send" /\ server = Own
    /\ Return("SYS", <<>>)
    /\ UNCHANGED <<callVars, left, confVars, ev, timer, what, netVars,
                   datagram, cache, resolves>>

\* The request is sent, the time is taken and the first recv called.
Send(seconds) ==
    /\ pc = "send" /\ server = Own
    /\ seconds \in IF forever THEN {0} ELSE Timeouts
    /\ asked' = [asked EXCEPT ![NameAsked(Request(domain, "A"))] = Copies]
    /\ left' = seconds
    /\ Recv(seconds)
    /\ UNCHANGED <<callVars, confVars, stray, cache, ret, resolves>>

GoOn_SameTimeout ==
    \/ left > 0 /\ \E seconds \in Timeouts : Recv(seconds) /\ UNCHANGED ret
    \/ forever /\ Recv(0) /\ UNCHANGED ret
    \/ ~forever /\ left = 0 /\ Return("TIMEOUT", <<>>)
       /\ UNCHANGED <<ev, timer, what, sock, datagram>>

\* "check timeout and continue recv"
GoOn ==
    \/ (forever \/ left > 0) /\ Recv(left) /\ UNCHANGED ret
    \/ ~forever /\ left = 0 /\ Return("TIMEOUT", <<>>)
       /\ UNCHANGED <<ev, timer, what, sock, datagram>>

Succeed ==
    /\ pc' = "found" /\ ret' = [err |-> "OK", address |-> <<>>]
    /\ UNCHANGED <<ev, timer, what, sock, datagram>>

Received_AnyAnswer ==
    /\ pc = "received" /\ datagram # NoReply
    /\ cache' = Stored(Parsed[datagram])
    /\ IF Parsed[datagram].ok THEN Succeed ELSE GoOn
    /\ UNCHANGED <<callVars, left, confVars, asked, stray, resolves>>

\* A datagram with data: it is parsed, kept if it is an answer, and then the
\* cache is asked for the name.  A failure to parse it is not reported.
Received ==
    /\ pc = "received" /\ datagram # NoReply
    /\ LET known == Stored(Parsed[datagram])
       IN  /\ cache' = DnsResult(domain, known)
           /\ IF Found(domain, known) THEN Succeed ELSE GoOn
    /\ UNCHANGED <<callVars, left, confVars, asked, stray, resolves>>

\* A datagram without data: the cache is not looked at.
ReceivedNothing ==
    /\ pc = "received" /\ datagram = NoReply
    /\ GoOn
    /\ UNCHANGED <<callVars, left, confVars, asked, stray, cache, resolves>>

\* quick_resolve() looks the name up once more; the result may have expired
\* since, and then it returns no address.
QuickResolve ==
    /\ pc = "found"
    /\ cache' = DnsResult(domain, cache)
    /\ Return("OK", FirstIPv4(cache'[domain].records))
    /\ UNCHANGED <<callVars, left, confVars, ev, timer, what, netVars, datagram,
                   resolves>>

\* The program called resolve() itself.
ResolveReturns ==
    /\ pc = "found" /\ pc' = "idle"
    /\ UNCHANGED <<callVars, left, confVars, ev, timer, what, netVars, datagram,
                   cache, ret, resolves>>

-----------------------------------------------------------------------------
(* libevent and the callback of the UDP client.                            *)

EventReadable ==
    /\ ev = "pending" /\ sock # <<>>
    /\ ev' = "readable"
    /\ UNCHANGED <<pc, callVars, left, confVars, timer, what, netVars,
                   datagram, cache, ret, resolves>>

\* A due timer takes the event over: EV_TIMEOUT alone.
TimerExpires ==
    /\ ev \in {"pending", "readable"} /\ ~forever /\ timer = 0
    /\ ev' = "expired"
    /\ UNCHANGED <<pc, callVars, left, confVars, timer, what, netVars,
                   datagram, cache, ret, resolves>>

\* _libevent_callback() resumes the coroutine behind the co_yield() of recv.
CallbackRead ==
    /\ ev = "readable" /\ ev' = "none"
    /\ what' = {"READ"}
    /\ Take
    /\ pc' = "received"
    /\ UNCHANGED <<callVars, left, confVars, timer, asked, stray, cache, ret,
                   resolves>>

CallbackTimeout ==
    /\ ev = "expired" /\ ev' = "none"
    /\ what' = {"TIMEOUT"}
    /\ Return("TIMEOUT", <<>>)
    /\ UNCHANGED <<callVars, left, confVars, timer, netVars, datagram, cache,
                   resolves>>

-----------------------------------------------------------------------------
(* The network and the clock.                                              *)

\* A server replies, for the first time or again.
Reply(r) ==
    /\ asked[r.name] > 0 /\ Len(sock) < Capacity
    /\ asked' = [asked EXCEPT ![r.name] = @ - 1]
    /\ sock' = Append(sock, r)
    /\ UNCHANGED <<pc, callVars, left, confVars, ev, timer, what, stray,
                   datagram, cache, ret, resolves>>

Stray ==
    /\ stray < MaxStray /\ Len(sock) < Capacity
    /\ sock' = Append(sock, NoReply) /\ stray' = stray + 1
    /\ UNCHANGED <<pc, callVars, left, confVars, ev, timer, what, asked,
                   datagram, cache, ret, resolves>>

Down(n) == IF n > 0 THEN n - 1 ELSE n

Tick ==
    /\ left' = Down(left) /\ timer' = Down(timer)
    /\ cache' = [n \in Names |-> [cache[n] EXCEPT !.ttl = Down(@)]]
    /\ UNCHANGED <<pc, callVars, confVars, ev, what, netVars, datagram, ret,
                   resolves>>

Coroutine ==
    \/ \E type \in Types, ip \in ServerTypes : TryServer(type, ip)
    \/ NoMoreServers \/ NoAddress \/ SendFails
    \/ \E seconds \in Timeouts \cup {0} : Send(seconds)
    \/ Received \/ ReceivedNothing \/ QuickResolve \/ ResolveReturns

Loop == EventReadable \/ TimerExpires \/ CallbackRead \/ CallbackTimeout

Next ==
    \/ \E n \in Names, endless \in BOOLEAN :
          ResolveAt(n, endless) \/ ResolveByDefault(n, endless)
    \/ \E n \in Names : Lookup(n)
    \/ \E f \in Files : EditFile(f)
    \/ Coroutine \/ Loop
    \/ \E r \in Replies : Reply(r)
    \/ Stray
    \/ Tick

\* The coroutine runs on, the loop polls and calls back, and time passes.
\* Nothing is assumed of servers and network.
Fairness == WF_vars(Coroutine) /\ WF_vars(Loop) /\ WF_vars(Tick)

Spec == Init /\ [][Next]_vars /\ Fairness

-----------------------------------------------------------------------------
(* Properties.                                                             *)

\* What the client knows of a name is what a server replied to a question for
\* that very name: every record in its place with its own address, and for no
\* longer than the shortest-lived answer lasts, no matter to which request,
\* in which order and how often replies arrive.
CacheIsTrue ==
    \A n \in Names : cache[n] # NoResult =>
        \E r \in Replies : /\ r.name = n /\ r.rcode = 0
                           /\ cache[n].records = Known(r)
                           /\ cache[n].ttl <= LeastTtl(r)

\* However many useless datagrams came in between, the timer that ends the
\* wait is due when the time given to resolve() is up: neither earlier, nor
\* later.
DeadlineKept == pc = "wait" /\ ~forever => timer = left

\* resolve() succeeds only with an unexpired result for its name in the cache,
\* and an address that quick_resolve() returns is the first that a server gave
\* for that name, out of a reply that may be kept.
OkMeansFound ==
    [][/\ pc # "found" /\ pc' = "found" => cache'[domain].ttl > 0
       /\ pc = "found" /\ pc' = "idle" /\ ret'.address # <<>> =>
             \E r \in Replies : r.name = domain /\ LeastTtl(r) > 0
                               /\ ret'.address = FirstIPv4(Known(r))]_vars

Usable(r) == r.name = domain /\ r.rcode = 0 /\ r.answers > 0 /\ LeastTtl(r) > 0

\* A resolve() with a timeout ends whatever the servers do, and one without
\* ends once a usable answer is in the socket.
ResolveEnds ==
    (pc # "idle" /\ (~forever \/ \E i \in 1 .. Len(sock) : sock[i] # NoReply /\ Usable(sock[i])))
        ~> pc = "idle"

\* When the file has a server of the client's type and nobody rewrites it
\* during the loop, such a server is asked, whatever list was left by earlier
\* calls.
ServerOfOwnType ==
    pc = "send" /\ byDefault /\ ~edited /\ (\E i \in 1 .. Len(file) : file[i] = Own)
        => server = Own
=============================================================================
