--------------------------- MODULE DatagramChannel ---------------------------
(***************************************************************************)
(* What a UDP session promises the worker function that runs in it: the    *)
(* datagrams its peer sent arrive one per successful recv, whole, once and *)
(* in order, and a worker waiting in recv while one is there is resumed.   *)
(* UdpSession implements this with a byte buffer and a socket of its own.  *)
(* The promise ends when the channel breaks, which it may do while a       *)
(* datagram is handed to it.                                               *)
(***************************************************************************)
EXTENDS Sequences

CONSTANT Datagram   \* the datagrams a peer can send

VARIABLES
    queue,      \* datagrams accepted and not yet received
    delivered,  \* datagrams received, oldest first
    receiver,   \* what the worker is doing: "idle", "receiving" or "closed"
    broken      \* a datagram has broken the channel

chanVars == <<queue, delivered, receiver, broken>>

ChanTypeOK ==
    /\ queue \in Seq(Datagram)
    /\ delivered \in Seq(Datagram)
    /\ receiver \in {"idle", "receiving", "closed"}
    /\ broken \in BOOLEAN

ChanInit ==
    /\ queue = <<>>
    /\ delivered = <<>>
    /\ receiver = "idle"
    /\ broken = FALSE

\* The server's coroutine hands the session one more datagram, the last of
\* queue' (named so because the set of datagrams need not be enumerable).
Put ==
    /\ receiver # "closed"
    /\ queue' # <<>>
    /\ LET datagram == queue'[Len(queue')]
       IN  datagram \in Datagram /\ queue' = Append(queue, datagram)
    /\ UNCHANGED <<delivered, receiver, broken>>

Take ==
    /\ queue # <<>>
    /\ delivered' = Append(delivered, Head(queue))
    /\ queue' = Tail(queue)
    /\ receiver' = "idle"
    /\ UNCHANGED broken

\* A recv that finds data returns it at once; one that finds none waits.
TakeAtOnce == receiver = "idle" /\ Take

Wait ==
    /\ receiver = "idle"
    /\ receiver' = "receiving"
    /\ UNCHANGED <<queue, delivered, broken>>

TakeAfterWait == receiver = "receiving" /\ Take

\* The time limit of a waiting recv runs out.  It may do so with data there.
TimeOut ==
    /\ receiver = "receiving"
    /\ receiver' = "idle"
    /\ UNCHANGED <<queue, delivered, broken>>

Close ==
    /\ receiver = "idle"
    /\ receiver' = "closed"
    /\ UNCHANGED <<queue, delivered, broken>>

\* Nothing is promised from the datagram on that does not fit, but that no
\* step mends the channel.
Break == ~broken /\ broken' /\ receiver # "closed" /\ UNCHANGED <<delivered, receiver>>

AfterBreak == broken /\ broken'

ChanNext ==
    \/ Put \/ TakeAtOnce \/ Wait \/ TakeAfterWait \/ TimeOut \/ Close
    \/ Break \/ AfterBreak

\* A waiting worker is resumed, with the datagram or with a time-out.
ChanFairness == WF_chanVars(~broken /\ queue # <<>> /\ (TakeAfterWait \/ TimeOut))

ChanSpec == ChanInit /\ [][ChanNext]_chanVars /\ ChanFairness
=============================================================================
