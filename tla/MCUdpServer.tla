----------------------------- MODULE MCUdpServer -----------------------------
(***************************************************************************)
(* UdpServer for TLC: two peers that send from the same port of different  *)
(* hosts, so that their sessions want the same port, and one that sends    *)
(* from a port of its own.                                                 *)
(***************************************************************************)
EXTENDS UdpServer

CONSTANTS a, b, c

MCPeer == {a, b, c}

MCPortOf == [p \in MCPeer |-> IF p = c THEN 40000 ELSE 7000]

\* A port below FirstPort or equal to the server's once its bytes are swapped
\* is refused in the same way as one in use.
ASSUME SwapExamples ==
    /\ SwapBytes(7000) = 22555 /\ SwapBytes(40000) = 16540
    /\ SwapBytes(7433) = 2333

\* Internet addresses have one length; two bytes stand for the sixteen.
MCAddrLen == [p \in MCPeer |-> 2]

\* Local sockets: one with a short name, one without a name, one with a longer
\* name.  With these lengths the code does not have RepliesToSender.
MCLocalAddrLen == [p \in MCPeer |-> IF p = a THEN 1 ELSE IF p = b THEN 0 ELSE 2]
=============================================================================
