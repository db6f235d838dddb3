------------------------------ MODULE MCLifetime ------------------------------
(***************************************************************************)
(* Lifetime for TLC.  Addresses of one kind are interchangeable: nothing   *)
(* in the specification tells one session from another, nor one client.    *)
(***************************************************************************)
EXTENDS Lifetime, TLC

Symmetry == Permutations(Session) \cup Permutations(UdpClient)
=============================================================================
