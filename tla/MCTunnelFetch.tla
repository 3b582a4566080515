--------------------------- MODULE MCTunnelFetch ---------------------------
(***************************************************************************)
(* TunnelFetch for TLC. Requests and connections are interchangeable.      *)
(***************************************************************************)
EXTENDS TunnelFetch, TLC

Symmetry == Permutations(Requests) \cup Permutations(Conns)
=============================================================================
