----------------------------- MODULE MCLimiter -----------------------------
(* Limiter for TLC.                                                        *)
EXTENDS Limiter, TLC

Clients == Permutations(Client)
Symmetry == Clients \cup Permutations(Shop)
=============================================================================
