-------------------------- MODULE MCClientRegistry --------------------------
(* Instances of ClientRegistry for TLC. *)
EXTENDS ClientRegistry, TLC

\* Sessions and threads are interchangeable (used by runs without liveness).
Symmetry == Permutations(Sessions) \union Permutations(Threads)
=============================================================================
