----------------------------- MODULE MCSqliteConn -----------------------------
(* Instances of SqliteConn for TLC. *)
EXTENDS SqliteConn, TLC

\* Connections are interchangeable (used by runs without liveness).
Symmetry == Permutations(Conns)
=============================================================================
