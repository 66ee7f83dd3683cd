------------------------------ MODULE MCStartup ------------------------------
(* An instance of Startup for TLC. *)
EXTENDS Startup

\* Missing keys; no thread; one; the first numbers that a short keeps as a
\* negative one and as 0.
SomeSettings ==
  {[complete |-> FALSE, threads |-> 2]} \union
  {[complete |-> TRUE, threads |-> n] : n \in {0, 1, 32768, 65536}}
=============================================================================
