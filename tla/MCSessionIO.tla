----------------------------- MODULE MCSessionIO -----------------------------
(* Instances of SessionIO for TLC; the .cfg files hold the values. *)
EXTENDS SessionIO
=============================================================================
