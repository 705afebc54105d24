---------------------------- MODULE MCLinkWasm -----------------------------
(* Model-checking instance of LinkWasm. *)
EXTENDS LinkWasm
=============================================================================
