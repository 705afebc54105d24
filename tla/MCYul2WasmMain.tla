---------------------------- MODULE MCYul2WasmMain ----------------------------
(* Model-checking instance of Yul2WasmMain. *)
EXTENDS Yul2WasmMain
=============================================================================
