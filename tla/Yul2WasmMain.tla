---------------------------- MODULE Yul2WasmMain ----------------------------
(***************************************************************************)
(* The yul2wasm command (src/src/main.rs), invoked again and again on the *)
(* same output path.  One invocation reads and parses the source, derives *)
(* the compile options from the flags, emits the object (which loads the  *)
(* standard library of src/src/yul2ir/stdlib.rs and runs wasm::link, the  *)
(* LinkWasm module, instantiated here on the same variables), and writes  *)
(* X.wasm, X.cbin and X.cbin.hex in that order.  Every `unwrap()` and     *)
(* `expect()` aborts the process with exit status 101, process::exit(1)   *)
(* with status 1; the files stay on disk for the next invocation.        *)
(*                                                                         *)
(* A file's content is the invocation that wrote it and whether the write *)
(* completed: fs::write truncates and then writes, so a failed write can   *)
(* leave a partial file.  The packaging itself (length prefix, hex) is a   *)
(* pure function of the emitted bytes and is not repeated here.           *)
(***************************************************************************)
EXTENDS Naturals, Sequences, FiniteSets

CONSTANTS
  NoFile,       \* as in LinkWasm
  MaxRuns       \* invocations of the command

VARIABLES
  release_feature, opts, has_sub_contract, exports_empty, step, command_line,
  stack_size, output_file, module, size_opt, start_opt,   \* wasm::link, as in LinkWasm
  debug_assertions, \* the build profile of the yul2wasm binary
  run,              \* the current invocation, 1..MaxRuns
  args,             \* its command-line flags
  pc,               \* where main() is
  exit_code,        \* the process status once pc = "exited"
  stdlib,           \* the bitcode modules load_stdlib linked in
  files             \* [kind |-> [run, whole]] of the three outputs on disk

L == INSTANCE LinkWasm

link_vars == <<release_feature, opts, has_sub_contract, exports_empty, step, command_line,
               stack_size, output_file, module, size_opt, start_opt>>
main_vars == <<debug_assertions, run, args, pc, exit_code, stdlib, files>>
vars == <<link_vars, main_vars>>

OutputKinds == {"wasm", "cbin", "hex"}
Absent == [run |-> 0, whole |-> TRUE]

(* The flags an invocation can be given.  A clap `bool` field is a        *)
(* SetTrue flag: true when given, its default_value otherwise.            *)
Args ==
  [ debug : BOOLEAN, opt_level : {"none", "default", "aggressive", "fast"},
    no_binaryen_optimize_given : BOOLEAN, enable_all_optimizers : BOOLEAN,
    minify_wasm_size : BOOLEAN, output_dir_exists : BOOLEAN,
    default_ret_type : {"u256", "bytes32", "u128"} ]

ClapBool(given, default_value) == given \/ default_value

\* OptimizationLevel::from_str.
LevelOf == [ s \in {"none", "less", "default", "aggressive"} |->
               CASE s = "none" -> "None" [] s = "less" -> "Less"
                 [] s = "default" -> "Default" [] s = "aggressive" -> "Aggressive" ]

(* load_stdlib: the five modules of WASM_IR and, when not in debug mode,   *)
(* RELEASE_MODE_EXTRA_WASM_IR; both arrays are chosen by the build         *)
(* profile (cfg(debug_assertions)), and the extra array is empty in a     *)
(* debug build.                                                            *)
StdlibModules(debug_build, debug_mode) ==
  LET dir == IF debug_build THEN "debug" ELSE "release"
  IN  { <<dir, m>> : m \in {"stdlib", "chain", "utils", "evm_memory", "chain_math"} }
      \cup (IF ~debug_mode /\ ~debug_build THEN {<<"release", "debug_in_release">>} ELSE {})

-----------------------------------------------------------------------------
LinkIdle ==
  /\ step = "idle" /\ command_line = <<>> /\ stack_size = L!DefaultStackSize
  /\ output_file = NoFile /\ module = NoFile /\ size_opt = "pending" /\ start_opt = "pending"
  /\ opts = NoFile /\ has_sub_contract = FALSE /\ exports_empty = FALSE

Init ==
  /\ release_feature \in BOOLEAN
  /\ debug_assertions \in BOOLEAN
  /\ LinkIdle
  /\ run = 1
  /\ args \in Args
  /\ pc = "read"
  /\ exit_code = 0
  /\ stdlib = {}
  /\ files = [k \in OutputKinds |-> Absent]

Exit(code) == pc' = "exited" /\ exit_code' = code

(* Lines 92-106: fs::read_to_string, remove_comments, ObjectParser::parse; *)
(* a read or parse error prints a message and exits with status 1.        *)
ReadAndParse ==
  /\ pc = "read"
  /\ \/ pc' = "options" /\ UNCHANGED exit_code
     \/ Exit(1)
  /\ UNCHANGED <<link_vars, debug_assertions, run, args, stdlib, files>>

(* Lines 109-176: the options record.  opt_level is parsed with unwrap()  *)
(* (panics on an unknown name); the output directory is canonicalized     *)
(* with unwrap() before its existence is tested, so a missing directory   *)
(* panics; --debug forces opt_level None and debug_mode; an unknown       *)
(* default return type exits with status 1.                                *)
DeriveOptions ==
  /\ pc = "options"
  /\ CASE args.opt_level \notin DOMAIN LevelOf -> Exit(101) /\ UNCHANGED opts
       [] ~args.output_dir_exists -> Exit(101) /\ UNCHANGED opts
       [] args.default_ret_type \notin {"u256", "bytes32"} -> Exit(1) /\ UNCHANGED opts
       [] OTHER ->
            /\ opts' = [ debug_mode |-> args.debug,
                         opt_level |-> IF args.debug THEN "None" ELSE LevelOf[args.opt_level],
                         enable_all_optimizers |-> ClapBool(args.enable_all_optimizers, FALSE),
                         no_binaryen_optimize |-> ClapBool(args.no_binaryen_optimize_given, TRUE),
                         minify_wasm_size |-> ClapBool(args.minify_wasm_size, FALSE) ]
            /\ pc' = "emit" /\ UNCHANGED exit_code
  /\ UNCHANGED <<release_feature, has_sub_contract, exports_empty, step, command_line,
                 stack_size, output_file, module, size_opt, start_opt,
                 debug_assertions, run, args, stdlib, files>>

(* context.emit: load_stdlib, lowering of the object tree, then           *)
(* wasm::link on the object code.  A lowering error is returned as Err   *)
(* and main exits with status 1.                                          *)
StartEmit ==
  /\ pc = "emit"
  /\ stdlib' = StdlibModules(debug_assertions, opts.debug_mode)
  /\ \/ /\ step' = "write_object"
        /\ has_sub_contract' \in BOOLEAN /\ exports_empty' \in BOOLEAN
        /\ pc' = "link" /\ UNCHANGED exit_code
     \/ Exit(1) /\ UNCHANGED <<step, has_sub_contract, exports_empty>>
  /\ UNCHANGED <<release_feature, opts, command_line, stack_size, output_file, module,
                 size_opt, start_opt, debug_assertions, run, args, files>>

\* A step of wasm::link.
Link ==
  /\ pc = "link"
  /\ L!Next
  /\ UNCHANGED main_vars

LinkReturned ==
  /\ pc = "link" /\ step = "returned"
  /\ pc' = "write_wasm"
  /\ UNCHANGED <<link_vars, debug_assertions, run, args, exit_code, stdlib, files>>

LinkPanicked ==
  /\ pc = "link" /\ step = "panicked"
  /\ Exit(101)
  /\ UNCHANGED <<link_vars, debug_assertions, run, args, stdlib, files>>

\* Mutant: the result of fs::write is discarded (`let _ = ..`).
WriteOutputIgnoringError(kind, next) ==
  /\ pc = "write_" \o kind
  /\ files' \in {[files EXCEPT ![kind] = [run |-> run, whole |-> TRUE]],
                  files, [files EXCEPT ![kind] = [run |-> run, whole |-> FALSE]]}
  /\ pc' = next /\ UNCHANGED exit_code
  /\ UNCHANGED <<link_vars, debug_assertions, run, args, stdlib>>

(* `std::fs::write(path, bytes).unwrap()`: the file is replaced, or the   *)
(* process panics with the file untouched (it could not be created) or    *)
(* truncated to part of the new content.                                  *)
WriteOutput(kind, next) ==
  /\ pc = "write_" \o kind
  /\ \/ files' = [files EXCEPT ![kind] = [run |-> run, whole |-> TRUE]]
        /\ pc' = next /\ UNCHANGED exit_code
     \/ files' \in {files, [files EXCEPT ![kind] = [run |-> run, whole |-> FALSE]]}
        /\ Exit(101)
  /\ UNCHANGED <<link_vars, debug_assertions, run, args, stdlib>>

\* Line 189: X.wasm.
WriteWasm == WriteOutput("wasm", "write_cbin")
\* Lines 190-194: X.cbin, the length prefix and the bytes.
WriteCbin == WriteOutput("cbin", "write_hex")
\* Lines 195-197: X.cbin.hex; main returns, status 0.
WriteHex == WriteOutput("hex", "returned")

Return ==
  /\ pc = "returned"
  /\ Exit(0)
  /\ UNCHANGED <<link_vars, debug_assertions, run, args, stdlib, files>>

\* The command is run again, with any flags, on the same output path.
NextInvocation ==
  /\ pc = "exited" /\ run < MaxRuns
  /\ run' = run + 1
  /\ args' \in Args
  /\ pc' = "read" /\ exit_code' = 0 /\ stdlib' = {}
  /\ step' = "idle" /\ command_line' = <<>> /\ stack_size' = L!DefaultStackSize
  /\ output_file' = NoFile /\ module' = NoFile /\ size_opt' = "pending" /\ start_opt' = "pending"
  /\ opts' = NoFile /\ has_sub_contract' = FALSE /\ exports_empty' = FALSE
  /\ UNCHANGED <<release_feature, debug_assertions, files>>

Next ==
  \/ ReadAndParse \/ DeriveOptions \/ StartEmit
  \/ Link \/ LinkReturned \/ LinkPanicked
  \/ WriteWasm \/ WriteCbin \/ WriteHex \/ Return
  \/ NextInvocation

Spec == Init /\ [][Next]_vars

-----------------------------------------------------------------------------
(* When an invocation exits with status 0, the .wasm, .cbin and .cbin.hex  *)
(* on disk are all complete and all of this invocation: none is left over  *)
(* from an earlier compilation or truncated (main.rs writes them one after *)
(* another, each with unwrap()).                                            *)
SuccessfulRunOutputsAgree ==
  (pc = "exited" /\ exit_code = 0)
    => \A k \in OutputKinds : files[k] = [run |-> run, whole |-> TRUE]

(* The size optimizer is disabled exactly when --no-binaryen-optimize is   *)
(* given (spec: a flag for disabling the external size optimizer, whose    *)
(* default in Yul2IROptions is false).                                      *)
NoBinaryenOptimizeFollowsFlag ==
  opts # NoFile => opts.no_binaryen_optimize = args.no_binaryen_optimize_given

(* A missing output directory is created rather than aborting the          *)
(* invocation (the comment at main.rs:141: "create it if it doesn't        *)
(* exist"): a step of option derivation for an invocation with a valid     *)
(* level and a missing output directory goes on to emit, or exits with     *)
(* status 1 for an unknown default return type; it never panics.           *)
OutputDirectoryCreated ==
  [][ (pc = "options" /\ ~args.output_dir_exists /\ args.opt_level \in DOMAIN LevelOf)
        => (pc' = "emit" \/ exit_code' = 1) ]_vars

=============================================================================
