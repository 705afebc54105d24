------------------------------ MODULE LinkWasm ------------------------------
(***************************************************************************)
(* wasm::link (src/src/yul2ir/wasm.rs): turns the object file produced by *)
(* LLVM into the final wasm module.  It writes the object to a temporary  *)
(* directory, runs wasm-ld with flags derived from the options, reads and *)
(* deserializes the output, overwrites the initializer of the first      *)
(* global (the stack pointer), and passes the bytes through two optional  *)
(* optimizers, wasm-opt and wizer, keeping the previous bytes when one    *)
(* fails.                                                                 *)
(*                                                                         *)
(* A module is abstracted to the layout wasm-ld chose for it (the size of *)
(* the stack region, which --stack-first and --global-base=0 put at      *)
(* address 0), the initial value of its stack pointer and the tools that *)
(* have produced it.  An argument of wasm-ld is a record [flag, val].     *)
(* Every external call (file system, wasm-ld, parity_wasm, wasm-opt,     *)
(* wizer) may fail; which way it goes is a nondeterministic choice.       *)
(***************************************************************************)
EXTENDS Naturals, Sequences, SequencesExt

CONSTANT
  NoFile                \* the output file of wasm-ld does not exist

Levels == {"None", "Less", "Default", "Aggressive"}

(* The option records link() can be given.  Every constructor of          *)
(* Yul2IROptions and main() set opt_level to None when debug_mode is set. *)
Options ==
  { o \in [debug_mode : BOOLEAN, opt_level : Levels, enable_all_optimizers : BOOLEAN,
           no_binaryen_optimize : BOOLEAN, minify_wasm_size : BOOLEAN] :
      o.debug_mode => o.opt_level = "None" }

\* clang_opt_level_string: the level of the "-O<n>" flag.
ClangOptLevel(l) ==
  CASE l = "None" -> 0 [] l = "Less" -> 1 [] l = "Default" -> 2 [] l = "Aggressive" -> 3

Arg(f, v) == [flag |-> f, val |-> v]
Flag(f)   == Arg(f, 0)

DefaultStackSize == 65536   \* `let mut stack_size = 0x10000`
SmallStackSize   == 32768   \* half a page, for a contract without sub-contracts

(***************************************************************************)
(* What wasm-ld makes of its arguments (lld/wasm/Driver.cpp): the last    *)
(* -O wins, and the stack region is `-z stack-size` bytes, one 64 KiB     *)
(* page when that is not given.                                           *)
(***************************************************************************)
LinkerPageSize == 65536

LastValueOf(args, f) ==
  LET I == {i \in 1..Len(args) : args[i].flag = f}
  IN IF I = {} THEN NoFile ELSE args[Max(I)].val

LinkerStackSize(args) ==
  IF LastValueOf(args, "z stack-size") = NoFile THEN LinkerPageSize
  ELSE LastValueOf(args, "z stack-size")

LinkerOptLevel(args) == LastValueOf(args, "O")

VARIABLES
  release_feature,  \* built with feature "release": lld linked into the binary
  opts,             \* the Yul2IROptions given to link()
  has_sub_contract, \* argument of link()
  exports_empty,    \* export_names.is_empty()
  step,             \* the statement link() is at, or "returned" / "panicked"
  command_line,     \* the arguments built for wasm-ld
  stack_size,       \* the local stack_size
  output_file,      \* the file wasm-ld left at res_filename, or NoFile
  module,           \* linked_wasm_bytes, as the latest stage produced it
  size_opt,         \* what do_binaryen_optimize did: "skipped", "ok", "failed"
  start_opt         \* what do_start_optimize did: "pending", "ok", "failed"

vars == <<release_feature, opts, has_sub_contract, exports_empty, step, command_line, stack_size,
          output_file, module, size_opt, start_opt>>

Init ==
  /\ release_feature \in BOOLEAN
  /\ opts \in Options
  /\ has_sub_contract \in BOOLEAN
  /\ exports_empty \in BOOLEAN
  /\ step = "write_object"
  /\ command_line = <<>>
  /\ stack_size = DefaultStackSize
  /\ output_file = NoFile
  /\ module = NoFile
  /\ size_opt = "pending"
  /\ start_opt = "pending"

\* A `.expect(..)`, `.unwrap()` or `assert!` that fails aborts the compilation.
Panic ==
  /\ step' = "panicked"
  /\ UNCHANGED <<release_feature, opts, has_sub_contract, exports_empty, command_line, stack_size,
                 output_file, module, size_opt, start_opt>>

-----------------------------------------------------------------------------
(* tempdir(), File::create and write_all of the object file.             *)
WriteObject ==
  /\ step = "write_object"
  /\ \/ step' = "build_args"
        /\ UNCHANGED <<release_feature, opts, has_sub_contract, exports_empty, command_line,
                       stack_size, output_file, module, size_opt, start_opt>>
     \/ Panic

(* Lines 164-226: the wasm-ld command line, and the stack size that the  *)
(* stack pointer will be given.                                           *)
LinkerArgs(o, sub, noexports) ==
  LET small == o.enable_all_optimizers /\ ~sub
  IN  << Arg("O", ClangOptLevel(o.opt_level)), Flag("--allow-undefined"),
         Flag("--gc-sections"), Arg("--global-base", 0), Flag("--stack-first"),
         Flag("-lclang_rt.builtins-wasm32"), Flag("-L"), Flag("--no-entry") >>
      \o (IF small THEN << Arg("z stack-size", SmallStackSize) >> ELSE <<>>)
      \o (IF noexports THEN << Flag("--export-all") >>
          ELSE << Arg("--export", "__wasm_call_ctors"), Arg("--export", "_start"),
                  Arg("--export", "names") >>)
      \o (IF ~o.debug_mode THEN << Arg("O", 2) >> ELSE <<>>)
      \o << Flag("object") >>
      \o (IF o.minify_wasm_size THEN << Flag("--strip-all") >> ELSE <<>>)
      \o << Arg("-o", "res") >>

\* Mutant: the `stack_size = 32768` assignment is lost; only the flag is passed.
LinkStackSizeAlwaysDefault(o, sub) == DefaultStackSize

LinkStackSize(o, sub) ==
  IF o.enable_all_optimizers /\ ~sub THEN SmallStackSize ELSE DefaultStackSize

BuildArgs ==
  /\ step = "build_args"
  /\ command_line' = LinkerArgs(opts, has_sub_contract, exports_empty)
  /\ stack_size' = LinkStackSize(opts, has_sub_contract)
  /\ step' = "run_linker"
  /\ UNCHANGED <<release_feature, opts, has_sub_contract, exports_empty, output_file, module,
                 size_opt, start_opt>>

(* `assert!(!wasm_linker(&command_line), "linker failed")`.  With feature *)
(* "release" wasm_linker returns `LLDWasmLink(..) == 0`, which is false   *)
(* when lld succeeds; otherwise it runs the wasm-ld binary and always     *)
(* returns false, so a failed link is noticed only when the output file   *)
(* is opened.  wasm-ld writes its output only when the link succeeds.    *)
(* Without "release", a wasm-ld binary that cannot be started panics      *)
(* ("wasm-ld run error").                                                 *)
RunLinker ==
  /\ step = "run_linker"
  /\ \/ \E ok \in BOOLEAN :
          /\ output_file' = IF ok THEN [stack |-> LinkerStackSize(command_line),
                                        sp |-> LinkerStackSize(command_line),
                                        tools |-> <<"wasm-ld">>]
                            ELSE NoFile
          /\ step' = IF ~ok /\ release_feature THEN "panicked" ELSE "read_output"
          /\ UNCHANGED <<release_feature, opts, has_sub_contract, exports_empty, command_line,
                         stack_size, module, size_opt, start_opt>>
     \/ ~release_feature /\ Panic

(* Lines 230-256: read the file, deserialize it with parity_wasm, set the *)
(* init expression of the first global to `i32.const stack_size` and      *)
(* serialize again.  Deserialization fails on wasm parity_wasm does not  *)
(* know.                                                                  *)
PatchStackPointer ==
  /\ step = "read_output"
  /\ \/ /\ output_file # NoFile
        /\ module' = [output_file EXCEPT !.sp = stack_size]
        /\ step' = "size_optimize"
        /\ UNCHANGED <<release_feature, opts, has_sub_contract, exports_empty, command_line,
                       stack_size, output_file, size_opt, start_opt>>
     \/ Panic

(* Lines 258-263 with run_wasm_optimizer: wasm-opt may be missing, may    *)
(* fail, or its output may not be readable; each gives None and the      *)
(* linked bytes are kept.                                                 *)
\* Mutant: wasm-opt's failure is unwrapped instead of falling back.
SizeOptimizeFailurePanics ==
  /\ step = "size_optimize"
  /\ IF opts.no_binaryen_optimize
     THEN size_opt' = "skipped" /\ UNCHANGED module /\ step' = "start_optimize"
     ELSE \/ /\ size_opt' = "ok" /\ module' = [module EXCEPT !.tools = Append(@, "wasm-opt")]
             /\ step' = "start_optimize"
          \/ size_opt' = "failed" /\ UNCHANGED module /\ step' = "panicked"
  /\ UNCHANGED <<release_feature, opts, has_sub_contract, exports_empty, command_line,
                 stack_size, output_file, start_opt>>

SizeOptimize ==
  /\ step = "size_optimize"
  /\ IF opts.no_binaryen_optimize
     THEN size_opt' = "skipped" /\ UNCHANGED module
     ELSE \/ size_opt' = "ok" /\ module' = [module EXCEPT !.tools = Append(@, "wasm-opt")]
          \/ size_opt' = "failed" /\ UNCHANGED module
  /\ step' = "start_optimize"
  /\ UNCHANGED <<release_feature, opts, has_sub_contract, exports_empty, command_line, stack_size,
                 output_file, start_opt>>

(* Line 265: wizer runs `_start` and snapshots the instance; on error the *)
(* bytes from the previous stage are returned.                            *)
\* Mutant: on wizer's failure the bytes read back from wasm-ld are returned.
StartOptimizeFallsBackToLinked ==
  /\ step = "start_optimize"
  /\ \/ start_opt' = "ok" /\ module' = [module EXCEPT !.tools = Append(@, "wizer")]
     \/ start_opt' = "failed" /\ module' = [output_file EXCEPT !.sp = stack_size]
  /\ step' = "returned"
  /\ UNCHANGED <<release_feature, opts, has_sub_contract, exports_empty, command_line,
                 stack_size, output_file, size_opt>>

StartOptimize ==
  /\ step = "start_optimize"
  /\ \/ start_opt' = "ok" /\ module' = [module EXCEPT !.tools = Append(@, "wizer")]
     \/ start_opt' = "failed" /\ UNCHANGED module
  /\ step' = "returned"
  /\ UNCHANGED <<release_feature, opts, has_sub_contract, exports_empty, command_line, stack_size,
                 output_file, size_opt>>

Next ==
  \/ WriteObject \/ BuildArgs \/ RunLinker \/ PatchStackPointer
  \/ SizeOptimize \/ StartOptimize

\* link() runs on one thread and every step it takes returns.
Spec == Init /\ [][Next]_vars /\ WF_vars(Next)

-----------------------------------------------------------------------------
TypeOK ==
  /\ release_feature \in BOOLEAN
  /\ opts \in Options
  /\ has_sub_contract \in BOOLEAN /\ exports_empty \in BOOLEAN
  /\ step \in {"write_object", "build_args", "run_linker", "read_output",
               "size_optimize", "start_optimize", "returned", "panicked"}
  /\ \A i \in DOMAIN command_line : DOMAIN command_line[i] = {"flag", "val"}
  /\ stack_size \in {DefaultStackSize, SmallStackSize}
  /\ size_opt \in {"pending", "skipped", "ok", "failed"}
  /\ start_opt \in {"pending", "ok", "failed"}

(* The module link() returns starts its stack pointer at the top of the  *)
(* stack region wasm-ld laid out.  The region's size comes from the      *)
(* `-z stack-size` flag (or wasm-ld's default), the pointer from the     *)
(* local stack_size written into the global after linking; if the two    *)
(* differ the stack runs into the data segments or wastes memory.        *)
StackPointerAtStackTop ==
  step = "returned" => module.sp = module.stack

(* A module is returned only if wasm-ld produced it, and it is the last   *)
(* stage that succeeded: wasm-ld, then wasm-opt if it ran and succeeded,  *)
(* then wizer if it succeeded; a failed optimizer never discards the      *)
(* work of an earlier stage.                                              *)
ReturnsLatestGoodModule ==
  step = "returned" =>
    module.tools = <<"wasm-ld">> \o (IF size_opt = "ok" THEN <<"wasm-opt">> ELSE <<>>)
                                 \o (IF start_opt = "ok" THEN <<"wizer">> ELSE <<>>)

(* Once the linked module has been patched, link() returns: neither       *)
(* wasm-opt nor wizer failing aborts the compilation.                     *)
OptimizerFailureIsRecovered ==
  step = "size_optimize" ~> step = "returned"

(* wasm-ld optimizes at the level chosen by the opt_level option (the     *)
(* "-O<n>" flag from clang_opt_level_string).                             *)
LinkerOptLevelFollowsOption ==
  step \in {"run_linker", "read_output", "size_optimize", "start_optimize", "returned"}
    => LinkerOptLevel(command_line) = ClangOptLevel(opts.opt_level)

=============================================================================
