# TLA+ models of the DTVM_SolSDK Yul compiler

`yul2wasm` (src/src/main.rs) compiles one Yul object into a WebAssembly contract
for DTVM. It runs in one thread, as a single pass:

1. **Read and strip.** It reads the file and removes comments (`utils::remove_comments`).
2. **Parse.** It parses the text with the lalrpop grammar (`yul::ObjectParser`).
3. **Options.** It builds `Yul2IROptions` from the command-line flags (config.rs). This covers `--symbol` parsing, the `--debug` override and the default return type.
4. **Lower.** The lowering context (`Yul2IRContext`, not in this source tree) lowers every function and object to LLVM IR. It uses the value model (yul_instruction.rs, infer.rs), the instruction catalog (yul_instruction.rs) and string-literal unescaping (utils.rs). It links in the standard library bitcode (stdlib.rs) and emits an object file.
5. **Link.** `wasm::link` runs wasm-ld, patches the stack pointer, and optionally runs wasm-opt and wizer.
6. **Write outputs.** main writes `X.wasm`, `X.cbin` (a 4-byte big-endian length followed by the wasm) and `X.cbin.hex`.

Nothing in the program runs concurrently. The hard behaviour lies elsewhere:

- character-level state machines whose state can fall out of step with the text;
- external tools that fail, with the fallbacks the code chooses;
- flags that are combined in an order that changes their meaning;
- file writes that can stop halfway.

## Inventory

| Component | Source | State | Operations | Hard behaviour |
|---|---|---|---|---|
| Comment stripper | utils.rs 356-420 | input iterator, `result`, `in_string`, `string_char`, `in_multiline`, which loop runs | quote arm, `/` arm (line comment, block comment, not a comment, at end), plain arm, the two inner skip loops | a `*` in a block comment consumes the next character (line 396); string tracking ignores `\` escapes (line 365) |
| String unescaper | utils.rs 1-289 | character iterator, error buffer | `scan_escape`, `unescape_str_or_byte_str`, `unescape_str_wrap_error` | `\u{..}` digit and value limits; errors replace the buffer but later characters are still appended (line 281) |
| Compile options | config.rs | `Yul2IROptions` record | `Default`, `test`, `debug`, `perf_test`, `FromStr`/`Display` of `OptimizationLevel` | debug implies opt level None |
| CLI driver and packaging | main.rs | args, options, output files | option derivation, `--symbol` parsing, debug override, emit, three writes | `--no-binaryen-optimize` defaults to true (line 52); canonicalize before create (line 149); writes can stop halfway (lines 189-197) |
| Standard library loader | stdlib.rs | set of bitcode modules | `load_stdlib` | selection by build profile and debug flag |
| Linker pipeline | wasm.rs | command line, `stack_size`, output file, module bytes | `link`, `wasm_linker` (two features), `run_wasm_optimizer`, `do_start_optimize` | `-O 2` appended after `-O<n>` (line 205); stack size set twice (lines 183-190, 250); optimizer fallbacks |
| Value model | yul_instruction.rs, infer.rs | none of its own: the function type stores what its caller pushes | `from_int_type`, `from_basic_type_enum`, `YulLowLevelFunctionType::new`/`add_param`/`add_return`, `type_to_expected` | every caller is in the lowering code (not in this tree) |
| Instruction catalog | yul_instruction.rs | none (pure) | `parse_intrinsic_func_name`, `From<String>` | unknown names are fatal |
| Lowering engine, object emission | not in this tree | IR builder, scopes, loop stack | spec only (control-flow lowering modelled from spec.md 4.2) | for/switch/break/continue lowering; emission order of nested objects |
| Build script | src/build.rs | files | build-time make, copy, git describe, lalrpop | make's exit status is ignored (line 37) |

## Modules

| Module | Models | Composes |
|---|---|---|
| `RemoveComments` | utils.rs `remove_comments` | none |
| `Unescape` | utils.rs `unescape_str_wrap_error`, `unescape_str_or_byte_str`, `scan_escape` | none |
| `LinkWasm` | wasm.rs `link`, `wasm_linker`, `run_wasm_optimizer`, `do_start_optimize`, `clang_opt_level_string` | none |
| `Yul2WasmMain` | main.rs `main` over repeated invocations, stdlib.rs `load_stdlib`, config.rs `OptimizationLevel::from_str` | `LinkWasm` through `L == INSTANCE LinkWasm`, on the same variables |
| `YulAst` | the Yul statement and expression fragment of spec.md section 3 | none |
| `YulControl` | the abstract specification: a Yul block run directly from its structure | `YulAst` |
| `LowerControl` | control-flow lowering of spec.md 4.2 (spec-modelled) and the execution of the lowered code | `YulAst`; refines `YulControl` through `A == INSTANCE YulControl WITH halted <- (pc = 0)` |

Each checked module has an MC module (`MCRemoveComments`, `MCUnescape`, `MCLinkWasm`, `MCYul2WasmMain`, `MCLowerControl`). The MC module extends the module it checks and defines the inputs (the alphabets and the literal sets) that the cfgs give to its constants.

### RemoveComments

Its variables are the function's locals (`result`, `in_multiline`, `in_string`, `string_char`), plus three more:

- `src` is the argument, fixed for the whole run.
- `chars` is the unread suffix of the iterator.
- `loop` records which of the three loops is running: `main`, `line`, `block`, or `done`.

There is one action for each arm of the outer `match`: `OpenString`, `CloseString`, `OtherQuoteInString`, `SlashAtEnd`, `LineCommentStart`, `BlockCommentStart`, `SlashNotComment` and `PlainChar`. There is one action for each step of the two inner loops: `LineCommentSkip`, `LineCommentEnd`, `BlockCommentSkip`, `BlockCommentEnd` and `BlockCommentStar`. `Return` ends the function.

The reference `Lex` is a recursive lexer. It encodes what the function's comment promises:

- a `//` comment becomes its newline;
- a `/* */` comment ends at its first `*/`;
- in a string, a backslash escapes the next character.

`Irregular` classifies two kinds of text:

- `starEnd`: a block comment whose body ends in `*`;
- `straySlash`: a `/` outside a comment. Yul has no `/` token, so such text is never valid input.

### Unescape

The loop of `unescape_str_or_byte_str` has three actions:

- `UnescapeChar`: an ordinary iteration, which calls `scan_escape`.
- `skip_ascii_whitespace`: the `\` + LF continuation, with its two warnings.
- `Return`: the end of the loop.

The `contains('\\' | '\r')` shortcut of `unescape_str_wrap_error` is `ReturnUnchanged` or `StartUnescape`.

`scan_escape` is a pure operator returning the result and the unconsumed rest, because after an error the loop continues from where the scan stopped. The `\u{..}` digit loop is the recursive `UnicodeDigits`. The callback, `Callback` and `ApplyCallbacks`, either pushes a code point or replaces the buffer by the error text. The text is kept as the error's name (`buf_msg`) followed by the code points pushed since then (`buf_text`).

Only `Mode::Str` is ever used, so the byte-mode branches are left out.

The reference `Ref`/`Token` is the string-literal grammar of the Rust reference, which the code's comments follow. It is written per token, with `\x` taking an octal digit and then a hex digit, and with the Unicode scalar values given as ranges. It shares no scanning operator with the code.

The constant `Sources` is the set of literal contents the lexer can hand over: every `"` in it is escaped.

### LinkWasm

- `release_feature` chooses which `wasm_linker` is compiled in.
- `opts` ranges over every option record that can reach `link`. Every constructor, and main's `--debug`, sets `opt_level` to None when `debug_mode` is set.
- A wasm module is abstracted to three fields:
  - `stack`: the stack region wasm-ld laid out (`--stack-first`, `--global-base=0`);
  - `sp`: the initial stack pointer;
  - `tools`: the tools that produced it.
- The command line is a sequence of `[flag, val]` records.
- `LinkerStackSize` and `LinkerOptLevel` state what wasm-ld makes of the command line: the last `-O` wins, and the default stack is one 64 KiB page.
- Every external call (file system, wasm-ld, parity_wasm, wasm-opt, wizer) may fail, as a nondeterministic choice.
- `Panic` is every `expect`, `unwrap` or `assert!` on the way.

### Yul2WasmMain

The module models one process of `yul2wasm` after another on the same output path. The output files are the only state shared between invocations. Each file holds the invocation that wrote it and whether the write completed.

Per invocation, the actions are, in order:

1. `ReadAndParse`: a read or parse error exits with status 1.
2. `DeriveOptions`: this models main.rs 109-176, in code order:
   - `opt_level.parse().unwrap()`;
   - the clap bool defaults;
   - `canonicalize().unwrap()` of the output directory;
   - the `--debug` override;
   - the default return type, whose bad value exits with status 1.
3. `StartEmit`: `load_stdlib`'s choice by build profile and debug flag, and `link` starting on the derived options. A lowering error exits with status 1.
4. `Link`: `L!Next`, a step of the composed `LinkWasm`.
5. `LinkReturned` or `LinkPanicked`.
6. `WriteWasm`, `WriteCbin`, `WriteHex`: `fs::write(..).unwrap()`, which can fail before or after truncating the file.
7. `Return`: exit with status 0.

`NextInvocation` starts the next process with any flags.

### YulControl and LowerControl (control-flow lowering)

The lowering engine (`Yul2IRContext`) is not in this source tree. This part is therefore modelled from spec.md 4.2 and marked `spec_modelled` in PROJECT.json.

`YulAst` defines the fragment of Yul the lowering is about: assignment, `if`, `switch`, `for`, `break` and `continue`, over expressions built from constants, variables, `add`, `lt` and `eq`. The expressions are pure, so the switch may evaluate its scrutinee once per test.

`YulControl` is the abstract specification, in two parts:

- `ExecSeq`, `ExecStmt` and `ExecLoop` run a block directly from its structure. They return the sequence of stores after each assignment, `Trace`.
- The state machine performs those assignments one per step (`Execute`) and then returns (`Finish`), under weak fairness.

`LowerControl` has two parts:

- **The lowering.** `CompileSeq`, `CompileStmt`, `SwitchTests`, `CompileFor` and `CompileCases` turn a block into numbered instructions: `assign`, `condbr`, `br` and `ret`. Each instruction names its successor labels, as LLVM basic blocks do.
  - `if` is a condbr with no else.
  - `switch` is a chain of equality tests in source order, falling through to the default.
  - `for` is init, a condition test, the body and the post block. In the body, `break` goes to the loop's exit and `continue` to its post block.
- **The execution.** `ExecAssign`, `ExecCondBr`, `ExecBr` and `ExecRet` execute the lowered code.

The auxiliary counter `executed` counts the assignments performed. The refinement mapping uses it for the abstract `executed`; no action reads it.

## Runs

| Run | Module / cfg | Expect | What it shows |
|---|---|---|---|
| remove_comments | MCRemoveComments / RemoveComments.cfg | pass | `StripsCommentsExactly`: for every text of at most 7 characters over `/ * \n " ' a` without irregular constructs, the result is exactly the lexer's. |
| remove_comments_star | MCRemoveComments / RemoveCommentsStar.cfg | violation | `BlockCommentEndsAtFirstTerminator` fails on `/***/'`: the `*/` is missed, and the rest of the file is swallowed. |
| remove_comments_escape | MCRemoveComments / RemoveCommentsEscape.cfg | violation | `StripsCommentsExactly` fails on `"\"//`: an escaped quote closes the string, so `//...` inside the literal is removed. |
| unescape | MCUnescape / Unescape.cfg | pass | See below. |
| unescape_warnings | MCUnescape / UnescapeWarnings.cfg | violation | `WarningsKeepLiteral` fails on `\` LF LF: a valid literal comes back as `<Lexer error: string: MultipleSkippedLinesWarning>`. |
| link | MCLinkWasm / LinkWasm.cfg | pass | See below. |
| link_opt_level | MCLinkWasm / LinkWasmOptLevel.cfg | violation | `LinkerOptLevelFollowsOption` fails for every non-debug option record with a level other than Default, because `-O 2` is appended last. |
| main | MCYul2WasmMain / Yul2WasmMain.cfg | pass | See below. |
| main_no_binaryen | MCYul2WasmMain / Yul2WasmMainBinaryen.cfg | violation | `NoBinaryenOptimizeFollowsFlag`: the option is true without the flag. |
| main_output_dir | MCYul2WasmMain / Yul2WasmMainOutdir.cfg | violation | `OutputDirectoryCreated`, an action property: a step of option derivation, for an invocation past reading and parsing with a valid level and a missing output directory, must go on to emit or exit with status 1. TLC finds the step that exits with status 101 from `canonicalize().unwrap()` (State 2 to State 3 of the trace). |
| lower_control | MCLowerControl / LowerControl.cfg | pass | See below. |


**unescape.** Both properties are checked over two input sets (5.1 M states, 36 s):

- every literal of up to 5 characters over `\ n x u 7 F z " LF space CR FF`, with every `"` escaped;
- `\u{` followed by every run of up to 8 characters over `0 1 D _ }`. This reaches surrogates (0xDD00), out-of-range values (0x110000), seven-digit escapes and underscores anywhere.

The properties:

- `UnescapesValidLiterals`: every valid literal without warnings decodes exactly as the reference does.
- `MarksInvalidLiterals`: every invalid literal comes back carrying the error text.

**link.** For every option record, both features and every outcome of every external call:

- `StackPointerAtStackTop`: the returned module's stack pointer is the top of the stack wasm-ld laid out.
- `ReturnsLatestGoodModule`: the module is the output of the last stage that succeeded.
- `OptimizerFailureIsRecovered`: once patched, `link` returns.

**main.** `SuccessfulRunOutputsAgree` is checked over two invocations with any flags, both build profiles and every failure. An invocation that exits with status 0 leaves all three outputs complete and its own. The model does reach mixed outputs after an invocation that failed between the writes.

**lower_control.** `YulSemantics` is `A!Safety /\ A!Returns`: the lowered code refines `YulControl`, which is equivalent to its fair `Spec`. It checks two things:

- the lowered code performs the same assignments as the direct interpretation, in the same order and with the same values;
- it then returns.

The programs are the two loop programs of test.rs and 36 outer loops. The test.rs programs sum `i` below 10 and either break or continue at `i = 5`. Each outer loop's body is two statements from `LoopBody`:

- `sum += i`;
- `if` with break or continue;
- a switch with continue and break in its cases;
- a switch without a default;
- an inner loop with its own continue and break.

This gives 1,292 states.

Every property of a passing run has a mutant in PROJECT.json that TLC must find violated.

| Property | Mutant | Plausible bug it stands for |
|---|---|---|
| `StripsCommentsExactly` | `LineCommentEndDropsNewline` | the newline ending a `//` comment is dropped |
| `UnescapesValidLiterals` | `SkipWhitespaceOffByOne` | the continuation skip stops one character short |
| `UnescapesValidLiterals` | `UnicodeDigitsCountingUnderscores` | underscores are counted as digits |
| `MarksInvalidLiterals` | `HexEscapeNoRangeCheck` | the `is_ascii` check is missing |
| `MarksInvalidLiterals` | `IsScalarNoSurrogate` | surrogates are accepted |
| `StackPointerAtStackTop` | `LinkStackSizeAlwaysDefault` | the `stack_size = 32768` assignment is lost |
| `ReturnsLatestGoodModule` | `StartOptimizeFallsBackToLinked` | wizer's fallback returns the linked bytes |
| `OptimizerFailureIsRecovered` | `SizeOptimizeFailurePanics` | wasm-opt's failure is unwrapped |
| `SuccessfulRunOutputsAgree` | `WriteOutputIgnoringError` | `let _ = fs::write(..)` |
| `YulSemantics` | `CompileForContinueToCond` | continue branches to the condition, skipping the post block (the loop never ends) |
| `YulSemantics` | `SwitchTestsFallIntoFirstCase` | the last failed test falls into the first case instead of the default |

### Bounds

**remove_comments.** The function handles one character per step, and every hazard in it shows up within four or five characters:

- `/**/` and `/***/` for the star bug;
- `"\"//` for the escape bug;
- `//` at the end of input.

A length of 7 over a six-letter alphabet (2.79 M distinct states) covers every pair of adjacent constructs.

**Unescape.** Every escape kind is at most 4 characters long (`\x7F`). A continuation with a warning needs 3 (`\`, LF, LF). The unicode input set fixes the `\u{` prefix and spends the bound on the digit run: 6 digits for 0x110000, 7 for the overlong case, plus the brace.

**link.** `link` has no unbounded data. The model enumerates every option record and every outcome of every external call.

**main.** Two invocations are enough for outputs of one invocation to meet those of another.

**lower_control.** Each statement form appears:

- at the top of a loop body and after another statement;
- inside a switch;
- one loop deep.

With an outer counter over 0..2, the first, a middle and the last iteration of a loop all happen. `MaxIterations = 11` exceeds every loop's trip count (at most 10).

### Fairness

`LinkWasm.Spec` assumes weak fairness of `Next`. `link` is straight-line code on one thread with no waits, so it takes its next step as long as one is enabled. This assumes that every external tool returns: the code waits for wasm-ld and wasm-opt with no timeout, and that is listed as a hazard. `LowerControl.Spec` assumes weak fairness of `Next` for the same reason: the lowered function runs on one thread and waits for nothing. The cfg disables deadlock checking because the function really stops after `ret`. All other runs check safety only.

## Findings

1. **Block comment ending in `*` (remove_comments_star).** `/** doc **/` is not closed (utils.rs:396). Yul sources produced by solc carry such NatSpec comments.
2. **Escaped quotes (remove_comments_escape).** An escaped quote ends the string for the stripper (utils.rs:365).
3. **Warnings treated as errors (unescape_warnings).** `unescape_str_wrap_error` treats the skipped-line and unskipped-whitespace warnings as errors (utils.rs:281).
4. **Linker optimization level (link_opt_level).** wasm-ld always runs at -O2 unless debug mode is on, whatever `--opt-level` says (wasm.rs:205).
5. **Size optimizer flag (main_no_binaryen).** `--no-binaryen-optimize` is always true, so wasm-opt never runs from the command line (main.rs:52).
6. **Missing output directory (main_output_dir).** A missing output directory panics instead of being created (main.rs:149).

Also recorded, though no run checks it: `load_stdlib` chooses the bitcode set by the compiler's build profile as well as by the debug flag (stdlib.rs:45-69). The spec says the debug flag alone decides.

## Plan for the following sittings

1. **Control-flow lowering.** Done in this sitting: `LowerControl` refines `YulControl`. Still open: function calls with multiple returns (`Tuple`) and `leave`.
2. **Object emission** (spec-modelled). Model the order in which nested objects are compiled and their bytes merged (`merge_sub_wasm_with_length_prefix`, utils.rs). The property: `datasize`/`dataoffset` of a child name the bytes that were merged.
3. **Symbols.** Add `--symbol` parsing to `Yul2WasmMain` if the lowering model comes to use `symbol2addr` (linkersymbol resolution and the ignore flag).

The value model run was withdrawn on review, together with its module. Its premise, an i1 type reaching `from_basic_type_enum`, comes from no code in this tree: spec.md represents comparison results as I32/I64/U256, and section 7 calls an unsupported type reaching the classifier an intended fatal error. That frees one run slot.

## Not modelled

- **Parser.** It is generated lalrpop code.
- **LLVM code generation.** It is an external library.
- **build.rs.** It runs make, copies `lib/` four times, runs git describe and lalrpop, all once at build time. None of that is state a run of the compiler reads, except the bitcode `stdlib.rs` embeds. One hazard is listed without a property: `make`'s exit status is ignored (build.rs:37), so a failed make leaves stale bitcode to be embedded.
- **errors.rs.** `ASTLoweringError` and its `From<BuilderError>` carry and format a message. Its one control effect is `emit` returning `Err`, after which main exits with status 1; that is the error disjunct of `StartEmit`.
- **Temp-file names.** `generate_string` draws random names in fresh temp directories, so two compilations cannot collide.
- **Length-prefix truncation.** `len as u32` truncates only at 4 GiB, far beyond any contract size, so it is not listed as a hazard.
- **The instruction catalog** (`YulInstructionName`, `parse_intrinsic_func_name`). It is a pure name-to-variant table with no state, and a property over it would restate the table. Its callers are in the lowering code, which is not in this tree.
- **The value model** (`from_int_type`, `from_basic_type_enum`, `type_to_expected`, `YulLowLevelFunctionType`). The classifiers are pure, and the function type only stores what its caller pushes. Every caller is in the lowering code, which is not in this tree, so a model would have to invent which types reach them and in what order.
- **`--symbol` parsing and `main_contract`.** They feed only the lowering code.
- **The numeric contracts of spec.md 4.2** (div by zero, shifts of 256 or more, signextend, byte). Their implementation is in the lowering code, which is not in this tree. A spec-modelled operator checked against a spec-modelled reference would compare the spec with itself.
