---------------------------- MODULE LowerControl ----------------------------
(***************************************************************************)
(* Control-flow lowering of a Yul code block into branch code (spec.md     *)
(* 4.2, "Control-flow lowering"), and the execution of that code.  The    *)
(* lowering engine (Yul2IRContext) is not part of this source tree, so    *)
(* the lowering is modelled from the spec: `if` is a conditional branch   *)
(* with no else; `switch` a chain of equality tests in source order, then *)
(* the default; `for` an init / condition / body / post loop in which     *)
(* `break` branches to the loop's exit and `continue` to its post block.  *)
(*                                                                         *)
(* The code is a sequence of instructions numbered from 1, each holding   *)
(* its successor labels, as LLVM basic blocks do: assign, condbr          *)
(* (non-zero goes to ifso), br and ret.  `executed` counts the            *)
(* assignments performed; it is an auxiliary variable that the            *)
(* refinement mapping to YulControl uses and that no action reads.        *)
(***************************************************************************)
EXTENDS YulAst

CONSTANTS Programs, MaxIterations

VARIABLES
  prog,       \* the code block compiled
  code,       \* its lowered code
  store,      \* the variables
  pc,         \* the label of the next instruction; 0 once returned
  executed    \* auxiliary: assignments performed

vars == <<prog, code, store, pc, executed>>

AssignI(x, e, next)   == [op |-> "assign", x |-> x, e |-> e, next |-> next]
CondBr(c, ifso, ifnot) == [op |-> "condbr", c |-> c, ifso |-> ifso, ifnot |-> ifnot]
Br(target)            == [op |-> "br", target |-> target]
Ret                   == [op |-> "ret"]

(* The number of instructions a statement and a statement list lower to; *)
(* a list ends with a branch to the code that follows it.                 *)
RECURSIVE SizeSeq(_), SizeStmt(_), SizeCases(_)
SizeSeq(ss) == IF ss = <<>> THEN 1 ELSE SizeStmt(Head(ss)) + SizeSeq(Tail(ss))
SizeCases(cs) == IF cs = <<>> THEN 0 ELSE SizeSeq(Head(cs).body) + SizeCases(Tail(cs))
SizeStmt(s) ==
  CASE s.kind \in {"assign", "break", "continue"} -> 1
    [] s.kind = "if"     -> 1 + SizeSeq(s.body)
    [] s.kind = "switch" -> Len(s.cases) + SizeCases(s.cases) + SizeSeq(s.dflt)
    [] s.kind = "for"    -> SizeSeq(s.init) + 1 + SizeSeq(s.body) + SizeSeq(s.post)

(* CompileSeq(ss, base, exit, brk, cont): the code of `ss` placed at      *)
(* labels base.., continuing at `exit`; `brk` and `cont` are the exit and *)
(* post labels of the nearest enclosing loop.                              *)
RECURSIVE CompileSeq(_, _, _, _, _), CompileStmt(_, _, _, _, _), CompileCases(_, _, _, _, _)

\* Each case body at its label, all continuing after the switch.
CompileCases(cs, base, exit, brk, cont) ==
  IF cs = <<>> THEN <<>>
  ELSE CompileSeq(Head(cs).body, base, exit, brk, cont)
         \o CompileCases(Tail(cs), base + SizeSeq(Head(cs).body), exit, brk, cont)

\* Mutant: the last failed test falls into the first case body instead of the default.
SwitchTestsFallIntoFirstCase(s, base) ==
  LET n == Len(s.cases)
      BodyAt(k) == base + n + SizeCases(SubSeq(s.cases, 1, k - 1))
  IN  [k \in 1..n |-> CondBr(EqE(s.e, Const(s.cases[k].val)), BodyAt(k), base + k)]

(* The switch: test k compares the scrutinee with the k-th literal and    *)
(* falls through to test k+1, the last one to the default.                *)
SwitchTests(s, base) ==
  LET n == Len(s.cases)
      BodyAt(k) == base + n + SizeCases(SubSeq(s.cases, 1, k - 1))
      dflt == base + n + SizeCases(s.cases)
  IN  [k \in 1..n |-> CondBr(EqE(s.e, Const(s.cases[k].val)), BodyAt(k),
                             IF k < n THEN base + k ELSE dflt)]

\* Mutant: continue branches to the condition test, skipping the post block.
CompileForContinueToCond(s, base, exit) ==
  LET cond == base + SizeSeq(s.init)
      post == cond + 1 + SizeSeq(s.body)
  IN  CompileSeq(s.init, base, cond, 0, 0)
        \o <<CondBr(s.c, cond + 1, exit)>>
        \o CompileSeq(s.body, cond + 1, post, exit, cond)
        \o CompileSeq(s.post, post, cond, 0, 0)

(* The for loop: init, then the condition test at `cond`, the body at     *)
(* `cond`+1 with break going to `exit` and continue to `post`, then the   *)
(* post block, which goes back to the test.                                *)
CompileFor(s, base, exit) ==
  LET cond == base + SizeSeq(s.init)
      post == cond + 1 + SizeSeq(s.body)
  IN  CompileSeq(s.init, base, cond, 0, 0)
        \o <<CondBr(s.c, cond + 1, exit)>>
        \o CompileSeq(s.body, cond + 1, post, exit, post)
        \o CompileSeq(s.post, post, cond, 0, 0)

CompileStmt(s, base, exit, brk, cont) ==
  CASE s.kind = "assign"   -> <<AssignI(s.x, s.e, exit)>>
    [] s.kind = "break"    -> <<Br(brk)>>
    [] s.kind = "continue" -> <<Br(cont)>>
    [] s.kind = "if"       -> <<CondBr(s.c, base + 1, exit)>> \o CompileSeq(s.body, base + 1, exit, brk, cont)
    [] s.kind = "switch"   ->
         LET n == Len(s.cases)
         IN  SwitchTests(s, base)
               \o CompileCases(s.cases, base + n, exit, brk, cont)
               \o CompileSeq(s.dflt, base + n + SizeCases(s.cases), exit, brk, cont)
    [] s.kind = "for"      -> CompileFor(s, base, exit)

CompileSeq(ss, base, exit, brk, cont) ==
  IF ss = <<>> THEN <<Br(exit)>>
  ELSE LET next == base + SizeStmt(Head(ss))
       IN  CompileStmt(Head(ss), base, next, brk, cont) \o CompileSeq(Tail(ss), next, exit, brk, cont)

\* The function body returns after the block; break/continue outside a loop is not valid Yul.
Lower(p) == LET body == CompileSeq(p, 1, SizeSeq(p) + 1, 0, 0) IN body \o <<Ret>>

-----------------------------------------------------------------------------
Init ==
  /\ prog \in Programs
  /\ code = Lower(prog)
  /\ store = Store0
  /\ pc = 1
  /\ executed = 0

ExecAssign ==
  /\ pc # 0 /\ code[pc].op = "assign"
  /\ store' = [store EXCEPT ![code[pc].x] = Eval(code[pc].e, store)]
  /\ pc' = code[pc].next
  /\ executed' = executed + 1
  /\ UNCHANGED <<prog, code>>

ExecCondBr ==
  /\ pc # 0 /\ code[pc].op = "condbr"
  /\ pc' = IF Eval(code[pc].c, store) # 0 THEN code[pc].ifso ELSE code[pc].ifnot
  /\ UNCHANGED <<prog, code, store, executed>>

ExecBr ==
  /\ pc # 0 /\ code[pc].op = "br"
  /\ pc' = code[pc].target
  /\ UNCHANGED <<prog, code, store, executed>>

ExecRet ==
  /\ pc # 0 /\ code[pc].op = "ret"
  /\ pc' = 0
  /\ UNCHANGED <<prog, code, store, executed>>

Next == ExecAssign \/ ExecCondBr \/ ExecBr \/ ExecRet

(* The lowered function runs on one thread with nothing to wait for, so   *)
(* it keeps executing while an instruction is left.                       *)
Spec == Init /\ [][Next]_vars /\ WF_vars(Next)

-----------------------------------------------------------------------------
TypeOK ==
  /\ pc \in 0..Len(code)
  /\ executed \in Nat
  /\ store \in [Vars -> Nat]

A == INSTANCE YulControl WITH halted <- (pc = 0)

(* The lowered code refines the structured semantics: it performs         *)
(* exactly the assignments of a direct interpretation of the block, in    *)
(* the same order and with the same values, and then returns (spec.md     *)
(* 4.2 and the loop scenario of section 6).  Since the abstract           *)
(* specification is fair, this includes that the lowered code returns     *)
(* (A!Spec, stated as A!Safety /\ A!Returns, its equivalent form).        *)
YulSemantics == A!Safety /\ A!Returns

=============================================================================
