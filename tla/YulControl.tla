----------------------------- MODULE YulControl -----------------------------
(***************************************************************************)
(* What a Yul code block does, read directly from its structure (spec.md   *)
(* 4.2, "Control-flow lowering"): `if` runs its body when the condition   *)
(* is non-zero; `switch` runs the body of the case whose literal equals   *)
(* the scrutinee, else the default; `for` runs init, then while the        *)
(* condition is non-zero the body and the post block; `break` leaves the  *)
(* nearest enclosing loop and `continue` goes on with its post block.     *)
(*                                                                         *)
(* The observable behaviour of a block is the sequence of stores after    *)
(* each assignment, Trace(prog).  This module is the abstract              *)
(* specification: it performs those assignments one per step, in order,  *)
(* and then returns.                                                       *)
(***************************************************************************)
EXTENDS YulAst

CONSTANTS
  Programs,       \* the code blocks compiled
  MaxIterations   \* more than any loop of Programs iterates

VARIABLES
  prog,       \* the code block being run
  store,      \* the variables
  executed,   \* assignments performed so far
  halted      \* the block has returned

avars == <<prog, store, executed, halted>>

Result(st, tr, sig) == [st |-> st, tr |-> tr, sig |-> sig]

(* Big-step evaluation.  `sig` is how the statement completed: "normal",  *)
(* "break" or "continue"; `tr` the stores after each assignment.  `fuel`  *)
(* bounds the iterations of one loop, so that the recursion is finite.    *)
RECURSIVE ExecSeq(_, _), ExecStmt(_, _), ExecLoop(_, _, _)
ExecSeq(ss, st) ==
  IF ss = <<>> THEN Result(st, <<>>, "normal")
  ELSE LET r == ExecStmt(Head(ss), st)
       IN  IF r.sig # "normal" THEN r
           ELSE LET rest == ExecSeq(Tail(ss), r.st)
                IN  Result(rest.st, r.tr \o rest.tr, rest.sig)

ExecStmt(s, st) ==
  CASE s.kind = "assign" ->
         LET st2 == [st EXCEPT ![s.x] = Eval(s.e, st)] IN Result(st2, <<st2>>, "normal")
    [] s.kind = "if" ->
         IF Eval(s.c, st) # 0 THEN ExecSeq(s.body, st) ELSE Result(st, <<>>, "normal")
    [] s.kind = "switch" ->
         LET hits == {k \in DOMAIN s.cases : s.cases[k].val = Eval(s.e, st)}
         IN  IF hits = {} THEN ExecSeq(s.dflt, st)
             ELSE ExecSeq(s.cases[CHOOSE k \in hits : \A j \in hits : k <= j].body, st)
    [] s.kind = "for" ->
         LET i == ExecSeq(s.init, st)
             l == ExecLoop(s, i.st, MaxIterations)
         IN  Result(l.st, i.tr \o l.tr, "normal")
    [] s.kind = "break"    -> Result(st, <<>>, "break")
    [] s.kind = "continue" -> Result(st, <<>>, "continue")

ExecLoop(s, st, fuel) ==
  IF fuel = 0 \/ Eval(s.c, st) = 0 THEN Result(st, <<>>, "normal")
  ELSE LET b == ExecSeq(s.body, st)
       IN  IF b.sig = "break" THEN Result(b.st, b.tr, "normal")
           ELSE LET p == ExecSeq(s.post, b.st)
                    l == ExecLoop(s, p.st, fuel - 1)
                IN  Result(l.st, b.tr \o p.tr \o l.tr, "normal")

Trace(p) == ExecSeq(p, Store0).tr

\* The trace of every program, computed once.
Traces == [p \in Programs |-> Trace(p)]

-----------------------------------------------------------------------------
Init ==
  /\ prog \in Programs
  /\ store = Store0
  /\ executed = 0
  /\ halted = FALSE

\* The next assignment of the block.
Execute ==
  /\ ~halted /\ executed < Len(Traces[prog])
  /\ store' = Traces[prog][executed + 1]
  /\ executed' = executed + 1
  /\ UNCHANGED <<prog, halted>>

\* After the last assignment, the block returns.
Finish ==
  /\ ~halted /\ executed = Len(Traces[prog])
  /\ halted' = TRUE
  /\ UNCHANGED <<prog, store, executed>>

Next == Execute \/ Finish

Safety == Init /\ [][Next]_avars

Spec == Safety /\ WF_avars(Next)

(* Next is enabled in every state until the block has returned, so a      *)
(* behaviour of Safety satisfies WF_avars(Next) exactly when it returns:  *)
(* Spec is equivalent to Safety /\ Returns.                               *)
Returns == <>halted

=============================================================================
