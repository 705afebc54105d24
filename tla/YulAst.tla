------------------------------- MODULE YulAst -------------------------------
(***************************************************************************)
(* The part of the Yul code-block syntax (spec.md section 3, "Code block") *)
(* that control-flow lowering is about: assignment, if, switch, for,      *)
(* break and continue, over expressions built from constants, variables,  *)
(* add, lt and eq.  A `let` with an initializer is an assignment here.    *)
(* Expressions have no side effects in this fragment (no calls), so       *)
(* evaluating one twice gives the same value.                             *)
(***************************************************************************)
EXTENDS Naturals, Sequences

CONSTANT Vars   \* the variable names of the programs

Const(v)     == [op |-> "const", v |-> v]
Var(x)       == [op |-> "var", x |-> x]
AddE(a, b)   == [op |-> "add", a |-> a, b |-> b]
LtE(a, b)    == [op |-> "lt", a |-> a, b |-> b]
EqE(a, b)    == [op |-> "eq", a |-> a, b |-> b]

Assign(x, e)             == [kind |-> "assign", x |-> x, e |-> e]
If(c, body)              == [kind |-> "if", c |-> c, body |-> body]
Case(v, body)            == [val |-> v, body |-> body]
Switch(e, cases, dflt)   == [kind |-> "switch", e |-> e, cases |-> cases, dflt |-> dflt]
For(init, c, post, body) == [kind |-> "for", init |-> init, c |-> c, post |-> post, body |-> body]
Break                    == [kind |-> "break"]
Continue                 == [kind |-> "continue"]

\* Every variable starts at 0.
Store0 == [x \in Vars |-> 0]

(* The value of an expression; a comparison is 1 or 0 (spec.md 4.2,       *)
(* iszero/eq/lt/gt).  The values stay far below 2^256, so add does not    *)
(* wrap.                                                                    *)
RECURSIVE Eval(_, _)
Eval(e, st) ==
  CASE e.op = "const" -> e.v
    [] e.op = "var"   -> st[e.x]
    [] e.op = "add"   -> Eval(e.a, st) + Eval(e.b, st)
    [] e.op = "lt"    -> IF Eval(e.a, st) < Eval(e.b, st) THEN 1 ELSE 0
    [] e.op = "eq"    -> IF Eval(e.a, st) = Eval(e.b, st) THEN 1 ELSE 0

=============================================================================
