--------------------------- MODULE MCLowerControl ---------------------------
(***************************************************************************)
(* The code blocks lowered: the two loop programs of src/src/test.rs       *)
(* (yul_parser_simple_break, yul_parser_simple_continue: sum of i < 10,   *)
(* leaving the loop or skipping the iteration at i = 5), and every outer  *)
(* loop over i in 0..2 whose body is two statements drawn from LoopBody:   *)
(* break and continue under if, inside a switch, and in a nested loop.    *)
(***************************************************************************)
EXTENDS LowerControl

MCVars == {"i", "j", "sum"}

Inc(x) == Assign(x, AddE(Var(x), Const(1)))
AddTo(e) == Assign("sum", AddE(Var("sum"), e))

TestLoop(jump) ==
  << Assign("sum", Const(0)), Assign("i", Const(0)),
     For(<<>>, LtE(Var("i"), Const(10)), <<Inc("i")>>,
         << If(EqE(Var("i"), Const(5)), <<jump>>), AddTo(Var("i")) >>) >>

\* for { let j := 0 } lt(j, 2) { j := add(j, 1) } { .. }
InnerLoop ==
  For(<<Assign("j", Const(0))>>, LtE(Var("j"), Const(2)), <<Inc("j")>>,
      << If(EqE(Var("j"), Var("i")), <<Continue>>), AddTo(Var("j")),
         If(EqE(Var("i"), Const(2)), <<Break>>) >>)

LoopBody ==
  { AddTo(Var("i")),
    If(EqE(Var("i"), Const(1)), <<Break>>),
    If(EqE(Var("i"), Const(1)), <<Continue>>),
    Switch(Var("i"), <<Case(0, <<Continue>>), Case(2, <<Break>>)>>, <<AddTo(Const(10))>>),
    Switch(Var("i"), <<Case(1, <<AddTo(Const(5))>>)>>, <<>>),
    InnerLoop }

OuterLoop(s1, s2) ==
  << For(<<Assign("i", Const(0))>>, LtE(Var("i"), Const(3)), <<Inc("i")>>, <<s1, s2>>),
     AddTo(Const(100)) >>

MCPrograms ==
  {TestLoop(Break), TestLoop(Continue)} \cup { OuterLoop(s1, s2) : s1, s2 \in LoopBody }
=============================================================================
