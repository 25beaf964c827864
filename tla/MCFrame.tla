----------------------------- MODULE MCFrame -------------------------------
(***************************************************************************)
(* A five-block frame for the resolvers, with every edge placement:     *)
(*                                                                         *)
(*   B1: a = ...; if .. goto B2 else B3     (B1->B2 label, B1->B3 branch) *)
(*   B2: x = ...; goto B4                                                  *)
(*   B3: if .. goto B5 else B4              (B3->B5 critical, B3->B4)     *)
(*   B4: p = phi(x from B2, a from B3); ... p ...; goto B5                *)
(*   B5: ... a ...                                                         *)
(*                                                                         *)
(* Each block spans three lines: label, body, branch.                     *)
(***************************************************************************)
EXTENDS Naturals

MCValues == {"a", "x", "p"}
MCRegisters == {0}
MCSpillSlots == {0}

MCBlockOrder == <<1, 2, 3, 4, 5>>

MCBlockRange == [b \in 1..5 |-> [first |-> 3 * (b - 1), second |-> 3 * b]]

MCSuccessors == <<<<2, 3>>, <<4>>, <<5, 4>>, <<5>>, <<>>>>

MCPredecessors == <<<<>>, <<1>>, <<1>>, <<2, 3>>, <<4, 3>>>>

MCLiveIns == <<{}, {"a"}, {"a"}, {"a", "p"}, {"a"}>>

MCPhis == <<{}, {}, {}, {"p"}, {}>>

MCPhiInputs == [v \in {"p"} |-> <<"x", "a">>]

(* Lifetime intervals: a = [1, 13), x = [4, 6), p = [9, 11).              *)
MCLiveAt ==
  [l \in 0..14 |->
     {v \in MCValues :
        \/ v = "a" /\ l \in 1..12
        \/ v = "x" /\ l \in 4..5
        \/ v = "p" /\ l \in 9..10}]

=============================================================================
