----------------------------- MODULE MCEditors -----------------------------
(***************************************************************************)
(* Two projects, the second one empty. Each budget opens some of the tabs. *)
(***************************************************************************)
EXTENDS Editors, TLC

CONSTANTS p1, p2, r1, r2, r3, a1, a2, t1, t2

MCStart == (r1 :> p1) @@ (r2 :> p1) @@ (a1 :> p1) @@ (t1 :> p1)

MCBudget ==
    {[tabs |-> {"scored"}, texts |-> 2, remote |-> 0, errors |-> TRUE],
     [tabs |-> {"scored"}, texts |-> 1, remote |-> 1, errors |-> TRUE],
     [tabs |-> {"scored", "action"}, texts |-> 1, remote |-> 0, errors |-> FALSE],
     [tabs |-> {"action"}, texts |-> 2, remote |-> 1, errors |-> FALSE],
     [tabs |-> {"ticket"}, texts |-> 2, remote |-> 0, errors |-> FALSE],
     [tabs |-> {"assessment"}, texts |-> 2, remote |-> 0, errors |-> FALSE]}

\* Two texts beside a change of another device.
MCBudgetBoth ==
    {[tabs |-> {"scored"}, texts |-> 2, remote |-> 1, errors |-> FALSE]}
=============================================================================
