----------------------------- MODULE MCItemCodes -----------------------------
(***************************************************************************)
(* Two devices: the first creates two items, the second one. The budgets   *)
(* lead to devices that choose the same codes, to typed codes and renames  *)
(* that swap them, and to lost answers.                                    *)
(***************************************************************************)
EXTENDS ItemCodes

CONSTANTS d1, d2, i1, i2, i3

MCHome == [i \in Risk |-> IF i = i3 THEN d2 ELSE d1]

B(saves, typed, renames, losses, late) ==
    [saves |-> saves, typed |-> typed, renames |-> renames, losses |-> losses,
     late |-> late]

MCBudget ==
    {B(4, 0, 0, 0, TRUE), B(3, 0, 0, 1, TRUE), B(3, 1, 0, 0, TRUE),
     B(3, 0, 1, 0, FALSE), B(2, 0, 2, 1, FALSE)}
=============================================================================
