----------------------------- MODULE MCSessions -----------------------------
(***************************************************************************)
(* One account, one client with two threads and another device's login:    *)
(* a lost answer and no account operation, a lost answer beside a password *)
(* change or deactivation, and three password operations by themselves.    *)
(***************************************************************************)
EXTENDS Sessions

MCBudget ==
    {[faults |-> 1, ops |-> 0, toks |-> 4],
     [faults |-> 0, ops |-> 1, toks |-> 3],
     [faults |-> 0, ops |-> 3, toks |-> 1]}
=============================================================================
