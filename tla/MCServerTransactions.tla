------------------------ MODULE MCServerTransactions ------------------------
(***************************************************************************)
(* Instances of ServerTransactions: two transactions on two rows.          *)
(***************************************************************************)
EXTENDS ServerTransactions, TLC

Symmetry == Permutations(Rec) \cup Permutations(Txn)
=============================================================================
