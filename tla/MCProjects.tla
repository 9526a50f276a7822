----------------------------- MODULE MCProjects -----------------------------
(***************************************************************************)
(* One device and its user, a colleague and a superuser: changes of the    *)
(* members that overlap, one change beside work on the device, and a fault *)
(* in a pass when there may be a second project.                           *)
(***************************************************************************)
EXTENDS ProjectLifecycle

MCBudget ==
    {[changes |-> 3, faults |-> 0, recs |-> 0, made |-> 0],
     [changes |-> 1, faults |-> 0, recs |-> 1, made |-> 0],
     [changes |-> 0, faults |-> 1, recs |-> 1, made |-> 1]}
=============================================================================
