---------------------------- MODULE MCSyncServer ----------------------------
(***************************************************************************)
(* An instance of SyncServer: an item, its assessment, a ticket made       *)
(* through the REST API and two users.                                     *)
(***************************************************************************)
EXTENDS SyncServer, TLC

CONSTANTS item, assess, ticket, a

MCRec == {item, assess, ticket}
MCParent == [r \in MCRec |-> IF r = assess THEN item ELSE NoRec]

Users == Permutations(User)

Pay(r, op, base, v, flag, valid) ==
    [rec |-> r, op |-> op, base |-> base, val |-> v, flag |-> flag,
     valid |-> valid]

\* A create; a delete and an update of the version it produced, and an
\* undelete, under one identifier; a child that may come before its parent.
MCSendable ==
    {[id |-> 1, pay |-> Pay(item, "upsert", 0, a, "absent", TRUE)],
     [id |-> 2, pay |-> Pay(item, "delete", 1, a, "absent", TRUE)],
     [id |-> 2, pay |-> Pay(item, "upsert", 1, a, "absent", TRUE)],
     [id |-> 2, pay |-> Pay(item, "upsert", 2, a, "false", TRUE)],
     [id |-> 3, pay |-> Pay(assess, "upsert", 0, a, "absent", TRUE)]}
=============================================================================
