--------------------------- MODULE MCConflictCenter ---------------------------
EXTENDS ConflictCenter

CONSTANTS i1, i2, ann, t1, t2

MCStart ==
    [x \in Item |->
        [f \in Field |->
            CASE f = "title" -> t1
              [] f = "status" -> "active"
              [] f = "owner_user_id" -> IF x = i1 THEN None ELSE ann
              [] f = "identified_at" -> IF x = i1 THEN None ELSE 2
              [] f = "probability" -> IF x = i1 THEN 3 ELSE 5
              [] f = "impact" -> IF x = i1 THEN 3 ELSE 4
              [] f = "impact_time" -> IF x = i1 THEN None ELSE 4
              [] OTHER -> None]]

MCLocalEdits ==
    [x \in Item |-> IF x = i2 THEN {[probability |-> 2]} ELSE
    {[title |-> t2, probability |-> 5], [impact_cost |-> 5], [impact |-> 1],
     [owner_user_id |-> ann, identified_at |-> 2]}]

MCOtherEdits ==
    [x \in Item |-> IF x = i2 THEN {[impact_time |-> None]} ELSE
    {[status |-> "closed", impact_cost |-> 2], [impact |-> 5],
     [title |-> t2, impact_time |-> None]}]

MCQueries ==
    [min: {0, 9, 15}, max: {9, 25}, status: {"any", "active"},
     owner: {"any", "unassigned", ann}, from: {None}, to: {None}]
    \cup [min: {0}, max: {99}, status: {"any"}, owner: {"any"},
          from: {None, 2, 3}, to: {None, 1, 2}]

=============================================================================
