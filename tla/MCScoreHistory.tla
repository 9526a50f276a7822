---------------------------- MODULE MCScoreHistory ----------------------------
EXTENDS ScoreHistory, TLC

CONSTANTS r1, r2, o1, p1, p2

MCViews == {[kind |-> "risk", limit |-> 1, period |-> "All"],
            [kind |-> "risk", limit |-> 2, period |-> "Last 7 days"]}

MCStartScore == [i \in Item |-> IF i = r1 THEN 2 ELSE 1]

MCSymmetry == Permutations(Project)

MCKindOf == [i \in Item |-> IF i = o1 THEN "opportunity" ELSE "risk"]

=============================================================================
