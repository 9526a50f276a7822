----------------------------- MODULE ScoredValues -----------------------------
(***************************************************************************)
(* The values of a risk or an opportunity and what both sides compute from *)
(* them: the derived impact and score, the filters of a list, the report   *)
(* and the matrix, and the merge of two copies field by field. The server  *)
(* computes figures in SQL (core/filters.py, core/items_crud.py,           *)
(* api/routers/matrix.py), the client in Python over its cached rows       *)
(* (services/entity_filters.py, services/offline_first_facade.py,          *)
(* ui_v2/mixins/matrix_mixin.py): the two are written down separately.     *)
(*                                                                         *)
(* "title" stands for every free text field, "identified_at" is a day. A   *)
(* row is [val, ver, gone]; gone is is_deleted.                            *)
(***************************************************************************)
EXTENDS FiniteSetsExt, Integers

CONSTANTS
    Owner,    \* the users who can own an item
    Text      \* titles

Dimension == {"impact_cost", "impact_time", "impact_scope", "impact_quality"}

\* A field that is not set.
None == 0

Status == {"concept", "active", "closed", "deleted", "happened"}

Figure == 1..5

Field == {"title", "status", "owner_user_id", "identified_at", "probability",
          "impact"} \cup Dimension

\* The values of one field.
ValuesOf(f) ==
    CASE f = "title" -> Text
      [] f = "status" -> Status
      [] f = "owner_user_id" -> Owner \cup {None}
      [] f = "identified_at" -> Nat
      [] f \in {"probability", "impact"} -> Figure
      [] OTHER -> Figure \cup {None}

IsValue(v) ==
    v = [f \in Field |-> v[f]] /\ \A f \in Field : v[f] \in ValuesOf(f)

IsRow(row) == IsValue(row.val) /\ row.ver \in Nat /\ row.gone \in BOOLEAN

-----------------------------------------------------------------------------
(* Derived figures                                                         *)

SetDimensions(v) == {v[d] : d \in Dimension} \ {None}

\* The figure a record keeps when it has dimensions is their maximum.
DerivedImpact(v) ==
    IF SetDimensions(v) = {} THEN v["impact"] ELSE Max(SetDimensions(v))

\* Mutant: the server stores the impact a request names as it is.
NotRecalculated(v) == v

\* The server recalculates every row it writes.
Recalculated(v) == [v EXCEPT !["impact"] = DerivedImpact(v)]

\* The client derives the impact whenever it builds an entity.
Entity(v) == [v EXCEPT !["impact"] = DerivedImpact(v)]

Score(v) == v["probability"] * v["impact"]

\* A record with some of its fields replaced.
Edited(v, e) == [f \in Field |-> IF f \in DOMAIN e THEN e[f] ELSE v[f]]

-----------------------------------------------------------------------------
(* Field by field merge                                                    *)

IsDeleted(row) == row.gone \/ row.val["status"] = "deleted"

\* A live update against a live server copy that has a version.
CanMerge(c) ==
    /\ c.op = "upsert"
    /\ c.mine["status"] # "deleted"
    /\ ~IsDeleted(c.copy)
    /\ c.copy.ver >= 1

\* The fields the user chooses a side for: those that differ, without an
\* impact that follows from dimensions.
Mergeable(c) ==
    IF ~CanMerge(c) THEN {}
    ELSE LET derived == SetDimensions(c.mine) \cup SetDimensions(c.copy.val) # {}
         IN  {f \in Field : /\ c.mine[f] # c.copy.val[f]
                            /\ ~(f = "impact" /\ derived)}

\* Mutant: the sides are swapped.
MergedSwapped(c, chosen) ==
    Entity([f \in Field |-> IF f \in chosen THEN c.copy.val[f] ELSE c.mine[f]])

\* The server copy with the chosen fields of the local one.
Merged(c, chosen) ==
    Entity([f \in Field |-> IF f \in chosen THEN c.mine[f] ELSE c.copy.val[f]])

-----------------------------------------------------------------------------
(* Filters. A query is what the controls of a tab say:                     *)
(*   [min, max: score bounds, status: a status or "any", owner: an owner,  *)
(*    "any" or "unassigned", from, to: days or None]                       *)

MAX_SCORE_UI == 25

\* The form gives the two spin boxes no range of their own: they have Qt's.
SpinBox == 0..99

IsQuery(q) ==
    q \in [min : SpinBox, max : SpinBox, status : Status \cup {"any"},
           owner : Owner \cup {"any", "unassigned"}, from : Nat, to : Nat]

MAX_SCORE == 999999

\* score_bounds: the smaller of the two spin boxes is the minimum.
ScoreBounds(q) ==
    IF q.min > q.max THEN [low |-> q.max, high |-> q.min]
    ELSE [low |-> q.min, high |-> q.max]

\* The query parameters of the report request; a bound that excludes
\* nothing is left out (-1).
Params(q) ==
    LET b == ScoreBounds(q)
    IN  [q EXCEPT !.min = IF b.low > 0 THEN b.low ELSE -1,
                  !.max = IF b.high < MAX_SCORE_UI THEN b.high ELSE -1]

\* normalize_score_range.
Normalized(p) ==
    IF p.min # -1 /\ p.max # -1 /\ p.min > p.max
    THEN [p EXCEPT !.min = p.max, !.max = p.min] ELSE p

\* apply_date_range: the last day counts in full, a row without a date never
\* satisfies a bound.
InDateRange(day, p) ==
    /\ p.from # None => day # None /\ day >= p.from
    /\ p.to # None => day # None /\ day < p.to + 1

\* apply_item_filters.
ServerMatches(row, params) ==
    LET p == Normalized(params)
        v == row.val
    IN  /\ IF p.status = "deleted" THEN row.gone
           ELSE ~row.gone /\ (p.status = "any" \/ v["status"] = p.status)
        /\ p.owner = "unassigned" => v["owner_user_id"] = None
        /\ p.owner \in Owner => v["owner_user_id"] = p.owner
        /\ InDateRange(v["identified_at"], p)
        /\ p.min # -1 => Score(v) >= p.min
        /\ p.max # -1 => Score(v) <= p.max

\* criteria_from_report_filters: the parameters as the client's own filter
\* reads them; a maximum of 0 is no maximum.
Criteria(p) ==
    [p EXCEPT !.min = IF p.min = -1 THEN 0 ELSE p.min,
              !.max = IF p.max \in {-1, 0} THEN MAX_SCORE ELSE p.max]

\* _identified_between.
IdentifiedBetween(v, c) ==
    c.from # None \/ c.to # None =>
        /\ v["identified_at"] # None
        /\ c.from # None => v["identified_at"] >= c.from
        /\ c.to # None => v["identified_at"] <= c.to

OwnerMatches(v, c) ==
    CASE c.owner = "unassigned" -> v["owner_user_id"] = None
      [] c.owner = "any" -> TRUE
      [] OTHER -> v["owner_user_id"] = c.owner

\* filter_scored, for the entity of a row that list_risks returned.
ClientMatches(row, c) ==
    LET v == Entity(row.val)
        b == ScoreBounds(c)
    IN  /\ ~row.gone
        /\ b.low <= Score(v) /\ Score(v) <= b.high
        /\ c.status = "any" \/ v["status"] = c.status
        /\ OwnerMatches(v, c)
        /\ IdentifiedBetween(v, c)

-----------------------------------------------------------------------------
(* Reports and matrix over a set of values                                 *)

ServerBucket(s) ==
    CASE s <= 4 -> "0-4"
      [] s \in 5..9 -> "5-9"
      [] s \in 10..14 -> "10-14"
      [] s \in 15..19 -> "15-19"
      [] OTHER -> "20-25"

Upper == [b \in {"0-4", "5-9", "10-14", "15-19", "20-25"} |->
             CASE b = "0-4" -> 4 [] b = "5-9" -> 9 [] b = "10-14" -> 14
               [] b = "15-19" -> 19 [] OTHER -> MAX_SCORE]

\* The first bucket whose bound is not exceeded.
ClientBucket(s) ==
    CHOOSE b \in DOMAIN Upper :
        /\ s <= Upper[b]
        /\ \A c \in DOMAIN Upper : s <= Upper[c] => Upper[b] <= Upper[c]

\* How many elements of S the function of maps to each key.
Counts(S, of, keys) == [k \in keys |-> Cardinality({x \in S : of[x] = k})]

\* The figures of the items in S, with their values and buckets: total,
\* extremes, the sum that gives the average, and counts by status, owner and
\* bucket.
Summary(S, val, bucket) ==
    LET scores == {Score(val[x]) : x \in S}
    IN  [total |-> Cardinality(S),
         low |-> IF S = {} THEN None ELSE Min(scores),
         high |-> IF S = {} THEN None ELSE Max(scores),
         sum |-> MapThenSumSet(LAMBDA x : Score(val[x]), S),
         status |-> Counts(S, [x \in S |-> val[x]["status"]], Status),
         owner |-> Counts(S, [x \in S |-> val[x]["owner_user_id"]],
                          Owner \cup {None}),
         buckets |-> Counts(S, bucket, DOMAIN Upper)]

\* generate_report.
ServerReport(rows, q) ==
    Summary({x \in DOMAIN rows : ServerMatches(rows[x], Params(q))},
            [x \in DOMAIN rows |-> rows[x].val],
            [x \in DOMAIN rows |-> ServerBucket(Score(rows[x].val))])

\* _local_scored_report.
ClientReport(rows, q) ==
    Summary({x \in DOMAIN rows : ClientMatches(rows[x], Criteria(Params(q)))},
            [x \in DOMAIN rows |-> Entity(rows[x].val)],
            [x \in DOMAIN rows |-> ClientBucket(Score(Entity(rows[x].val)))])

\* The rows of the table in the window.
ClientTable(rows, q) ==
    {x \in DOMAIN rows : ClientMatches(rows[x], q)}

\* A cell is <<probability, impact>>.
ServerMatrix(rows) ==
    [cell \in Figure \X Figure |->
        Cardinality({x \in DOMAIN rows :
            /\ ~rows[x].gone
            /\ <<rows[x].val["probability"], rows[x].val["impact"]>> = cell})]

ClientMatrix(rows) ==
    [cell \in Figure \X Figure |->
        Cardinality({x \in DOMAIN rows :
            LET v == Entity(rows[x].val)
            IN  ~rows[x].gone /\ <<v["probability"], v["impact"]>> = cell})]

=============================================================================
