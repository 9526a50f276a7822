------------------------ MODULE ConflictCenter_proofs ------------------------
(***************************************************************************)
(* Proofs about the Conflict Center, for any items, edits, filters and     *)
(* bounds. A version of a row has one content, so that a decision checked  *)
(* against a version is a decision on the content that was displayed.      *)
(***************************************************************************)
EXTENDS ConflictCenter, TLAPS, WellFoundedInduction

-----------------------------------------------------------------------------
(* The inductive invariant                                                 *)

Anything == Text \cup Status \cup Owner \cup Nat
Value == {v \in [Field -> Anything] : \A f \in Field : v[f] \in ValuesOf(f)}

Row == [val : Value, ver : Nat, gone : BOOLEAN]
ServerRow == [val : Value, ver : Nat, gone : BOOLEAN, seq : Nat]
Op == {"upsert", "delete"}
Entry == [state : {"none", "pending", "conflict"}, op : Op, mine : Value, base : Nat,
          copy : Row, merged : BOOLEAN, chosen : SUBSET Field]
Detail == [item : Item, op : Op, mine : Value, copy : Row]

Types ==
    /\ srv \in [Item -> ServerRow]
    /\ row \in [Item -> Row]
    /\ entry \in [Item -> Entry]
    /\ mark \in Nat
    /\ shown \in SUBSET Detail
    /\ saves \in 0..MaxSaves

\* The server numbers its writes, and its impacts are derived.
Numbered ==
    /\ \A x \in Item : srv[x].seq <= MaxWrites
    /\ mark <= LastSeq
Derived == \A x \in Item : srv[x].val = Recalculated(srv[x].val)

\* A row the server never wrote is in no conflict.
Untouched(x) ==
    srv[x].seq = 0 =>
        /\ srv[x].ver = 1 /\ row[x].ver = 1
        /\ entry[x].state # "conflict"
        /\ entry[x].state = "pending" => entry[x].base = 1

\* A row without a queued change that the watermark covers is the server's.
Current(x) ==
    entry[x].state = "none" /\ srv[x].seq <= mark => row[x] = Copy(x)

\* k was the server's row, and is if it has its version.
WasRow(x, k) == k.ver <= srv[x].ver /\ (k.ver = srv[x].ver => k = Copy(x))

\* A merge on the server's current version changes the chosen fields only.
Composed(x) ==
    \A f \in Field :
        \/ f \in entry[x].chosen
        \/ f = "impact" /\ entry[x].chosen \cap Dimension # {}
        \/ Recalculated(entry[x].mine)[f] = srv[x].val[f]
MergeSound(x) ==
    entry[x].merged =>
        /\ entry[x].state = "pending" /\ entry[x].op = "upsert"
        /\ entry[x].base <= srv[x].ver
        /\ entry[x].base = srv[x].ver => Composed(x)

ItemSound(x) ==
    /\ Untouched(x)
    /\ Current(x)
    /\ entry[x].state = "conflict" => WasRow(x, entry[x].copy)
    /\ MergeSound(x)

\* A row of the dialog shows the conflict as it is stored, but for a newer
\* copy of the server's row.
ShownSound(c) ==
    /\ entry[c.item].state = "conflict"
    /\ c.op = entry[c.item].op /\ c.mine = entry[c.item].mine
    /\ WasRow(c.item, c.copy)
    /\ entry[c.item].copy.ver = c.copy.ver => entry[c.item].copy = c.copy

Dialog ==
    /\ \A c \in shown : ShownSound(c)
    /\ \A c, d \in shown : c.item = d.item => c = d

IInv ==
    /\ Types
    /\ Numbered
    /\ Derived
    /\ \A x \in Item : ItemSound(x)
    /\ Dialog

-----------------------------------------------------------------------------
(* Numbers                                                                 *)

\* A set of numbers has a smallest one.
LEMMA SmallestNumber ==
    ASSUME NEW S \in SUBSET Nat, S # {}
    PROVE  \E k \in S : \A j \in S : k <= j
<1>1. PICK k \in S : \A j \in S : ~ (<<j, k>> \in OpToRel(<, Nat))
  BY NatLessThanWellFounded, WFMin
<1>2. \A j \in S : ~ (j < k)
  BY <1>1 DEF OpToRel
<1> QED
  BY <1>2

\* A bounded set of numbers has a largest one, which Max chooses.
LEMMA LargestNumber ==
    ASSUME NEW S \in SUBSET Nat, S # {}, NEW n \in Nat, \A s \in S : s <= n
    PROVE  Max(S) \in S /\ \A s \in S : s <= Max(S)
<1> DEFINE Bounds == {m \in Nat : \A s \in S : s <= m}
<1>1. PICK m \in Bounds : \A k \in Bounds : m <= k
  <2>1. Bounds \in SUBSET Nat /\ n \in Bounds
    OBVIOUS
  <2> QED
    BY <2>1, SmallestNumber
<1>2. m \in S
  <2> SUFFICES ASSUME m \notin S PROVE FALSE
    OBVIOUS
  <2>1. PICK s \in S : TRUE
    OBVIOUS
  <2>2. m - 1 \in Bounds
    BY <2>1
  <2> QED
    BY <1>1, <2>2
<1>3. \E x \in S : \A y \in S : x >= y
  BY <1>1, <1>2
<1> QED
  BY <1>3 DEF Max

-----------------------------------------------------------------------------
(* Values                                                                  *)

LEMMA FieldNames ==
    /\ Dimension \subseteq Field /\ "impact" \in Field /\ "impact" \notin Dimension
    /\ "status" \in Field /\ "status" \notin Dimension /\ "status" # "impact"
    /\ "probability" \in Field /\ "owner_user_id" \in Field /\ "identified_at" \in Field
    /\ ValuesOf("impact") = Figure /\ ValuesOf("probability") = Figure
    /\ ValuesOf("status") = Status /\ ValuesOf("identified_at") = Nat
    /\ ValuesOf("owner_user_id") = Owner \cup {None}
    /\ \A d \in Dimension : ValuesOf(d) = Figure \cup {None}
    /\ \A f \in Field : ValuesOf(f) \subseteq Anything
BY DEF Dimension, Field, ValuesOf, Anything, Figure, None

LEMMA ValueDef ==
    ASSUME NEW v
    PROVE  IsValue(v) <=> v \in Value
<1>1. IsValue(v) => v \in Value
  BY FieldNames DEF IsValue, Value
<1>2. v \in Value => IsValue(v)
  BY DEF IsValue, Value
<1> QED
  BY <1>1, <1>2

LEMMA SetDimensionsDef ==
    ASSUME NEW v \in Value
    PROVE  SetDimensions(v) \in SUBSET Figure
BY FieldNames DEF SetDimensions, Value

LEMMA DerivedImpactFigure ==
    ASSUME NEW v \in Value
    PROVE  DerivedImpact(v) \in Figure
<1>1. SetDimensions(v) \in SUBSET Figure /\ v["impact"] \in Figure
  BY SetDimensionsDef, FieldNames DEF Value
<1>2. ASSUME SetDimensions(v) # {}
      PROVE  Max(SetDimensions(v)) \in SetDimensions(v)
  BY <1>1, <1>2, LargestNumber DEF Figure
<1> QED
  BY <1>1, <1>2 DEF DerivedImpact

\* The impact follows the dimensions alone, if there are any.
LEMMA SameDimensions ==
    ASSUME NEW v \in Value, NEW w \in Value, \A d \in Dimension : v[d] = w[d]
    PROVE  /\ SetDimensions(v) = SetDimensions(w)
           /\ v["impact"] = w["impact"] => DerivedImpact(v) = DerivedImpact(w)
           /\ SetDimensions(v) # {} => DerivedImpact(v) = DerivedImpact(w)
<1>1. SetDimensions(v) = SetDimensions(w)
  BY DEF SetDimensions
<1> QED
  BY <1>1 DEF DerivedImpact

LEMMA RecalculatedValue ==
    ASSUME NEW v \in Value
    PROVE  /\ Recalculated(v) \in Value /\ Entity(v) = Recalculated(v)
           /\ Recalculated(v)["impact"] = DerivedImpact(v)
           /\ \A f \in Field : f # "impact" => Recalculated(v)[f] = v[f]
           /\ Recalculated(Recalculated(v)) = Recalculated(v)
<1>1. DerivedImpact(v) \in Figure /\ v \in [Field -> Anything]
  BY DerivedImpactFigure DEF Value
<1>2. /\ Recalculated(v) \in Value
      /\ Recalculated(v)["impact"] = DerivedImpact(v)
      /\ \A f \in Field : f # "impact" => Recalculated(v)[f] = v[f]
  BY <1>1, FieldNames DEF Recalculated, Value
<1>3. Entity(v) = Recalculated(v)
  BY DEF Entity, Recalculated
<1>4. DerivedImpact(Recalculated(v)) = DerivedImpact(v)
  <2>1. \A d \in Dimension : Recalculated(v)[d] = v[d]
    BY <1>2, FieldNames
  <2>2. CASE SetDimensions(Recalculated(v)) # {}
    BY <1>2, <2>1, <2>2, SameDimensions
  <2>3. CASE SetDimensions(Recalculated(v)) = {}
    BY <1>2, <2>3 DEF DerivedImpact
  <2> QED
    BY <2>2, <2>3
<1>5. Recalculated(Recalculated(v)) = Recalculated(v)
  <2> DEFINE w == Recalculated(v)
  <2>1. w \in [Field -> Anything] /\ w["impact"] = DerivedImpact(w)
    BY <1>2, <1>4 DEF Value
  <2>2. [w EXCEPT !["impact"] = DerivedImpact(w)] = w
    <3> HIDE DEF w
    <3> QED
      BY <2>1
  <2> QED
    BY <2>2 DEF Recalculated
<1> QED
  BY <1>2, <1>3, <1>5

LEMMA EditedValue ==
    ASSUME NEW v \in Value, NEW e, DOMAIN e \subseteq Field,
           \A f \in DOMAIN e : e[f] \in ValuesOf(f)
    PROVE  Edited(v, e) \in Value
BY FieldNames DEF Edited, Value

LEMMA DeletedValue ==
    ASSUME NEW v \in Value
    PROVE  /\ Deleted(v) \in Value
           /\ v = Recalculated(v) => Deleted(v) = Recalculated(Deleted(v))
<1>1. /\ Deleted(v) \in Value
      /\ \A f \in Field : f # "status" => Deleted(v)[f] = v[f]
  BY FieldNames DEF Deleted, Value, Status
<1>2. ASSUME v = Recalculated(v)
      PROVE  Deleted(v) = Recalculated(Deleted(v))
  <2> DEFINE w == Deleted(v)
  <2>1. DerivedImpact(w) = DerivedImpact(v)
    BY <1>1, FieldNames, SameDimensions
  <2>2. v["impact"] = DerivedImpact(v)
    BY <1>2, RecalculatedValue
  <2>3. w["impact"] = DerivedImpact(w) /\ w \in [Field -> Anything]
    BY <1>1, <2>1, <2>2, FieldNames DEF Value
  <2>4. [w EXCEPT !["impact"] = DerivedImpact(w)] = w
    <3> HIDE DEF w
    <3> QED
      BY <2>3
  <2> QED
    BY <2>4 DEF Recalculated
<1> QED
  BY <1>1, <1>2

\* A merge keeps the server's side of the fields that were not chosen.
LEMMA MergedValue ==
    ASSUME NEW mine \in Value, NEW theirs \in Value, NEW chosen \in SUBSET Field,
           NEW c, c.mine = mine, c.copy.val = theirs
    PROVE  LET m == Merged(c, chosen)
           IN  /\ m \in Value /\ m = Recalculated(m)
               /\ \A f \in Field : f # "impact" => m[f] \in {mine[f], theirs[f]}
               /\ theirs = Recalculated(theirs) =>
                    \A f \in Field :
                        \/ f \in chosen
                        \/ f = "impact" /\ chosen \cap Dimension # {}
                        \/ m[f] = theirs[f]
<1> DEFINE g == [f \in Field |-> IF f \in chosen THEN mine[f] ELSE theirs[f]]
           m == Merged(c, chosen)
<1>1. g \in Value
  BY DEF Value
<1>2. m = Entity(g)
  BY DEF Merged
<1>3. \A f \in Field : g[f] = IF f \in chosen THEN mine[f] ELSE theirs[f]
  OBVIOUS
<1> HIDE DEF g, m
<1>4. /\ m \in Value /\ m = Recalculated(m) /\ m["impact"] = DerivedImpact(g)
      /\ \A f \in Field : f # "impact" => m[f] = g[f]
  BY <1>1, <1>2, RecalculatedValue
<1>5. ASSUME theirs = Recalculated(theirs), "impact" \notin chosen,
             chosen \cap Dimension = {}
      PROVE  m["impact"] = theirs["impact"]
  <2>1. /\ \A d \in Dimension : g[d] = theirs[d]
        /\ g["impact"] = theirs["impact"]
    BY <1>3, <1>5, FieldNames
  <2>2. DerivedImpact(g) = DerivedImpact(theirs)
    BY <1>1, <2>1, SameDimensions
  <2>3. theirs["impact"] = DerivedImpact(theirs)
    BY <1>5, RecalculatedValue
  <2> QED
    BY <1>4, <2>2, <2>3
<1>6. \A f \in Field : f # "impact" => m[f] \in {mine[f], theirs[f]}
  BY <1>3, <1>4
<1>7. ASSUME theirs = Recalculated(theirs), NEW f \in Field
      PROVE  \/ f \in chosen
             \/ f = "impact" /\ chosen \cap Dimension # {}
             \/ m[f] = theirs[f]
  BY <1>3, <1>4, <1>5, <1>7
<1> QED
  BY <1>4, <1>6, <1>7 DEF m

-----------------------------------------------------------------------------
(* The figures of both sides                                               *)

LEMMA ScoreRange ==
    ASSUME NEW v \in Value
    PROVE  Score(v) \in 1..25
<1>1. v["probability"] \in 1..5 /\ v["impact"] \in 1..5
  BY FieldNames DEF Value, Figure
<1>2. PICK p \in 1..5, i \in 1..5 : p = v["probability"] /\ i = v["impact"]
  BY <1>1
<1>3. p * i \in 1..25
  <2>1. p = 1 \/ p = 2 \/ p = 3 \/ p = 4 \/ p = 5
    OBVIOUS
  <2> QED
    BY <2>1
<1> QED
  BY <1>2, <1>3 DEF Score

LEMMA SameBucket ==
    ASSUME NEW s \in 1..25
    PROVE  ClientBucket(s) = ServerBucket(s)
<1> DEFINE Names == {"0-4", "5-9", "10-14", "15-19", "20-25"}
<1>1. /\ DOMAIN Upper = Names
      /\ Upper["0-4"] = 4 /\ Upper["5-9"] = 9 /\ Upper["10-14"] = 14
      /\ Upper["15-19"] = 19 /\ Upper["20-25"] = MAX_SCORE
  BY DEF Upper
<1> DEFINE IsFirst(b) == /\ s <= Upper[b]
                         /\ \A c \in Names : s <= Upper[c] => Upper[b] <= Upper[c]
<1>2. ServerBucket(s) \in Names /\ IsFirst(ServerBucket(s))
  BY <1>1 DEF ServerBucket, MAX_SCORE
<1>3. ASSUME NEW b \in Names, NEW d \in Names, IsFirst(b), IsFirst(d)
      PROVE  b = d
  BY <1>1, <1>3 DEF MAX_SCORE
<1>4. ClientBucket(s) = CHOOSE b \in Names : IsFirst(b)
  BY <1>1 DEF ClientBucket
<1>5. ClientBucket(s) \in Names /\ IsFirst(ClientBucket(s))
  <2> HIDE DEF IsFirst, Names
  <2> QED
    BY <1>2, <1>4
<1> HIDE DEF IsFirst, Names
<1> QED
  BY <1>2, <1>3, <1>5

\* The table of the window, the report of the device and the server's SQL
\* select the same rows.
LEMMA SameMatches ==
    ASSUME NEW v \in Value, v = Recalculated(v), NEW q, IsQuery(q), Comparable(q),
           NEW mine, NEW theirs, mine.val = v, theirs.val = v,
           NEW gone \in BOOLEAN, mine.gone = gone, theirs.gone = gone,
           Owner \cap {"any", "unassigned"} = {}
    PROVE  /\ ClientMatches(mine, q) <=> ServerMatches(theirs, Params(q))
           /\ ClientMatches(mine, Criteria(Params(q))) <=>
                ServerMatches(theirs, Params(q))
<1>1. PICK s \in 1..25 : s = Score(v)
  BY ScoreRange
<1>2. Entity(v) = v /\ v["identified_at"] \in Nat
  BY RecalculatedValue, FieldNames DEF Value
<1>3. PICK lo \in 0..99, hi \in 1..99 :
        lo <= hi /\ lo = ScoreBounds(q).low /\ hi = ScoreBounds(q).high
  <2>1. PICK a \in 0..99, b \in 0..99 : a = q.min /\ b = q.max
    BY DEF IsQuery, SpinBox
  <2>2. ScoreBounds(q) = IF a > b THEN [low |-> b, high |-> a]
                         ELSE [low |-> a, high |-> b]
    BY <2>1 DEF ScoreBounds
  <2>3. CASE a > b
    <3>1. ScoreBounds(q).low = b /\ ScoreBounds(q).high = a
      BY <2>2, <2>3
    <3> QED
      BY <2>3, <3>1
  <2>4. CASE ~(a > b)
    <3>1. ScoreBounds(q).low = a /\ ScoreBounds(q).high = b
      BY <2>2, <2>4
    <3>2. b > 0
      BY <3>1 DEF Comparable
    <3> QED
      BY <2>4, <3>1, <3>2
  <2> QED
    BY <2>3, <2>4
<1> DEFINE p == Params(q)
<1>4. /\ p.min = (IF lo > 0 THEN lo ELSE -1) /\ p.max = (IF hi < 25 THEN hi ELSE -1)
      /\ p.status = q.status /\ p.owner = q.owner /\ p.from = q.from /\ p.to = q.to
  BY <1>3 DEF Params, IsQuery, MAX_SCORE_UI
<1>5. Normalized(p) = p
  BY <1>3, <1>4 DEF Normalized
<1> DEFINE c == Criteria(p)
<1>6. /\ c.min = lo /\ c.max = (IF hi < 25 THEN hi ELSE MAX_SCORE)
      /\ c.status = q.status /\ c.owner = q.owner /\ c.from = q.from /\ c.to = q.to
  BY <1>3, <1>4 DEF Criteria, Params, IsQuery, MAX_SCORE_UI
<1>7. ScoreBounds(c).low = lo /\ ScoreBounds(c).high = c.max
  BY <1>3, <1>6 DEF ScoreBounds, MAX_SCORE
<1>8. q.status \in Status \cup {"any"} /\ q.status # "deleted"
      /\ q.owner \in Owner \cup {"any", "unassigned"} /\ q.from \in Nat /\ q.to \in Nat
  BY DEF IsQuery, Comparable
<1> DEFINE status == q.status = "any" \/ v["status"] = q.status
           owner == OwnerMatches(v, q)
           dates == IdentifiedBetween(v, q)
           score == lo <= s /\ s <= hi
<1>9. ClientMatches(mine, q) <=> ~gone /\ score /\ status /\ owner /\ dates
  BY <1>1, <1>2, <1>3 DEF ClientMatches
<1>10. ClientMatches(mine, c) <=> ~gone /\ score /\ status /\ owner /\ dates
  <2>1. OwnerMatches(v, c) <=> owner
    BY <1>6 DEF OwnerMatches
  <2>2. IdentifiedBetween(v, c) <=> dates
    BY <1>6 DEF IdentifiedBetween
  <2>3. (ScoreBounds(c).low <= s /\ s <= ScoreBounds(c).high) <=> score
    BY <1>3, <1>6, <1>7 DEF MAX_SCORE
  <2>4. (c.status = "any" \/ v["status"] = c.status) <=> status
    BY <1>6
  <2> HIDE DEF c, status, owner, dates, score
  <2> QED
    BY <1>1, <1>2, <2>1, <2>2, <2>3, <2>4 DEF ClientMatches
<1>11. ServerMatches(theirs, p) <=> ~gone /\ score /\ status /\ owner /\ dates
  <2>1. InDateRange(v["identified_at"], p) <=> dates
    BY <1>2, <1>4, <1>8 DEF InDateRange, IdentifiedBetween, None
  <2>2. (/\ p.owner = "unassigned" => v["owner_user_id"] = None
         /\ p.owner \in Owner => v["owner_user_id"] = p.owner)
        <=> owner
    BY <1>4, <1>8 DEF OwnerMatches
  <2>3. (/\ p.min # -1 => s >= p.min
         /\ p.max # -1 => s <= p.max)
        <=> score
    BY <1>3, <1>4
  <2>4. (IF p.status = "deleted" THEN theirs.gone
         ELSE ~theirs.gone /\ (p.status = "any" \/ v["status"] = p.status))
        <=> ~gone /\ status
    BY <1>4, <1>8
  <2> HIDE DEF p, status, owner, dates, score
  <2> QED
    BY <1>1, <1>5, <2>1, <2>2, <2>3, <2>4 DEF ServerMatches
<1> HIDE DEF p, c
<1> QED
  BY <1>9, <1>10, <1>11 DEF p, c

-----------------------------------------------------------------------------
(* Rows and entries                                                        *)

Top(rows) == Max({rows[x].seq : x \in Item} \cup {0})

LEMMA TopDef ==
    ASSUME NEW rows \in [Item -> ServerRow], NEW n \in Nat,
           \A x \in Item : rows[x].seq <= n
    PROVE  /\ Top(rows) \in Nat /\ Top(rows) <= n
           /\ \A x \in Item : rows[x].seq <= Top(rows)
           /\ Top(rows) # 0 => \E x \in Item : rows[x].seq = Top(rows)
<1> DEFINE S == {rows[x].seq : x \in Item} \cup {0}
<1>1. S \in SUBSET Nat /\ S # {} /\ \A s \in S : s <= n
  BY DEF ServerRow
<1>2. Max(S) \in S /\ \A s \in S : s <= Max(S)
  <2> HIDE DEF S
  <2> QED
    BY <1>1, LargestNumber
<1>3. Top(rows) = Max(S)
  BY DEF Top
<1> QED
  BY <1>1, <1>2, <1>3

LEMMA LastSeqDef ==
    ASSUME Types, Numbered
    PROVE  /\ LastSeq \in Nat /\ LastSeq <= MaxWrites
           /\ \A x \in Item : srv[x].seq <= LastSeq
<1>1. LastSeq = Top(srv)
  BY DEF LastSeq, Top
<1>2. srv \in [Item -> ServerRow] /\ \A x \in Item : srv[x].seq <= MaxWrites
  BY DEF Types, Numbered
<1>3. MaxWrites \in Nat
  BY CenterAssumption
<1> QED
  BY <1>1, <1>2, <1>3, TopDef

LEMMA StartValue ==
    ASSUME NEW x \in Item
    PROVE  Start[x] \in Value /\ Start[x] = Recalculated(Start[x])
BY CenterAssumption, ValueDef

LEMMA NoEntryDef ==
    ASSUME NEW x \in Item
    PROVE  /\ NoEntry(x) \in Entry
           /\ NoEntry(x).state = "none" /\ NoEntry(x).op = "upsert"
           /\ NoEntry(x).mine = Start[x] /\ NoEntry(x).merged = FALSE
<1>1. [val |-> Start[x], ver |-> 0, gone |-> FALSE] \in Row
  BY StartValue DEF Row
<1> QED
  BY <1>1, StartValue DEF NoEntry, Entry, Op

LEMMA PendingDef ==
    ASSUME NEW x \in Item, NEW op \in Op, NEW mine \in Value, NEW base \in Nat
    PROVE  /\ Pending(x, op, mine, base) \in Entry
           /\ Pending(x, op, mine, base).state = "pending"
           /\ Pending(x, op, mine, base).op = op
           /\ Pending(x, op, mine, base).mine = mine
           /\ Pending(x, op, mine, base).base = base
           /\ ~Pending(x, op, mine, base).merged
<1> DEFINE n == NoEntry(x)
<1>1. n \in Entry /\ n.merged = FALSE
  BY NoEntryDef
<1> HIDE DEF n
<1>2. Pending(x, op, mine, base) =
        [n EXCEPT !.state = "pending", !.op = op, !.mine = mine, !.base = base]
  BY DEF Pending, n
<1> QED
  BY <1>1, <1>2 DEF Entry

MergedEntry(x, mine, base, chosen) ==
    [Pending(x, "upsert", mine, base) EXCEPT !.merged = TRUE, !.chosen = chosen]

LEMMA MergedEntryDef ==
    ASSUME NEW x \in Item, NEW mine \in Value, NEW base \in Nat,
           NEW chosen \in SUBSET Field
    PROVE  /\ MergedEntry(x, mine, base, chosen) \in Entry
           /\ MergedEntry(x, mine, base, chosen).state = "pending"
           /\ MergedEntry(x, mine, base, chosen).op = "upsert"
           /\ MergedEntry(x, mine, base, chosen).mine = mine
           /\ MergedEntry(x, mine, base, chosen).base = base
           /\ MergedEntry(x, mine, base, chosen).chosen = chosen
<1>0. PICK op \in Op : op = "upsert"
  BY DEF Op
<1> DEFINE n == Pending(x, op, mine, base)
<1>1. /\ n \in Entry /\ n.state = "pending" /\ n.op = "upsert"
      /\ n.mine = mine /\ n.base = base
  BY <1>0, PendingDef
<1> HIDE DEF n
<1>2. LET e == [n EXCEPT !.merged = TRUE, !.chosen = chosen]
      IN  /\ e \in Entry /\ e.state = "pending" /\ e.op = "upsert"
          /\ e.mine = mine /\ e.base = base /\ e.chosen = chosen
  BY <1>1 DEF Entry
<1> QED
  BY <1>0, <1>2 DEF n, MergedEntry

LEMMA CopyDef ==
    ASSUME Types, NEW x \in Item
    PROVE  /\ Copy(x) \in Row /\ Copy(x).val = srv[x].val
           /\ Copy(x).ver = srv[x].ver /\ Copy(x).gone = srv[x].gone
<1>1. srv[x] \in ServerRow
  BY DEF Types
<1> QED
  BY <1>1 DEF Copy, Row, ServerRow

-----------------------------------------------------------------------------
(* What a step leaves alone                                                *)

\* The server's row of x is the same or a newer one.
Newer(x) == srv'[x] = srv[x] \/ srv'[x].ver > srv[x].ver

LEMMA WasRowStays ==
    ASSUME Types, Types', NEW x \in Item, NEW k \in Row, WasRow(x, k), Newer(x)
    PROVE  WasRow(x, k)'
<1>1. PICK m \in Nat, n \in Nat, j \in Nat :
        m = srv[x].ver /\ n = srv'[x].ver /\ j = k.ver
  BY DEF Types, ServerRow, Row
<1>2. CASE srv'[x] = srv[x]
  BY <1>2 DEF WasRow, Copy
<1>3. CASE n > m
  BY <1>1, <1>3 DEF WasRow
<1> QED
  BY <1>1, <1>2, <1>3 DEF Newer

LEMMA ItemStays ==
    ASSUME Types, Types', NEW x \in Item, ItemSound(x),
           srv'[x] = srv[x], row'[x] = row[x], entry'[x] = entry[x], mark' <= mark
    PROVE  ItemSound(x)'
<1>1. Untouched(x)'
  BY DEF ItemSound, Untouched
<1>2. Current(x)'
  <2>1. srv[x].seq \in Nat /\ mark \in Nat /\ mark' \in Nat
    BY DEF Types, ServerRow
  <2>2. srv[x].seq <= mark' => srv[x].seq <= mark
    BY <2>1
  <2> QED
    BY <2>2 DEF ItemSound, Current, Copy
<1>3. entry'[x].state = "conflict" => WasRow(x, entry[x].copy)'
  BY DEF ItemSound, WasRow, Copy
<1>4. MergeSound(x)'
  BY DEF ItemSound, MergeSound, Composed
<1> QED
  BY <1>1, <1>2, <1>3, <1>4 DEF ItemSound

\* A server's write, seen from the device.
LEMMA ItemBehind ==
    ASSUME Types, Types', NEW x \in Item, ItemSound(x),
           srv'[x].ver > srv[x].ver, srv'[x].seq > mark,
           row'[x] = row[x], entry'[x] = entry[x], mark' = mark
    PROVE  ItemSound(x)'
<1>1. PICK m \in Nat, n \in Nat, j \in Nat, s \in Nat :
        m = srv[x].ver /\ n = srv'[x].ver /\ j = entry[x].base /\ s = srv'[x].seq
  BY DEF Types, ServerRow, Entry
<1>2. s # 0 /\ ~(s <= mark) /\ mark \in Nat
  BY <1>1 DEF Types
<1>3. Untouched(x)' /\ Current(x)'
  BY <1>1, <1>2 DEF Untouched, Current
<1>4. (entry[x].state = "conflict" => WasRow(x, entry[x].copy))'
  <2>1. entry[x].copy \in Row
    BY DEF Types, Entry
  <2>2. CASE entry[x].state = "conflict"
    <3>1. WasRow(x, entry[x].copy) /\ Newer(x)
      BY <2>2 DEF ItemSound, Newer
    <3>2. entry'[x].copy = entry[x].copy
      OBVIOUS
    <3>3. PICK k \in Row : k = entry[x].copy
      BY <2>1
    <3>4. WasRow(x, k)'
      BY <3>1, <3>3, WasRowStays
    <3> QED
      BY <3>2, <3>3, <3>4 DEF WasRow, Copy
  <2> QED
    BY <2>2
<1>5. MergeSound(x)'
  <2>1. CASE entry[x].merged
    <3>1. j <= m
      BY <1>1, <2>1 DEF ItemSound, MergeSound
    <3>2. j <= n /\ j # n
      BY <1>1, <3>1
    <3> QED
      BY <1>1, <2>1, <3>2 DEF ItemSound, MergeSound
  <2>2. CASE ~entry[x].merged
    BY <2>2 DEF MergeSound
  <2> QED
    BY <2>1, <2>2
<1> QED
  BY <1>3, <1>4, <1>5 DEF ItemSound

\* The rows of the dialog whose conflicts are left alone stay right.
LEMMA DialogStays ==
    ASSUME Types, Types', Dialog, shown' \subseteq shown,
           \A c \in shown' : Newer(c.item) /\ entry'[c.item] = entry[c.item]
    PROVE  Dialog'
<1>1. ASSUME NEW c \in shown'
      PROVE  ShownSound(c)'
  <2>1. PICK x \in Item, k \in Row : x = c.item /\ k = c.copy
    BY <1>1 DEF Types, Detail
  <2>2. ShownSound(c) /\ Newer(x) /\ entry'[x] = entry[x]
    BY <1>1, <2>1 DEF Dialog
  <2>3. WasRow(x, k)
    BY <2>1, <2>2 DEF ShownSound
  <2>4. WasRow(x, k)'
    BY <2>2, <2>3, WasRowStays
  <2> QED
    BY <2>1, <2>2, <2>4 DEF ShownSound, WasRow, Copy
<1>2. \A c, d \in shown' : c.item = d.item => c = d
  BY DEF Dialog
<1> QED
  BY <1>1, <1>2 DEF Dialog

-----------------------------------------------------------------------------
(* The steps                                                               *)

\* A write of the server.
LEMMA WriteDef ==
    ASSUME IInv, NEW x \in Item, NEW v \in Value, v = Recalculated(v),
           NEW gone \in BOOLEAN, LastSeq < MaxWrites, srv' = Write(x, v, gone)
    PROVE  /\ srv' \in [Item -> ServerRow]
           /\ \A y \in Item : y # x => srv'[y] = srv[y]
           /\ srv'[x].val = v /\ srv'[x].gone = gone
           /\ srv'[x].ver > srv[x].ver /\ srv'[x].seq > mark
           /\ mark' = mark => Numbered'
           /\ Derived'
<1>1. PICK n \in Nat : n = LastSeq
  BY LastSeqDef DEF IInv
<1>2. PICK m \in Nat : m = srv[x].ver
  BY DEF IInv, Types, ServerRow
<1> DEFINE r == [val |-> v, ver |-> m + 1, gone |-> gone, seq |-> n + 1]
<1>3. /\ r \in ServerRow /\ r.val = v /\ r.gone = gone
      /\ r.ver = m + 1 /\ r.seq = n + 1
  BY DEF ServerRow
<1>4. srv' = [srv EXCEPT ![x] = r] /\ srv \in [Item -> ServerRow]
  BY <1>1, <1>2 DEF Write, IInv, Types
<1> HIDE DEF r
<1>5. /\ srv' \in [Item -> ServerRow] /\ srv'[x] = r
      /\ \A y \in Item : y # x => srv'[y] = srv[y]
  BY <1>3, <1>4
<1>6. /\ mark \in Nat /\ mark <= n /\ n < MaxWrites /\ MaxWrites \in Nat
      /\ \A y \in Item : srv[y].seq <= n /\ srv[y].seq \in Nat
  BY <1>1, LastSeqDef, CenterAssumption DEF IInv, Types, Numbered, ServerRow
<1>7. m + 1 > m /\ n + 1 > mark
  BY <1>6
<1>8. \A y \in Item : srv'[y].seq <= n + 1 /\ srv'[y].seq \in Nat
  BY <1>3, <1>5, <1>6
<1>9. LastSeq' = n + 1
  <2>1. LastSeq' = Top(srv')
    BY DEF LastSeq, Top
  <2>2. n + 1 \in Nat
    OBVIOUS
  <2>3. /\ Top(srv') \in Nat /\ Top(srv') <= n + 1
        /\ \A y \in Item : srv'[y].seq <= Top(srv')
    BY <1>5, <1>8, <2>2, TopDef
  <2>4. n + 1 <= Top(srv')
    BY <1>3, <1>5, <2>3
  <2> QED
    BY <2>1, <2>2, <2>3, <2>4
<1>10. mark' = mark => Numbered'
  BY <1>6, <1>8, <1>9 DEF Numbered
<1>11. Derived'
  BY <1>3, <1>5 DEF IInv, Derived
<1> QED
  BY <1>2, <1>3, <1>5, <1>7, <1>10, <1>11

\* Nothing but the server's row of x changes.
LEMMA RemoteStep ==
    ASSUME IInv, NEW x \in Item, NEW v \in Value, v = Recalculated(v),
           NEW gone \in BOOLEAN, LastSeq < MaxWrites, srv' = Write(x, v, gone),
           UNCHANGED <<row, entry, mark, shown, saves>>
    PROVE  IInv'
<1>1. /\ srv' \in [Item -> ServerRow]
      /\ \A y \in Item : y # x => srv'[y] = srv[y]
      /\ srv'[x].ver > srv[x].ver /\ srv'[x].seq > mark
      /\ Numbered' /\ Derived'
  BY WriteDef
<1>2. Types /\ Types' /\ mark' <= mark
  BY <1>1 DEF IInv, Types
<1>3. ASSUME NEW y \in Item
      PROVE  ItemSound(y)'
  <2>1. ItemSound(y)
    BY DEF IInv
  <2>2. CASE y = x
    BY <1>1, <1>2, <2>1, <2>2, ItemBehind
  <2>3. CASE y # x
    BY <1>1, <1>2, <2>1, <2>3, ItemStays
  <2> QED
    BY <2>2, <2>3
<1>4. Dialog'
  <2>1. \A c \in shown' : c.item \in Item
    BY <1>2 DEF Types, Detail
  <2>2. \A c \in shown' : Newer(c.item) /\ entry'[c.item] = entry[c.item]
    BY <1>1, <2>1 DEF Newer
  <2>3. Dialog /\ shown' \subseteq shown
    BY DEF IInv
  <2> QED
    BY <1>2, <2>2, <2>3, DialogStays
<1> QED
  BY <1>1, <1>2, <1>3, <1>4 DEF IInv

LEMMA RemoteSaveStep ==
    ASSUME IInv, NEW x \in Item, NEW e \in OtherEdits[x], RemoteSave(x, e)
    PROVE  IInv'
<1> DEFINE v == Recalculated(Edited(srv[x].val, e))
<1>1. srv[x].val \in Value
  BY DEF IInv, Types, ServerRow
<1>2. Edited(srv[x].val, e) \in Value
  BY <1>1, CenterAssumption, EditedValue
<1>3. v \in Value /\ v = Recalculated(v)
  BY <1>2, RecalculatedValue
<1>4. /\ LastSeq < MaxWrites /\ srv' = Write(x, v, FALSE)
      /\ UNCHANGED <<row, entry, mark, shown, saves>>
  BY DEF RemoteSave
<1> HIDE DEF v
<1> QED
  BY <1>3, <1>4, RemoteStep

LEMMA RemoteDeleteStep ==
    ASSUME IInv, NEW x \in Item, RemoteDelete(x)
    PROVE  IInv'
<1> DEFINE v == Deleted(srv[x].val)
<1>1. srv[x].val \in Value /\ srv[x].val = Recalculated(srv[x].val)
  BY DEF IInv, Types, ServerRow, Derived
<1>2. v \in Value /\ v = Recalculated(v)
  BY <1>1, DeletedValue
<1>3. /\ LastSeq < MaxWrites /\ srv' = Write(x, v, TRUE)
      /\ UNCHANGED <<row, entry, mark, shown, saves>>
  BY DEF RemoteDelete
<1> HIDE DEF v
<1> QED
  BY <1>2, <1>3, RemoteStep

\* A step of the device that changes x alone, and no server row.
LEMMA DeviceStep ==
    ASSUME IInv, NEW x \in Item, NEW r \in Row, NEW e \in Entry,
           row' = [row EXCEPT ![x] = r], entry' = [entry EXCEPT ![x] = e],
           srv' = srv, mark' \in {0, mark}, saves' \in 0..MaxSaves,
           shown' \subseteq shown, \A c \in shown' : c.item # x,
           Untouched(x)', Current(x)', MergeSound(x)',
           e.state = "conflict" => WasRow(x, e.copy)
    PROVE  IInv'
<1>1. /\ row' \in [Item -> Row] /\ row'[x] = r
      /\ entry' \in [Item -> Entry] /\ entry'[x] = e
      /\ \A y \in Item : y # x => row'[y] = row[y] /\ entry'[y] = entry[y]
  BY DEF IInv, Types
<1>2. Types /\ Types' /\ mark' <= mark
  BY <1>1 DEF IInv, Types
<1>3. Numbered'
  <2>1. LastSeq' = LastSeq /\ LastSeq \in Nat
    BY LastSeqDef DEF LastSeq, IInv
  <2> QED
    BY <2>1 DEF IInv, Types, Numbered
<1>4. Derived'
  BY DEF IInv, Derived
<1>5. ASSUME NEW y \in Item
      PROVE  ItemSound(y)'
  <2>1. CASE y = x
    <3>1. e.state = "conflict" => WasRow(x, e.copy)'
      BY DEF WasRow, Copy
    <3>2. (entry[x].state = "conflict" => WasRow(x, entry[x].copy))'
      BY <1>1, <3>1 DEF WasRow, Copy
    <3> QED
      BY <2>1, <3>2 DEF ItemSound
  <2>2. CASE y # x
    <3>1. ItemSound(y) /\ srv'[y] = srv[y]
      BY DEF IInv
    <3> QED
      BY <1>1, <1>2, <2>2, <3>1, ItemStays
  <2> QED
    BY <2>1, <2>2
<1>6. Dialog'
  <2>1. \A c \in shown' : c.item \in Item
    BY <1>2 DEF Types, Detail
  <2>2. \A c \in shown' : Newer(c.item) /\ entry'[c.item] = entry[c.item]
    BY <1>1, <2>1 DEF Newer
  <2> QED
    BY <1>2, <2>2, DialogStays DEF IInv
<1> QED
  BY <1>2, <1>3, <1>4, <1>5, <1>6 DEF IInv

\* A local write: the conflict keeps its copy, another entry is replaced.
LEMMA QueueStep ==
    ASSUME IInv, NEW x \in Item, NEW op \in Op, NEW mine \in Value, NEW r \in Row,
           NEW base \in Nat, base = row[x].ver \/ base = QueuedBase(x),
           r.ver = row[x].ver, row' = [row EXCEPT ![x] = r],
           entry' = Queue(x, op, mine, base), ~IsOpen, saves < MaxSaves,
           saves' = saves + 1, UNCHANGED <<srv, mark, shown>>
    PROVE  IInv'
<1>1. /\ entry \in [Item -> Entry] /\ row \in [Item -> Row]
      /\ shown' = {} /\ saves' \in 0..MaxSaves
  BY CenterAssumption DEF IInv, Types, IsOpen
<1>2. ItemSound(x)
  BY DEF IInv
<1>3. row'[x] = r
  BY <1>1
<1>4. CASE entry[x].state = "conflict"
  <2>1. PICK old \in Entry : old = entry[x]
    BY <1>1
  <2> DEFINE e == [old EXCEPT !.op = op, !.mine = mine]
  <2>2. /\ e \in Entry /\ e.state = old.state /\ e.copy = old.copy
        /\ e.merged = old.merged
    BY DEF Entry
  <2>3. entry' = [entry EXCEPT ![x] = e]
    BY <1>1, <1>4, <2>1 DEF Queue
  <2> HIDE DEF e
  <2>4. entry'[x] = e
    BY <1>1, <2>3
  <2>5. Untouched(x)'
    BY <1>2, <1>4 DEF ItemSound, Untouched
  <2>6. Current(x)'
    BY <1>4, <2>1, <2>2, <2>4 DEF Current
  <2>7. MergeSound(x)'
    <3>1. ~old.merged
      BY <1>2, <1>4, <2>1 DEF ItemSound, MergeSound
    <3> QED
      BY <2>2, <2>4, <3>1 DEF MergeSound
  <2>8. WasRow(x, e.copy)
    BY <1>2, <1>4, <2>1, <2>2 DEF ItemSound
  <2> QED
    BY <1>1, <2>2, <2>3, <2>5, <2>6, <2>7, <2>8, DeviceStep
<1>5. CASE entry[x].state # "conflict"
  <2>1. srv[x].seq = 0 => base = 1
    BY <1>2 DEF ItemSound, Untouched, QueuedBase
  <2> DEFINE e == Pending(x, op, mine, base)
  <2>2. e \in Entry /\ e.state = "pending" /\ e.base = base /\ ~e.merged
    BY PendingDef
  <2>3. entry' = [entry EXCEPT ![x] = e]
    BY <1>5 DEF Queue
  <2> HIDE DEF e
  <2>4. entry'[x] = e
    BY <1>1, <2>3
  <2>5. Untouched(x)'
    BY <1>2, <1>3, <2>1, <2>2, <2>4 DEF ItemSound, Untouched
  <2>6. Current(x)' /\ MergeSound(x)'
    BY <2>2, <2>4 DEF Current, MergeSound
  <2> QED
    BY <1>1, <2>2, <2>3, <2>5, <2>6, DeviceStep
<1> QED
  BY <1>4, <1>5

LEMMA SaveStep ==
    ASSUME IInv, NEW x \in Item, NEW e \in LocalEdits[x], Save(x, e)
    PROVE  IInv'
<1> DEFINE v == Entity(Edited(row[x].val, e))
<1>1. PICK old \in Row : old = row[x]
  BY DEF IInv, Types
<1>2. old.val \in Value
  BY DEF Row
<1>3. Edited(old.val, e) \in Value
  BY <1>2, CenterAssumption, EditedValue
<1>4. v \in Value
  BY <1>1, <1>3, RecalculatedValue
<1>5. /\ ~IsOpen /\ saves < MaxSaves /\ saves' = saves + 1
      /\ UNCHANGED <<srv, mark, shown>>
      /\ entry' = Queue(x, "upsert", v, row[x].ver)
      /\ row' = [row EXCEPT ![x].val = v]
  BY DEF Save
<1> HIDE DEF v
<1>0. PICK base \in Nat : base = row[x].ver
  BY <1>1 DEF Row
<1>6. PICK op \in Op : op = "upsert"
  BY DEF Op
<1> DEFINE r == [old EXCEPT !.val = v]
<1>7. r \in Row /\ r.ver = old.ver
  BY <1>4 DEF Row
<1>8. row' = [row EXCEPT ![x] = r]
  BY <1>1, <1>5
<1> HIDE DEF r
<1> QED
  BY <1>0, <1>1, <1>4, <1>5, <1>6, <1>7, <1>8, QueueStep

LEMMA DeleteStep ==
    ASSUME IInv, NEW x \in Item, Delete(x)
    PROVE  IInv'
<1>1. PICK old \in Row : old = row[x]
  BY DEF IInv, Types
<1>2. PICK v \in Value : v = row[x].val
  BY <1>1 DEF Row
<1>3. PICK op \in Op : op = "delete"
  BY DEF Op
<1>4. /\ ~IsOpen /\ saves < MaxSaves /\ saves' = saves + 1
      /\ UNCHANGED <<srv, mark, shown>>
      /\ entry' = Queue(x, op, v, QueuedBase(x))
      /\ row' = [row EXCEPT ![x].gone = TRUE]
  BY <1>2, <1>3 DEF Delete
<1>0. PICK base \in Nat : base = QueuedBase(x)
  BY DEF QueuedBase, IInv, Types, Row, Entry
<1> DEFINE r == [old EXCEPT !.gone = TRUE]
<1>5. r \in Row /\ r.ver = old.ver
  BY DEF Row
<1>6. row' = [row EXCEPT ![x] = r]
  BY <1>1, <1>4
<1> HIDE DEF r
<1> QED
  BY <1>0, <1>1, <1>4, <1>5, <1>6, QueueStep

\* What the server makes of an accepted change.
LEMMA AcceptedWrite ==
    ASSUME IInv, NEW x \in Item, PushAccepted(x)
    PROVE  \E v \in Value, gone \in BOOLEAN :
             /\ v = Recalculated(v) /\ srv' = Write(x, v, gone)
             /\ entry[x].op = "upsert" => v = Recalculated(entry[x].mine)
<1>1. srv[x] \in ServerRow /\ entry[x] \in Entry
  BY DEF IInv, Types
<1>2. /\ srv[x].val \in Value /\ srv[x].gone \in BOOLEAN
      /\ entry[x].mine \in Value /\ entry[x].op \in Op
      /\ srv[x].val = Recalculated(srv[x].val)
  BY <1>1 DEF ServerRow, Entry, IInv, Derived
<1>3. CASE entry[x].op = "delete"
  <2>1. srv' = Write(x, Deleted(srv[x].val), TRUE)
    BY <1>3 DEF PushAccepted
  <2>2. /\ Deleted(srv[x].val) \in Value
        /\ Deleted(srv[x].val) = Recalculated(Deleted(srv[x].val))
    BY <1>2, DeletedValue
  <2> QED
    BY <1>3, <2>1, <2>2
<1>4. CASE entry[x].op = "upsert"
  <2>1. srv' = Write(x, Recalculated(entry[x].mine), srv[x].gone)
    BY <1>4 DEF PushAccepted
  <2>2. PICK m \in Value : m = entry[x].mine
    BY <1>2
  <2>3. /\ Recalculated(m) \in Value
        /\ Recalculated(m) = Recalculated(Recalculated(m))
    BY RecalculatedValue
  <2> QED
    BY <1>2, <2>1, <2>2, <2>3
<1> QED
  BY <1>2, <1>3, <1>4 DEF Op

LEMMA PushAcceptedStep ==
    ASSUME IInv, NEW x \in Item, PushAccepted(x)
    PROVE  IInv'
<1>1. PICK v \in Value, gone \in BOOLEAN :
        v = Recalculated(v) /\ srv' = Write(x, v, gone)
  BY AcceptedWrite
<1>2. /\ entry[x].state = "pending" /\ LastSeq < MaxWrites
      /\ entry' = [entry EXCEPT ![x] = NoEntry(x)]
      /\ row' = [row EXCEPT ![x] = [val |-> srv'[x].val, ver |-> srv'[x].ver,
                                    gone |-> srv'[x].gone]]
      /\ UNCHANGED <<mark, shown, saves>>
  BY DEF PushAccepted
<1>3. /\ srv' \in [Item -> ServerRow]
      /\ \A y \in Item : y # x => srv'[y] = srv[y]
      /\ srv'[x].ver > srv[x].ver /\ srv'[x].seq > mark
      /\ Numbered' /\ Derived'
  BY <1>1, <1>2, WriteDef
<1> DEFINE r == [val |-> srv'[x].val, ver |-> srv'[x].ver, gone |-> srv'[x].gone]
<1>4. r \in Row /\ r = Copy(x)'
  <2>1. srv'[x] \in ServerRow
    BY <1>3
  <2> QED
    BY <2>1 DEF ServerRow, Row, Copy
<1>5. row' = [row EXCEPT ![x] = r]
  BY <1>2
<1> HIDE DEF r
<1>6. /\ row' \in [Item -> Row] /\ row'[x] = Copy(x)'
      /\ entry' \in [Item -> Entry] /\ entry'[x] = NoEntry(x)
      /\ \A y \in Item : y # x => row'[y] = row[y] /\ entry'[y] = entry[y]
  BY <1>2, <1>4, <1>5, NoEntryDef DEF IInv, Types
<1>7. Types /\ Types' /\ mark' <= mark
  BY <1>2, <1>3, <1>6 DEF IInv, Types
<1>8. ASSUME NEW y \in Item
      PROVE  ItemSound(y)'
  <2>1. CASE y = x
    <3>1. Untouched(x)'
      <4>1. srv'[x].seq # 0
        BY <1>3, <1>7 DEF Types, ServerRow
      <4> QED
        BY <4>1 DEF Untouched
    <3>2. Current(x)'
      BY <1>6 DEF Current
    <3>3. MergeSound(x)' /\ entry'[x].state # "conflict"
      BY <1>6, NoEntryDef DEF MergeSound
    <3> QED
      BY <2>1, <3>1, <3>2, <3>3 DEF ItemSound
  <2>2. CASE y # x
    <3>1. ItemSound(y)
      BY DEF IInv
    <3> QED
      BY <1>3, <1>6, <1>7, <2>2, <3>1, ItemStays
  <2> QED
    BY <2>1, <2>2
<1>9. Dialog'
  <2>1. \A c \in shown' : c.item \in Item
    BY <1>7 DEF Types, Detail
  <2>2. \A c \in shown' : c.item # x
    BY <1>2 DEF IInv, Dialog, ShownSound
  <2>3. \A c \in shown' : Newer(c.item) /\ entry'[c.item] = entry[c.item]
    BY <1>3, <1>6, <2>1, <2>2 DEF Newer
  <2>4. Dialog /\ shown' \subseteq shown
    BY <1>2 DEF IInv
  <2> QED
    BY <1>7, <2>3, <2>4, DialogStays
<1> QED
  BY <1>3, <1>7, <1>8, <1>9 DEF IInv

LEMMA PushConflictStep ==
    ASSUME IInv, NEW x \in Item, PushConflict(x)
    PROVE  IInv'
<1>1. PICK old \in Entry : old = entry[x]
  BY DEF IInv, Types
<1>2. PICK k \in Row : k = Copy(x)
  BY CopyDef DEF IInv
<1> DEFINE e == [old EXCEPT !.state = "conflict", !.copy = k, !.merged = FALSE,
                            !.chosen = {}]
<1>3. e \in Entry /\ e.state = "conflict" /\ e.copy = k /\ e.merged = FALSE
  BY DEF Entry
<1>4. /\ old.state = "pending" /\ old.base # srv[x].ver
      /\ entry' = [entry EXCEPT ![x] = e]
      /\ UNCHANGED <<srv, row, mark, shown, saves>>
  BY <1>1, <1>2 DEF PushConflict, IInv, Types
<1> HIDE DEF e
<1>5. entry'[x] = e /\ row' = [row EXCEPT ![x] = row[x]] /\ row[x] \in Row
  BY <1>4 DEF IInv, Types
<1>6. WasRow(x, k)
  BY <1>2, CopyDef DEF WasRow, IInv, Types, ServerRow
<1>7. Untouched(x)'
  <2>1. srv[x].seq # 0
    BY <1>1, <1>4 DEF IInv, ItemSound, Untouched
  <2> QED
    BY <1>4, <2>1 DEF Untouched
<1>8. Current(x)' /\ MergeSound(x)'
  BY <1>3, <1>5 DEF Current, MergeSound
<1>9. \A c \in shown : c.item # x
  BY <1>1, <1>4 DEF IInv, Dialog, ShownSound
<1>10. saves' \in 0..MaxSaves
  BY <1>4 DEF IInv, Types
<1> QED
  BY <1>3, <1>4, <1>5, <1>6, <1>7, <1>8, <1>9, <1>10, DeviceStep

LEMMA PullStep ==
    ASSUME IInv, Pull
    PROVE  IInv'
<1>1. /\ mark < LastSeq /\ mark' = LastSeq /\ UNCHANGED <<srv, shown, saves>>
      /\ row' = [x \in Item |->
                    IF srv[x].seq > mark /\ entry[x].state = "none"
                    THEN Copy(x) ELSE row[x]]
      /\ entry' = [x \in Item |->
                      IF srv[x].seq > mark /\ entry[x].state = "conflict"
                      THEN [entry[x] EXCEPT !.copy = Copy(x)] ELSE entry[x]]
  BY DEF Pull, Conflicts
<1>2. /\ Types /\ mark \in Nat /\ LastSeq \in Nat
      /\ \A x \in Item : srv[x].seq <= LastSeq /\ srv[x].seq \in Nat
  BY LastSeqDef DEF IInv, Types, ServerRow
<1>3. ASSUME NEW x \in Item
      PROVE  /\ row'[x] \in Row
             /\ entry'[x] \in Entry
             /\ entry'[x].state = entry[x].state /\ entry'[x].op = entry[x].op
             /\ entry'[x].mine = entry[x].mine
             /\ entry[x].state # "conflict" => entry'[x] = entry[x]
             /\ srv[x].seq > mark /\ entry[x].state = "none" => row'[x] = Copy(x)
             /\ ~(srv[x].seq > mark) => entry'[x] = entry[x] /\ row'[x] = row[x]
             /\ srv[x].seq > mark /\ entry[x].state = "conflict" =>
                  entry'[x].copy = Copy(x) /\ (entry'[x].merged <=> entry[x].merged)
  <2>1. PICK old \in Entry, k \in Row : old = entry[x] /\ k = Copy(x)
    BY <1>2, CopyDef DEF Types
  <2> DEFINE e == [old EXCEPT !.copy = k]
  <2>2. /\ e \in Entry /\ e.state = old.state /\ e.op = old.op
        /\ e.mine = old.mine /\ e.copy = k /\ e.merged = old.merged
    BY DEF Entry
  <2>3. entry'[x] = IF srv[x].seq > mark /\ old.state = "conflict" THEN e ELSE old
    BY <1>1, <2>1
  <2>4. row'[x] = IF srv[x].seq > mark /\ old.state = "none" THEN k ELSE row[x]
    BY <1>1, <2>1
  <2>5. row[x] \in Row
    BY <1>2 DEF Types
  <2> HIDE DEF e
  <2> QED
    BY <2>1, <2>2, <2>3, <2>4, <2>5
<1>4. Types'
  <2>1. row' \in [Item -> Row] /\ entry' \in [Item -> Entry]
    BY <1>1, <1>3
  <2> QED
    BY <1>1, <1>2, <2>1 DEF Types
<1>5. Numbered' /\ Derived'
  <2>1. LastSeq' = LastSeq
    BY <1>1 DEF LastSeq
  <2> QED
    BY <1>1, <1>2, <2>1 DEF IInv, Numbered, Derived
<1>6. ASSUME NEW x \in Item
      PROVE  ItemSound(x)'
  <2>1. ItemSound(x) /\ srv'[x] = srv[x]
    BY <1>1 DEF IInv
  <2>2. Copy(x)' = Copy(x)
    BY <1>1 DEF Copy
  <2>3. Untouched(x)'
    <3>1. srv[x].seq = 0 => ~(srv[x].seq > mark)
      BY <1>2
    <3> QED
      BY <1>3, <2>1, <3>1 DEF ItemSound, Untouched
  <2>4. Current(x)'
    <3>1. ~(srv[x].seq > mark) => srv[x].seq <= mark
      BY <1>2
    <3> QED
      BY <1>3, <2>1, <2>2, <3>1 DEF ItemSound, Current
  <2>5. (entry[x].state = "conflict" => WasRow(x, entry[x].copy))'
    <3>1. Copy(x).ver = srv[x].ver /\ srv[x].ver \in Nat
      BY <1>2, CopyDef DEF Types, ServerRow
    <3>2. CASE srv[x].seq > mark /\ entry[x].state = "conflict"
      <4>1. entry'[x].copy = Copy(x)
        BY <1>3, <3>2
      <4> QED
        BY <1>1, <2>2, <3>1, <4>1 DEF WasRow
    <3>3. CASE ~(srv[x].seq > mark)
      <4>1. entry'[x] = entry[x]
        BY <1>3, <3>3
      <4> QED
        BY <2>1, <2>2, <4>1 DEF ItemSound, WasRow
    <3> QED
      BY <1>3, <3>2, <3>3
  <2>6. MergeSound(x)'
    <3>1. CASE entry[x].state = "conflict"
      <4>1. ~entry[x].merged
        BY <2>1, <3>1 DEF ItemSound, MergeSound
      <4>2. ~entry'[x].merged
        BY <1>3, <3>1, <4>1
      <4> QED
        BY <4>2 DEF MergeSound
    <3>2. CASE entry[x].state # "conflict"
      <4>1. entry'[x] = entry[x]
        BY <1>3, <3>2
      <4> QED
        BY <2>1, <4>1 DEF ItemSound, MergeSound, Composed
    <3> QED
      BY <3>1, <3>2
  <2> QED
    BY <2>3, <2>4, <2>5, <2>6 DEF ItemSound
<1>7. ASSUME NEW c \in shown'
      PROVE  ShownSound(c)'
  <2>1. PICK x \in Item : x = c.item
    BY <1>4, <1>7 DEF Types, Detail
  <2>2. ShownSound(c)
    BY <1>1, <1>7 DEF IInv, Dialog
  <2>3. WasRow(x, c.copy)' /\ WasRow(x, c.copy)
    BY <1>1, <2>1, <2>2 DEF ShownSound, WasRow, Copy
  <2>4. entry'[x].copy.ver = c.copy.ver => entry'[x].copy = c.copy
    <3>1. Copy(x).ver = srv[x].ver
      BY <1>2, CopyDef
    <3>2. CASE srv[x].seq > mark
      <4>1. entry'[x].copy = Copy(x)
        BY <1>3, <2>1, <2>2, <3>2 DEF ShownSound
      <4> QED
        BY <2>3, <3>1, <4>1 DEF WasRow
    <3>3. CASE ~(srv[x].seq > mark)
      <4>1. entry'[x] = entry[x]
        BY <1>3, <3>3
      <4> QED
        BY <2>1, <2>2, <4>1 DEF ShownSound
    <3> QED
      BY <3>2, <3>3
  <2>5. /\ entry'[x].state = "conflict" /\ c.op = entry'[x].op
        /\ c.mine = entry'[x].mine
    BY <1>3, <2>1, <2>2 DEF ShownSound
  <2> QED
    BY <2>1, <2>3, <2>4, <2>5 DEF ShownSound
<1>8. Dialog'
  BY <1>1, <1>7 DEF IInv, Dialog
<1> QED
  BY <1>4, <1>5, <1>6, <1>8 DEF IInv

\* The dialog is opened or closed.
LEMMA WindowStep ==
    ASSUME IInv, UNCHANGED <<srv, row, entry, mark, saves>>, shown' \in SUBSET Detail,
           Dialog'
    PROVE  IInv'
<1>1. Types' /\ Types
  BY DEF IInv, Types
<1>2. Numbered' /\ Derived'
  <2>1. LastSeq' = LastSeq
    BY DEF LastSeq
  <2> QED
    BY <2>1 DEF IInv, Numbered, Derived
<1>3. ASSUME NEW x \in Item
      PROVE  ItemSound(x)'
  BY <1>1, ItemStays DEF IInv, Types
<1> QED
  BY <1>1, <1>2, <1>3 DEF IInv

LEMMA OpenCenterStep ==
    ASSUME IInv, OpenCenter
    PROVE  IInv'
<1>1. /\ UNCHANGED <<srv, row, entry, mark, saves>>
      /\ shown' = {Details(x) : x \in Conflicts}
  BY DEF OpenCenter
<1>2. ASSUME NEW x \in Conflicts
      PROVE  /\ x \in Item /\ entry[x].state = "conflict" /\ entry[x] \in Entry
             /\ Details(x) \in Detail /\ Details(x).item = x
             /\ Details(x).op = entry[x].op /\ Details(x).mine = entry[x].mine
             /\ Details(x).copy = entry[x].copy
  <2>1. x \in Item /\ entry[x].state = "conflict" /\ entry[x] \in Entry
    BY DEF Conflicts, IInv, Types
  <2> QED
    BY <2>1 DEF Details, Detail, Entry
<1>3. shown' \in SUBSET Detail
  BY <1>1, <1>2
<1>4. ASSUME NEW c \in shown'
      PROVE  ShownSound(c)'
  <2>1. PICK x \in Conflicts : c = Details(x)
    BY <1>1
  <2>2. WasRow(x, entry[x].copy)
    BY <1>2 DEF IInv, ItemSound
  <2>3. ShownSound(c)
    BY <1>2, <2>1, <2>2 DEF ShownSound
  <2> QED
    BY <1>1, <2>3 DEF ShownSound, WasRow, Copy
<1>5. Dialog'
  <2>1. \A c, d \in shown' : c.item = d.item => c = d
    BY <1>1, <1>2
  <2> QED
    BY <1>4, <2>1 DEF Dialog
<1> QED
  BY <1>1, <1>3, <1>5, WindowStep

LEMMA CloseCenterStep ==
    ASSUME IInv, CloseCenter
    PROVE  IInv'
<1>1. Dialog' /\ shown' \in SUBSET Detail
  BY DEF CloseCenter, Dialog
<1> QED
  BY <1>1, WindowStep DEF CloseCenter

\* What a decision is taken on.
LEMMA DecisionDef ==
    ASSUME IInv, NEW c \in shown, Unchanged(c)
    PROVE  /\ c.item \in Item /\ entry[c.item] \in Entry /\ row[c.item] \in Row
           /\ entry[c.item].state = "conflict" /\ entry[c.item].copy \in Row
           /\ entry[c.item].copy = c.copy /\ entry[c.item].op = c.op
           /\ entry[c.item].mine = c.mine /\ c.op \in Op /\ c.mine \in Value
           /\ WasRow(c.item, c.copy) /\ c.copy \in Row
           /\ srv[c.item].seq # 0 /\ srv[c.item].seq \in Nat
           /\ \A d \in shown \ {c} : d.item # c.item
<1>1. c \in Detail
  BY DEF IInv, Types
<1>2. c.item \in Item /\ c.op \in Op /\ c.mine \in Value /\ c.copy \in Row
  BY <1>1 DEF Detail
<1>3. /\ entry[c.item] \in Entry /\ row[c.item] \in Row
      /\ srv[c.item].seq \in Nat
  BY <1>2 DEF IInv, Types, ServerRow
<1>4. /\ entry[c.item].state = "conflict" /\ entry[c.item].copy = c.copy
      /\ entry[c.item].op = c.op /\ entry[c.item].mine = c.mine
      /\ WasRow(c.item, c.copy)
  BY DEF Unchanged, IInv, Dialog, ShownSound
<1>5. srv[c.item].seq # 0
  BY <1>2, <1>4 DEF IInv, ItemSound, Untouched
<1>6. \A d \in shown \ {c} : d.item # c.item
  BY DEF IInv, Dialog
<1> QED
  BY <1>2, <1>3, <1>4, <1>5, <1>6

LEMMA LargerVersion ==
    ASSUME NEW m \in Nat, NEW n \in Nat
    PROVE  Max({m, n}) \in Nat
<1>1. PICK b \in Nat : m <= b /\ n <= b
  BY m <= m + n /\ n <= m + n /\ m + n \in Nat
<1>2. {m, n} \in SUBSET Nat /\ {m, n} # {} /\ \A s \in {m, n} : s <= b
  BY <1>1
<1>3. Max({m, n}) \in {m, n}
  BY <1>2, LargestNumber
<1> QED
  BY <1>3

LEMMA KeepMineStep ==
    ASSUME IInv, NEW c \in shown, KeepMine(c)
    PROVE  IInv'
<1>1. PICK x \in Item : x = c.item
  BY DecisionDef DEF KeepMine
<1>2. /\ entry[x].op \in Op /\ entry[x].mine \in Value /\ row[x] \in Row
      /\ entry[x].copy \in Row /\ srv[x].seq # 0
      /\ \A d \in shown \ {c} : d.item # x
  BY <1>1, DecisionDef DEF KeepMine
<1>3. PICK base \in Nat : base = Max({entry[x].copy.ver, row[x].ver})
  BY <1>2, LargerVersion DEF Row
<1> DEFINE e == Pending(x, entry[x].op, entry[x].mine, base)
<1>4. e \in Entry /\ e.state = "pending" /\ ~e.merged
  BY <1>2, PendingDef
<1>5. /\ entry' = [entry EXCEPT ![x] = e] /\ shown' = shown \ {c}
      /\ UNCHANGED <<srv, row, mark, saves>>
  BY <1>1, <1>3 DEF KeepMine, Settled
<1> HIDE DEF e
<1>6. /\ entry'[x] = e /\ row' = [row EXCEPT ![x] = row[x]]
      /\ saves' \in 0..MaxSaves
  BY <1>5 DEF IInv, Types
<1>7. Untouched(x)' /\ Current(x)' /\ MergeSound(x)'
  BY <1>2, <1>4, <1>5, <1>6 DEF Untouched, Current, MergeSound
<1> QED
  BY <1>2, <1>4, <1>5, <1>6, <1>7, DeviceStep

LEMMA UseServerStep ==
    ASSUME IInv, NEW c \in shown, UseServer(c)
    PROVE  IInv'
<1>1. PICK x \in Item : x = c.item
  BY DecisionDef DEF UseServer
<1>2. /\ entry[x].copy \in Row /\ srv[x].seq # 0 /\ srv[x].seq \in Nat
      /\ \A d \in shown \ {c} : d.item # x
  BY <1>1, DecisionDef DEF UseServer
<1>3. PICK e \in Entry : e = NoEntry(x)
  BY NoEntryDef
<1>4. e.state = "none" /\ ~e.merged
  BY <1>3, NoEntryDef
<1>5. /\ entry' = [entry EXCEPT ![x] = e] /\ shown' = shown \ {c}
      /\ row' = [row EXCEPT ![x] = entry[x].copy] /\ mark' = 0
      /\ UNCHANGED <<srv, saves>>
  BY <1>1, <1>3 DEF UseServer, Settled
<1>6. entry'[x] = e /\ saves' \in 0..MaxSaves
  BY <1>5 DEF IInv, Types
<1>7. Untouched(x)' /\ MergeSound(x)'
  BY <1>2, <1>4, <1>5, <1>6 DEF Untouched, MergeSound
<1>8. Current(x)'
  BY <1>2, <1>5 DEF Current
<1> QED
  BY <1>2, <1>4, <1>5, <1>6, <1>7, <1>8, DeviceStep

\* What a merge of the stored conflict is made of.
LEMMA MergeDef ==
    ASSUME IInv, NEW c \in shown, Unchanged(c), NEW chosen \in SUBSET Field
    PROVE  LET v == Merged(Details(c.item), chosen)
           IN  /\ v \in Value /\ v = Recalculated(v)
               /\ \A f \in Field : f # "impact" => v[f] \in {c.mine[f], c.copy.val[f]}
               /\ c.copy.ver = srv[c.item].ver =>
                    \A f \in Field :
                        \/ f \in chosen
                        \/ f = "impact" /\ chosen \cap Dimension # {}
                        \/ v[f] = srv[c.item].val[f]
<1>1. /\ c.item \in Item /\ entry[c.item].copy = c.copy /\ entry[c.item].mine = c.mine
      /\ c.mine \in Value /\ c.copy \in Row /\ WasRow(c.item, c.copy)
  BY DecisionDef
<1>2. PICK x \in Item, mine \in Value, theirs \in Value :
        x = c.item /\ mine = c.mine /\ theirs = c.copy.val
  BY <1>1 DEF Row
<1> DEFINE now == Details(x)
<1>3. now.mine = mine /\ now.copy.val = theirs
  BY <1>1, <1>2 DEF Details
<1> DEFINE v == Merged(now, chosen)
<1> HIDE DEF now
<1>4. /\ v \in Value /\ v = Recalculated(v)
      /\ \A f \in Field : f # "impact" => v[f] \in {mine[f], theirs[f]}
      /\ theirs = Recalculated(theirs) =>
            \A f \in Field :
                \/ f \in chosen
                \/ f = "impact" /\ chosen \cap Dimension # {}
                \/ v[f] = theirs[f]
  BY <1>3, MergedValue
<1> HIDE DEF v
<1>5. c.copy.ver = srv[x].ver => theirs = srv[x].val
  BY <1>1, <1>2, CopyDef DEF WasRow, IInv
<1>6. srv[x].val = Recalculated(srv[x].val)
  BY DEF IInv, Derived
<1>7. c.copy.ver = srv[x].ver =>
        \A f \in Field :
            \/ f \in chosen
            \/ f = "impact" /\ chosen \cap Dimension # {}
            \/ v[f] = srv[x].val[f]
  BY <1>4, <1>5, <1>6
<1> QED
  BY <1>2, <1>4, <1>7 DEF v, now

LEMMA MergeFieldsStep ==
    ASSUME IInv, NEW c \in shown, NEW chosen \in MergeChoices(c), MergeFields(c, chosen)
    PROVE  IInv'
<1>0. chosen \in SUBSET Field /\ Unchanged(c)
  BY DEF MergeChoices, Mergeable, MergeFields
<1>1. PICK x \in Item : x = c.item
  BY <1>0, DecisionDef
<1>2. /\ entry[x].copy = c.copy /\ c.copy \in Row /\ WasRow(x, c.copy)
      /\ srv[x].seq # 0 /\ srv[x].seq \in Nat
      /\ \A d \in shown \ {c} : d.item # x
  BY <1>0, <1>1, DecisionDef
<1>3. PICK base \in Nat : base = c.copy.ver
  BY <1>2 DEF Row
<1>4. PICK v \in Value :
        /\ v = Merged(Details(x), chosen) /\ v = Recalculated(v)
        /\ base = srv[x].ver =>
              \A f \in Field :
                  \/ f \in chosen
                  \/ f = "impact" /\ chosen \cap Dimension # {}
                  \/ v[f] = srv[x].val[f]
  BY <1>0, <1>1, <1>3, MergeDef
<1> DEFINE e == MergedEntry(x, v, base, chosen)
           r == [val |-> v, ver |-> base, gone |-> FALSE]
<1>5. /\ e \in Entry /\ e.state = "pending" /\ e.op = "upsert"
      /\ e.mine = v /\ e.base = base /\ e.chosen = chosen
  BY <1>0, MergedEntryDef
<1>6. r \in Row
  BY DEF Row
<1>7. Details(x).copy.ver = base
  BY <1>2, <1>3 DEF Details
<1>8. /\ entry' = [entry EXCEPT ![x] = e] /\ row' = [row EXCEPT ![x] = r]
      /\ shown' = shown \ {c} /\ mark' = 0 /\ UNCHANGED <<srv, saves>>
  BY <1>1, <1>4, <1>7 DEF MergeFields, Settled, MergedEntry
<1> HIDE DEF e, r
<1>9. entry'[x] = e /\ saves' \in 0..MaxSaves
  BY <1>8 DEF IInv, Types
<1>10. Untouched(x)' /\ Current(x)'
  BY <1>2, <1>5, <1>8, <1>9 DEF Untouched, Current
<1>11. MergeSound(x)'
  <2>1. base <= srv[x].ver
    BY <1>2, <1>3 DEF WasRow
  <2>2. base = srv[x].ver => Composed(x)'
    BY <1>4, <1>5, <1>8, <1>9 DEF Composed
  <2> QED
    BY <1>5, <1>8, <1>9, <2>1, <2>2 DEF MergeSound
<1> QED
  BY <1>2, <1>5, <1>6, <1>8, <1>9, <1>10, <1>11, DeviceStep

-----------------------------------------------------------------------------
(* The theorems                                                            *)

LEMMA InitSound == Init => IInv
<1> SUFFICES ASSUME Init
             PROVE  IInv
  OBVIOUS
<1>1. ASSUME NEW x \in Item
      PROVE  /\ srv[x] \in ServerRow /\ row[x] \in Row /\ entry[x] = NoEntry(x)
             /\ srv[x].val = Start[x] /\ srv[x].ver = 1 /\ srv[x].seq = 0
             /\ row[x].ver = 1 /\ row[x] = Copy(x)
  BY StartValue DEF Init, ServerRow, Row, Copy
<1>2. Types
  <2>1. /\ srv = [x \in Item |-> srv[x]] /\ row = [x \in Item |-> row[x]]
        /\ entry = [x \in Item |-> entry[x]]
    BY DEF Init
  <2>2. /\ srv \in [Item -> ServerRow] /\ row \in [Item -> Row]
        /\ entry \in [Item -> Entry]
    BY <1>1, <2>1, NoEntryDef
  <2> QED
    BY <2>2, CenterAssumption DEF Init, Types
<1>3. MaxWrites \in Nat
  BY CenterAssumption
<1>4. Numbered
  <2>1. \A x \in Item : srv[x].seq <= MaxWrites
    BY <1>1, <1>3
  <2>2. LastSeq = Top(srv) /\ srv \in [Item -> ServerRow]
    BY <1>2 DEF LastSeq, Top, Types
  <2>3. LastSeq \in Nat
    BY <1>3, <2>1, <2>2, TopDef
  <2> QED
    BY <2>1, <2>3 DEF Init, Numbered
<1>5. Derived
  BY <1>1, StartValue DEF Derived
<1>6. ASSUME NEW x \in Item
      PROVE  ItemSound(x)
  <2>1. entry[x].state = "none" /\ ~entry[x].merged
    BY <1>1, NoEntryDef
  <2> QED
    BY <1>1, <2>1 DEF ItemSound, Untouched, Current, MergeSound
<1>7. Dialog
  BY DEF Init, Dialog
<1> QED
  BY <1>2, <1>4, <1>5, <1>6, <1>7 DEF IInv

LEMMA StepSound ==
    ASSUME IInv, [Next]_vars
    PROVE  IInv'
<1>1. CASE UNCHANGED vars
  <2>1. /\ UNCHANGED <<srv, row, entry, mark, saves>> /\ shown' = shown
        /\ shown' \in SUBSET Detail
    BY <1>1 DEF vars, IInv, Types
  <2>2. Dialog'
    BY <2>1 DEF IInv, Dialog, ShownSound, WasRow, Copy
  <2> QED
    BY <2>1, <2>2, WindowStep
<1>2. ASSUME NEW x \in Item, NEW e \in LocalEdits[x], Save(x, e)
      PROVE  IInv'
  BY <1>2, SaveStep
<1>3. ASSUME NEW x \in Item, Delete(x)
      PROVE  IInv'
  BY <1>3, DeleteStep
<1>4. ASSUME NEW x \in Item, NEW e \in OtherEdits[x], RemoteSave(x, e)
      PROVE  IInv'
  BY <1>4, RemoteSaveStep
<1>5. ASSUME NEW x \in Item, RemoteDelete(x)
      PROVE  IInv'
  BY <1>5, RemoteDeleteStep
<1>6. ASSUME NEW x \in Item, PushAccepted(x)
      PROVE  IInv'
  BY <1>6, PushAcceptedStep
<1>7. ASSUME NEW x \in Item, PushConflict(x)
      PROVE  IInv'
  BY <1>7, PushConflictStep
<1>8. CASE Pull
  BY <1>8, PullStep
<1>9. CASE OpenCenter
  BY <1>9, OpenCenterStep
<1>10. CASE CloseCenter
  BY <1>10, CloseCenterStep
<1>11. ASSUME NEW c \in shown, KeepMine(c)
       PROVE  IInv'
  BY <1>11, KeepMineStep
<1>12. ASSUME NEW c \in shown, UseServer(c)
       PROVE  IInv'
  BY <1>12, UseServerStep
<1>13. ASSUME NEW c \in shown, NEW chosen \in MergeChoices(c), MergeFields(c, chosen)
       PROVE  IInv'
  BY <1>13, MergeFieldsStep
<1> QED
  BY <1>1, <1>2, <1>3, <1>4, <1>5, <1>6, <1>7, <1>8, <1>9, <1>10, <1>11, <1>12, <1>13
     DEF Next

\* The device, the server and the open dialog satisfy the invariant in every
\* reachable state: a copy of a server row with the server's version is the
\* server's row (conflict_center_dialog.py, synchronization_service.py).
THEOREM InvariantHolds == Spec => []IInv
<1> QED
  BY InitSound, StepSound, PTL DEF Spec

\* The same selection, report and matrix from equal rows.
LEMMA SameFigures ==
    ASSUME IInv, \A x \in Item : row[x] = Copy(x)
    PROVE  /\ \A q \in Queries : Comparable(q) =>
                 /\ ClientTable(row, q) =
                        {x \in Item : ServerMatches(srv[x], Params(q))}
                 /\ ClientReport(row, q) = ServerReport(srv, q)
           /\ ClientMatrix(row) = ServerMatrix(srv)
<1>1. DOMAIN row = Item /\ DOMAIN srv = Item
  BY DEF IInv, Types
<1>2. ASSUME NEW x \in Item
      PROVE  /\ srv[x].val \in Value /\ srv[x].gone \in BOOLEAN
             /\ srv[x].val = Recalculated(srv[x].val)
             /\ row[x].val = srv[x].val /\ row[x].gone = srv[x].gone
             /\ Entity(row[x].val) = srv[x].val
  <2>1. srv[x].val \in Value /\ srv[x].gone \in BOOLEAN
    BY DEF IInv, Types, ServerRow
  <2>2. srv[x].val = Recalculated(srv[x].val)
    BY DEF IInv, Derived
  <2>3. row[x].val = srv[x].val /\ row[x].gone = srv[x].gone
    BY CopyDef DEF IInv
  <2> QED
    BY <2>1, <2>2, <2>3, RecalculatedValue
<1>3. ASSUME NEW q \in Queries, Comparable(q), NEW x \in Item
      PROVE  /\ ClientMatches(row[x], q) <=> ServerMatches(srv[x], Params(q))
             /\ ClientMatches(row[x], Criteria(Params(q))) <=>
                    ServerMatches(srv[x], Params(q))
  <2>1. PICK v \in Value, gone \in BOOLEAN :
          v = srv[x].val /\ v = Recalculated(v) /\ gone = srv[x].gone
    BY <1>2
  <2>2. IsQuery(q) /\ Owner \cap {"any", "unassigned"} = {}
    BY CenterAssumption
  <2>3. /\ row[x].val = v /\ srv[x].val = v
        /\ row[x].gone = gone /\ srv[x].gone = gone
    BY <1>2, <2>1
  <2> QED
    BY <1>3, <2>1, <2>2, <2>3, SameMatches
<1>4. ASSUME NEW q \in Queries, Comparable(q)
      PROVE  ClientTable(row, q) = {x \in Item : ServerMatches(srv[x], Params(q))}
  BY <1>1, <1>3, <1>4 DEF ClientTable
<1>5. ASSUME NEW q \in Queries, Comparable(q)
      PROVE  ClientReport(row, q) = ServerReport(srv, q)
  <2>1. {x \in DOMAIN row : ClientMatches(row[x], Criteria(Params(q)))} =
          {x \in DOMAIN srv : ServerMatches(srv[x], Params(q))}
    BY <1>1, <1>3, <1>5
  <2>2. [x \in DOMAIN row |-> Entity(row[x].val)] = [x \in DOMAIN srv |-> srv[x].val]
    BY <1>1, <1>2
  <2>3. ASSUME NEW x \in Item
        PROVE  ClientBucket(Score(Entity(row[x].val))) = ServerBucket(Score(srv[x].val))
    <3>1. Score(srv[x].val) \in 1..25
      BY <1>2, ScoreRange
    <3> QED
      BY <1>2, <3>1, SameBucket
  <2>4. [x \in DOMAIN row |-> ClientBucket(Score(Entity(row[x].val)))] =
          [x \in DOMAIN srv |-> ServerBucket(Score(srv[x].val))]
    BY <1>1, <2>3
  <2> QED
    BY <2>1, <2>2, <2>4 DEF ClientReport, ServerReport
<1>6. ClientMatrix(row) = ServerMatrix(srv)
  <2>1. ASSUME NEW cell \in Figure \X Figure
        PROVE  {x \in DOMAIN row :
                    LET v == Entity(row[x].val)
                    IN  ~row[x].gone /\ <<v["probability"], v["impact"]>> = cell}
               = {x \in DOMAIN srv :
                    /\ ~srv[x].gone
                    /\ <<srv[x].val["probability"], srv[x].val["impact"]>> = cell}
    BY <1>1, <1>2
  <2> QED
    BY <2>1 DEF ClientMatrix, ServerMatrix
<1> QED
  BY <1>4, <1>5, <1>6

\* When nothing is queued and everything is pulled the device has the
\* server's rows, and its table, its report and its matrix are the ones the
\* server computes in SQL (services/offline_first_facade.py,
\* core/items_crud.py); the dialog lists only conflicts.
THEOREM FiguresAreSound == Spec => []FiguresSound
<1>1. ASSUME IInv
      PROVE  TypeOK
  <2>1. ASSUME NEW x \in Item
        PROVE  /\ IsRow(srv[x]) /\ IsRow(row[x]) /\ srv[x].seq \in 0..MaxWrites
               /\ entry[x].state \in {"none", "pending", "conflict"}
               /\ entry[x].op \in {"upsert", "delete"}
               /\ IsValue(entry[x].mine)
               /\ entry[x].chosen \subseteq Field
    <3>1. srv[x] \in ServerRow /\ row[x] \in Row /\ entry[x] \in Entry
      BY <1>1 DEF IInv, Types
    <3>2. IsRow(srv[x]) /\ IsRow(row[x])
      BY <3>1, ValueDef DEF IsRow, ServerRow, Row
    <3>3. srv[x].seq \in 0..MaxWrites
      BY <1>1, <3>1, CenterAssumption DEF IInv, Numbered, ServerRow
    <3>4. /\ entry[x].state \in {"none", "pending", "conflict"}
          /\ entry[x].op \in {"upsert", "delete"}
          /\ IsValue(entry[x].mine)
          /\ entry[x].chosen \subseteq Field
      BY <3>1, ValueDef DEF Entry, Op
    <3> QED
      BY <3>2, <3>3, <3>4
  <2>2. mark \in 0..LastSeq
    BY <1>1, LastSeqDef DEF IInv, Types, Numbered
  <2>3. \A c \in shown : c.item \in Conflicts
    BY <1>1 DEF IInv, Types, Detail, Dialog, ShownSound, Conflicts
  <2>4. saves \in 0..MaxSaves
    BY <1>1 DEF IInv, Types
  <2> QED
    BY <2>1, <2>2, <2>3, <2>4 DEF TypeOK
<1>2. ASSUME IInv
      PROVE  FiguresAgree
  <2> SUFFICES ASSUME InStep
               PROVE  /\ \A x \in Item : row[x] = Copy(x)
                      /\ \A q \in Queries : Comparable(q) =>
                            /\ ClientTable(row, q) =
                                   {x \in Item : ServerMatches(srv[x], Params(q))}
                            /\ ClientReport(row, q) = ServerReport(srv, q)
                      /\ ClientMatrix(row) = ServerMatrix(srv)
    BY DEF FiguresAgree
  <2>1. \A x \in Item : row[x] = Copy(x)
    BY <1>2, LastSeqDef DEF InStep, IInv, ItemSound, Current
  <2> QED
    BY <1>2, <2>1, SameFigures
<1> QED
  BY <1>1, <1>2, InvariantHolds, PTL DEF FiguresSound

\* A decision taken in the dialog is the decision on what it displays,
\* whatever the worker and the other clients did since it was opened
\* (resolve_conflict, expected_server_version).
THEOREM DecisionsAreAsShown == Spec => DecidedAsShown
<1> DEFINE Good(c) ==
        LET x == c.item
            e == entry'[x]
            stored == row'[x]
        IN  shown' # {} \/ entry' # entry =>
              \/ /\ e.state = "pending" /\ e.op = c.op /\ e.mine = c.mine
                 /\ e.base = Max({c.copy.ver, row[x].ver})
              \/ e.state = "none" /\ stored = c.copy
              \/ /\ e.state = "pending" /\ e.base = c.copy.ver
                 /\ stored.val = e.mine
                 /\ \A f \in Field : f # "impact" =>
                       e.mine[f] \in {c.mine[f], c.copy.val[f]}
<1>1. ASSUME IInv, [Next]_vars, NEW c \in shown \ shown'
      PROVE  Good(c)
  <2>1. ASSUME NEW d \in shown, KeepMine(d)
        PROVE  Good(c)
    <3>1. d = c
      BY <2>1 DEF KeepMine, Settled
    <3>2. PICK x \in Item : x = c.item
      BY <1>1, <2>1, <3>1, DecisionDef DEF KeepMine
    <3>3. /\ entry[x].op = c.op /\ entry[x].mine = c.mine /\ entry[x].copy = c.copy
          /\ c.op \in Op /\ c.mine \in Value /\ c.copy \in Row /\ row[x] \in Row
      BY <1>1, <2>1, <3>1, <3>2, DecisionDef DEF KeepMine
    <3>4. PICK base \in Nat : base = Max({c.copy.ver, row[x].ver})
      BY <3>3, LargerVersion DEF Row
    <3>5. entry' = [entry EXCEPT ![x] = Pending(x, c.op, c.mine, base)]
      BY <2>1, <3>1, <3>2, <3>3, <3>4 DEF KeepMine
    <3>6. entry'[x] = Pending(x, c.op, c.mine, base)
      BY <1>1, <3>5 DEF IInv, Types
    <3>7. /\ entry'[x].state = "pending" /\ entry'[x].op = c.op
          /\ entry'[x].mine = c.mine /\ entry'[x].base = base
      BY <3>3, <3>6, PendingDef
    <3> QED
      BY <3>2, <3>4, <3>7
  <2>2. ASSUME NEW d \in shown, UseServer(d)
        PROVE  Good(c)
    <3>1. d = c
      BY <2>2 DEF UseServer, Settled
    <3>2. PICK x \in Item : x = c.item
      BY <1>1, <2>2, <3>1, DecisionDef DEF UseServer
    <3>3. entry[x].copy = c.copy
      BY <1>1, <2>2, <3>1, <3>2, DecisionDef DEF UseServer
    <3>4. row'[x] = c.copy /\ entry'[x] = NoEntry(x)
      BY <1>1, <2>2, <3>1, <3>2, <3>3 DEF UseServer, IInv, Types
    <3> QED
      BY <3>2, <3>4, NoEntryDef
  <2>3. ASSUME NEW d \in shown, NEW chosen \in MergeChoices(d), MergeFields(d, chosen)
        PROVE  Good(c)
    <3>1. d = c
      BY <2>3 DEF MergeFields, Settled
    <3>2. chosen \in SUBSET Field /\ Unchanged(c)
      BY <2>3, <3>1 DEF MergeChoices, Mergeable, MergeFields
    <3>3. PICK x \in Item : x = c.item
      BY <1>1, <3>2, DecisionDef
    <3>4. entry[x].copy = c.copy /\ c.copy \in Row
      BY <1>1, <3>2, <3>3, DecisionDef
    <3>5. PICK v \in Value :
            /\ v = Merged(Details(x), chosen)
            /\ \A f \in Field : f # "impact" => v[f] \in {c.mine[f], c.copy.val[f]}
      BY <1>1, <3>2, <3>3, MergeDef
    <3>6. PICK base \in Nat : base = c.copy.ver
      BY <3>4 DEF Row
    <3>7. Details(x).copy.ver = base
      BY <3>4, <3>6 DEF Details
    <3>8. /\ entry' = [entry EXCEPT ![x] = MergedEntry(x, v, base, chosen)]
          /\ row' = [row EXCEPT ![x] = [val |-> v, ver |-> base, gone |-> FALSE]]
      BY <2>3, <3>1, <3>3, <3>5, <3>7 DEF MergeFields, MergedEntry
    <3>9. entry'[x] = MergedEntry(x, v, base, chosen) /\ row'[x].val = v
      BY <1>1, <3>8 DEF IInv, Types
    <3>10. /\ entry'[x].state = "pending" /\ entry'[x].mine = v
           /\ entry'[x].base = base
      BY <3>2, <3>9, MergedEntryDef
    <3> QED
      BY <3>3, <3>5, <3>6, <3>9, <3>10
  <2>4. CASE CloseCenter
    BY <2>4 DEF CloseCenter
  <2>5. CASE OpenCenter
    BY <2>5 DEF OpenCenter, IsOpen
  <2>6. CASE shown' = shown
    BY <2>6
  <2> HIDE DEF Good
  <2> QED
    BY <1>1, <2>1, <2>2, <2>3, <2>4, <2>5, <2>6
       DEF Next, vars, Save, Delete, RemoteSave, RemoteDelete, PushAccepted,
           PushConflict, Pull
<1>2. IInv /\ [Next]_vars => \A c \in shown \ shown' : Good(c)
  BY <1>1
<1>3. IInv /\ [Next]_vars =>
        [\A c \in shown \ shown' :
            LET x == c.item
                e == entry'[x]
                stored == row'[x]
            IN  shown' # {} \/ entry' # entry =>
                  \/ /\ e.state = "pending" /\ e.op = c.op /\ e.mine = c.mine
                     /\ e.base = Max({c.copy.ver, row[x].ver})
                  \/ e.state = "none" /\ stored = c.copy
                  \/ /\ e.state = "pending" /\ e.base = c.copy.ver
                     /\ stored.val = e.mine
                     /\ \A f \in Field : f # "impact" =>
                           e.mine[f] \in {c.mine[f], c.copy.val[f]}]_vars
  BY <1>2
<1> QED
  BY <1>3, InvariantHolds, PTL DEF Spec, DecidedAsShown

\* The push that delivers a merge alters no field for which the server's
\* side was kept (merged_record, _merge).
THEOREM MergesTouchTheChosen == Spec => MergeTouchesChosen
<1>1. ASSUME IInv, [Next]_vars, NEW x \in Item, entry[x].merged,
             srv'[x] # srv[x], entry'[x] # entry[x]
      PROVE  \A f \in Field :
                 \/ f \in entry[x].chosen
                 \/ f = "impact" /\ entry[x].chosen \cap Dimension # {}
                 \/ srv'[x].val[f] = srv[x].val[f]
  <2>1. PICK y \in Item : PushAccepted(y)
    BY <1>1 DEF Next, vars, Save, Delete, RemoteSave, RemoteDelete,
                PushConflict, Pull, OpenCenter, CloseCenter, KeepMine, UseServer,
                MergeFields
  <2>2. entry' = [entry EXCEPT ![y] = NoEntry(y)] /\ entry \in [Item -> Entry]
    BY <1>1, <2>1 DEF PushAccepted, IInv, Types
  <2>3. y = x
    BY <1>1, <2>2
  <2>4. /\ entry[x].op = "upsert" /\ entry[x].base = srv[x].ver /\ Composed(x)
        /\ LastSeq < MaxWrites
    BY <1>1, <2>1, <2>3 DEF PushAccepted, IInv, ItemSound, MergeSound
  <2>5. PICK v \in Value, gone \in BOOLEAN :
          /\ v = Recalculated(v) /\ srv' = Write(x, v, gone)
          /\ v = Recalculated(entry[x].mine)
    BY <1>1, <2>1, <2>3, <2>4, AcceptedWrite
  <2>6. srv'[x].val = v
    BY <1>1, <2>4, <2>5, WriteDef
  <2> QED
    BY <2>4, <2>5, <2>6 DEF Composed
<1>2. IInv /\ [Next]_vars =>
        [\A x \in Item :
            (entry[x].merged /\ srv'[x] # srv[x] /\ entry'[x] # entry[x]) =>
               \A f \in Field :
                  \/ f \in entry[x].chosen
                  \/ f = "impact" /\ entry[x].chosen \cap Dimension # {}
                  \/ srv'[x].val[f] = srv[x].val[f]]_vars
  BY <1>1
<1> QED
  BY <1>2, InvariantHolds, PTL DEF Spec, MergeTouchesChosen

=============================================================================
