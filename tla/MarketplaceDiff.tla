---------------------------- MODULE MarketplaceDiff ----------------------------
(***************************************************************************)
(* diff/marketplace.rs.  The substance of a document is its data object: a *)
(* function from the names of its collections, each a record that is an    *)
(* array (rows, a sequence) or an object (fields).  volatile is meta.  An  *)
(* id of the delta is <<name>> or <<name, row id>>.                        *)
(***************************************************************************)
EXTENDS Diff

(* Three of the fields that reflect an authorization event. *)
MaterialFields == {"status", "auth_type", "impact_level"}

Unkeyed == {"ReuseMapping"}

IsArray(collection) == collection # Missing /\ "rows" \in DOMAIN collection

Rows(collection) == IF IsArray(collection) THEN collection.rows ELSE <<>>

Ids(rows) == {Get(rows[i], "id") : i \in DOMAIN rows}

UniquelyKeyed(rows) ==
    /\ Missing \notin Ids(rows)
    /\ Cardinality(Ids(rows)) = Len(rows)

Keyed(name, rows) ==
    Collected([i \in DOMAIN rows |-> <<<<name, Get(rows[i], "id")>>, rows[i]>>])

Copies(rows, row) == Cardinality({i \in DOMAIN rows : rows[i] = row})

(* The rows of one side that the other has no copy of, counted. *)
Surplus(rows, other) ==
    LET distinct == {rows[i] : i \in DOMAIN rows}
        Excess(row) ==
            IF Copies(rows, row) > Copies(other, row)
            THEN Copies(rows, row) - Copies(other, row) ELSE 0
    IN  Cardinality(UNION {{row} \X (1..Excess(row)) : row \in distinct})

DiffMultiset(name, old, new) ==
    [NoDelta EXCEPT !.counts =
        [c \in {k \in {<<name, "rows_added">>, <<name, "rows_removed">>} :
                   IF k[2] = "rows_added" THEN Surplus(new, old) > 0 ELSE Surplus(old, new) > 0}
           |-> IF c[2] = "rows_added" THEN Surplus(new, old) ELSE Surplus(old, new)]]

DiffCollection(name, old, new) ==
    CASE name \in Unkeyed -> DiffMultiset(name, old, new)
      [] name \notin Unkeyed /\ ~UniquelyKeyed(new) ->
            [DiffMultiset(name, old, new) EXCEPT
                !.drift = IF new = <<>> THEN {} ELSE {<<"multiset", name>>}]
      [] OTHER -> CompareMaps(Keyed(name, old), Keyed(name, new), MaterialFields)

DiffOpaque(name, old, new) ==
    CASE old = new     -> NoDelta
      [] old = Missing -> [NoDelta EXCEPT !.added = {<<name>>}]
      [] new = Missing -> [NoDelta EXCEPT !.removed = {<<name>>}]
      [] OTHER         -> [NoDelta EXCEPT !.modified =
                              [n \in {<<name>>} |->
                                 IF IsArray(old) \/ IsArray(new) THEN {"(value)"}
                                 ELSE FieldChanges(old.fields, new.fields)]]

(* One collection: keyed or counted when both sides are arrays or absent. *)
DiffOf(name, before, after) ==
    LET old == Get(before.substance, name)
        new == Get(after.substance, name)
    IN  IF /\ IsArray(old) \/ IsArray(new)
           /\ \A c \in {old, new} : IsArray(c) \/ c = Missing
        THEN DiffCollection(name, Rows(old), Rows(new))
        ELSE DiffOpaque(name, old, new)

Compared(before, after) ==
    LET names  == DOMAIN before.substance \cup DOMAIN after.substance
        deltas == [n \in names |-> DiffOf(n, before, after)]
        Where(id) == CHOOSE n \in names : id \in DOMAIN deltas[n].modified
        Which(c)  == CHOOSE n \in names : c \in DOMAIN deltas[n].counts
    IN  [added      |-> UNION {deltas[n].added : n \in names},
         removed    |-> UNION {deltas[n].removed : n \in names},
         modified   |-> [id \in UNION {DOMAIN deltas[n].modified : n \in names}
                           |-> deltas[Where(id)].modified[id]],
         highlights |-> UNION {deltas[n].highlights : n \in names},
         drift      |-> UNION {deltas[n].drift : n \in names},
         counts     |-> [c \in UNION {DOMAIN deltas[n].counts : n \in names}
                           |-> deltas[Which(c)].counts[c]]]

Product(id) == Len(id) = 2 /\ id[1] = "Products"

(* Mutant of SeverityOf: a product that is gone is routine movement. *)
SeverityOfArrivals(before, after) ==
    LET delta == Compared(before, after)
    IN  CASE IsEmpty(delta) -> None
          [] ~IsEmpty(delta) /\ ((\E id \in delta.added : Product(id)) \/ delta.highlights # {})
                -> Minor
          [] OTHER -> Routine

(* classify: a product that came or went, or a material field, is Minor. *)
SeverityOf(before, after) ==
    LET delta == Compared(before, after)
    IN  CASE IsEmpty(delta) -> None
          [] /\ ~IsEmpty(delta)
             /\ (\E id \in delta.added \cup delta.removed : Product(id)) \/ delta.highlights # {}
                -> Minor
          [] OTHER -> Routine
=============================================================================
