------------------------------ MODULE SchemasDiff ------------------------------
(***************************************************************************)
(* diff/schemas.rs: the schema files, compared down to JSON pointers.  The *)
(* substance of a document is a function from file names; a JSON value is  *)
(* a record: an object ([members |-> function]) or anything else           *)
(* ([scalar |-> value]).                                                   *)
(***************************************************************************)
EXTENDS Diff, Trees

CONSTANTS
    MaxPointers,  \* MAX_POINTERS_PER_FILE
    KeyOrder      \* the keys of all objects, in the order they are iterated

SchemaSegments == {"required", "properties", "enum", "type"}

IsObject(v) == v # Missing /\ "members" \in DOMAIN v

At(d, k) ==
    [pointer |-> Append(d.pointer, k), old |-> Get(d.old.members, k), new |-> Get(d.new.members, k)]

(* Mutant of MovedKeys: only the members of the old object are compared. *)
MovedKeysOfOld(d) == {k \in DOMAIN d.old.members : At(d, k).old # At(d, k).new}

MovedKeys(d) ==
    {k \in DOMAIN d.old.members \cup DOMAIN d.new.members : At(d, k).old # At(d, k).new}

(* walk: one pointer per difference, descending while both sides are objects. *)
Walk(d) ==
    IF IsObject(d.old) /\ IsObject(d.new) THEN {At(d, k) : k \in MovedKeys(d)} ELSE {d}

PointersOf(old, new) ==
    {d.pointer : d \in Unfolded([pointer |-> <<>>, old |-> old, new |-> new], Walk)}

(* Keys are visited in their order. *)
Place(key) == CHOOSE i \in DOMAIN KeyOrder : KeyOrder[i] = key

Placed(pointer) == [i \in DOMAIN pointer |-> Place(pointer[i])]

Truncates(pointers) == Cardinality(pointers) > MaxPointers

(* The first MaxPointers, when there are more. *)
Reported(pointers) ==
    {p \in pointers :
        Truncates(pointers) =>
            Cardinality({q \in pointers : Precedes(Placed(q), Placed(p))}) < MaxPointers}

Segments(pointer) == {pointer[i] : i \in DOMAIN pointer}

Compared(before, after) ==
    LET old   == before.substance
        new   == after.substance
        moved == {f \in DOMAIN old \cap DOMAIN new : old[f] # new[f]}
        Told(f) == Reported(PointersOf(old[f], new[f]))
        Called(f) == {p \in Told(f) : Segments(p) \cap SchemaSegments # {}}
    IN  [NoDelta EXCEPT
            !.added      = DOMAIN new \ DOMAIN old,
            !.removed    = DOMAIN old \ DOMAIN new,
            !.modified   = [f \in moved |-> Told(f)],
            !.highlights = UNION {{<<f, p>> : p \in Called(f)} : f \in moved},
            !.drift      = {<<"truncated", f>> : f \in {g \in moved : Truncates(PointersOf(old[g], new[g]))}}]

SeverityOf(before, after) == IF IsEmpty(Compared(before, after)) THEN None ELSE Major
=============================================================================
