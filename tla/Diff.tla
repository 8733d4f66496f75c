--------------------------------- MODULE Diff ---------------------------------
(***************************************************************************)
(* diff/mod.rs: what the five diff strategies share.  A JSON object is a   *)
(* function from its keys; a map of a flattened document takes an id to    *)
(* the object found there.  A delta keeps what the strategies and the      *)
(* gate decide by: ids, the names of the fields that moved, highlights,    *)
(* drift notes and counts.  The values shown to a reader are left out.     *)
(***************************************************************************)
EXTENDS Severities, FiniteSets, Sequences

CONSTANT Missing  \* what get() returns for a key that an object does not have

Get(map, key) == IF key \in DOMAIN map THEN map[key] ELSE Missing

(* Like Get, for an object that is only iterated: a missing one is empty. *)
Child(map, key) == IF key \in DOMAIN map THEN map[key] ELSE <<>>

Without(map, keys) == [k \in DOMAIN map \ keys |-> map[k]]

(* collect() into a BTreeMap: a later pair replaces an earlier one.  The   *)
(* pairs need not be at consecutive places.                                *)
Collected(pairs) ==
    [k \in {pairs[i][1] : i \in DOMAIN pairs} |->
        LET last == CHOOSE i \in DOMAIN pairs :
                       pairs[i][1] = k /\ \A j \in DOMAIN pairs : pairs[j][1] = k => j <= i
        IN  pairs[last][2]]

FieldChanges(old, new) ==
    {f \in DOMAIN old \cup DOMAIN new : Get(old, f) # Get(new, f)}

NoDelta ==
    [added |-> {}, removed |-> {}, modified |-> <<>>,
     highlights |-> {}, drift |-> {}, counts |-> <<>>]

IsEmpty(delta) ==
    /\ delta.added = {} /\ delta.removed = {}
    /\ DOMAIN delta.modified = {}
    /\ \A c \in DOMAIN delta.counts : delta.counts[c] = 0

(* compare_maps: ids that came, went, or stayed with fields that moved. *)
CompareMaps(old, new, highlighted) ==
    LET stayed == {id \in DOMAIN old \cap DOMAIN new : old[id] # new[id]}
        moved  == [id \in stayed |-> FieldChanges(old[id], new[id])]
    IN  [added      |-> DOMAIN new \ DOMAIN old,
         removed    |-> DOMAIN old \ DOMAIN new,
         modified   |-> moved,
         highlights |-> UNION {{<<id, f>> : f \in moved[id] \cap highlighted} : id \in stayed},
         drift      |-> {},
         counts     |-> <<>>]
=============================================================================
