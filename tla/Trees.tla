--------------------------------- MODULE Trees ---------------------------------
(***************************************************************************)
(* The recursion of the two diffs that descend into a document of any      *)
(* depth: collect of diff/oscal.rs and walk of diff/schemas.rs.  Both      *)
(* visit the document depth first and push what they find onto one list,   *)
(* or insert it into one map; here what is found is unfolded round by      *)
(* round, each one level deeper, and the order of the visit is that of the *)
(* places where it is found.                                               *)
(***************************************************************************)
EXTENDS Naturals, Sequences

CONSTANT MaxDepth  \* how deep a document nests: serde_json reads no deeper than 128

(* Each item is replaced by what Visit makes of it: by itself once there   *)
(* is nothing below it to visit.                                           *)
Unfolded(root, Visit(_)) ==
    LET Round[depth \in 0..MaxDepth] ==
          IF depth = 0 THEN {root} ELSE UNION {Visit(item) : item \in Round[depth - 1]}
    IN  Round[MaxDepth]

(* A place is the way down to an item, in numbers.  Depth first, an item   *)
(* is visited before what is below it and before the siblings after it.    *)
Precedes(p, q) ==
    \E i \in DOMAIN q :
        /\ \A j \in 1..(i - 1) : j \in DOMAIN p /\ p[j] = q[j]
        /\ i \in DOMAIN p => p[i] < q[i]
=============================================================================
