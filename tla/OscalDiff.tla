------------------------------- MODULE OscalDiff -------------------------------
(***************************************************************************)
(* diff/oscal.rs: the 800-53 catalog, judged by the controls FedRAMP       *)
(* references.  A group or a control is a record of its text and of the    *)
(* sequences of its groups and controls.  A control id is a record: the    *)
(* form it is written in ("ctl" AC-06-01, "oscal" ac-6.1), the control,    *)
(* and the enhancement, 0 for none.                                        *)
(***************************************************************************)
EXTENDS Diff, Trees

OscalHighlights == {"title", "class"}

(* Mutant of Normalise: ids are compared as they are written. *)
AsWritten(id) == id

(* normalise_id: both forms become OSCAL's own. *)
Normalise(id) == [id EXCEPT !.form = "oscal"]

(* referenced_controls: the keys of CTL and the controls of KSI indicators. *)
InControls(sections) ==
    LET ctl == Child(sections, "CTL") IN UNION {DOMAIN ctl[f] : f \in DOMAIN ctl}

InIndicators(sections) ==
    LET ksi == Child(sections, "KSI")
        Indicators(f) == Child(ksi[f], "indicators")
        Named(indicator) ==
            IF "controls" \in DOMAIN indicator THEN indicator["controls"] ELSE {}
    IN  UNION {UNION {Named(Indicators(f)[i]) : i \in DOMAIN Indicators(f)} : f \in DOMAIN ksi}

Referenced(sections) ==
    {Normalise(id) : id \in InControls(sections) \cup InIndicators(sections)}

(* An item is a group (or the catalog), a control, or a control that has   *)
(* been listed, at its place in the catalog.                               *)
Items(place, kind, nodes) ==
    {[place |-> Append(place, i), kind |-> kind, node |-> nodes[i]] : i \in DOMAIN nodes}

(* collect: groups first, then the controls. *)
Inside(item) ==
    Items(Append(item.place, 1), "group", Child(item.node, "groups"))
    \cup Items(Append(item.place, 2), "control", Child(item.node, "controls"))

(* A control that has an id is listed, before what it contains. *)
Listing(item) ==
    IF item.kind = "control" /\ "id" \in DOMAIN item.node
    THEN {[place |-> item.place, kind |-> "listed", node |-> item.node]} ELSE {}

Visit(item) == IF item.kind = "listed" THEN {item} ELSE Inside(item) \cup Listing(item)

Collect(catalog) ==
    {item \in Unfolded([place |-> <<>>, kind |-> "group", node |-> catalog], Visit) :
        item.kind = "listed"}

(* insert(): the last control listed under an id stays. *)
FlattenCatalog(doc) ==
    LET listed == Collect(doc.substance.catalog)
        Named(id) == {item \in listed : item.node.id = id}
        Last(id) == CHOOSE item \in Named(id) :
                       \A other \in Named(id) :
                           Precedes(item.place, other.place) => other.node = item.node
    IN  [id \in {item.node.id : item \in listed} |-> Last(id).node]

(* What the catalog itself is highlighted as. *)
Revision == [form |-> "800-53 revision"]

(* The metadata names another version; "" stands for none. *)
VersionMoved(before, after) ==
    /\ before.substance.version # after.substance.version
    /\ before.substance.version # ""

Touched(delta) == delta.added \cup delta.removed \cup DOMAIN delta.modified

Compared(before, after, referenced) ==
    LET delta    == CompareMaps(FlattenCatalog(before), FlattenCatalog(after), OscalHighlights)
        relevant == Touched(delta) \cap referenced
    IN  [delta EXCEPT
            !.counts     = [controls_referenced_by_fedramp |-> Cardinality(relevant)],
            !.highlights = @ \cup {<<id, "referenced">> : id \in relevant}
                             \cup (IF VersionMoved(before, after)
                                   THEN {<<Revision, "version">>} ELSE {})]

(* Mutant of SeverityOf: a new revision is a change to act on. *)
SeverityOfRevision(before, after, referenced) ==
    LET delta == Compared(before, after, referenced)
    IN  CASE delta.highlights # {} -> Major
          [] delta.highlights = {} /\ ~IsEmpty(delta) -> Routine
          [] OTHER -> None

SeverityOf(before, after, referenced) ==
    LET delta == Compared(before, after, referenced)
    IN  CASE Touched(delta) \cap referenced # {} -> Major
          [] Touched(delta) \cap referenced = {} /\ (~IsEmpty(delta) \/ delta.highlights # {})
                -> Routine
          [] OTHER -> None
=============================================================================
