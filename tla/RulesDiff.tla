------------------------------- MODULE RulesDiff -------------------------------
(***************************************************************************)
(* diff/rules.rs: the rules document, flattened to leaves that are named   *)
(* by their path.  Of a document, substance has the version of its info    *)
(* block and its sections, and volatile is info.last_updated, which the    *)
(* projection of sources.rs strips.                                        *)
(***************************************************************************)
EXTENDS Diff

HighlightFields == {"force", "status", "effective"}

KnownSections == {"FRD", "FRR", "KSI", "CTL"}

(* A leaf for the info block of a section or a family, when it has one. *)
InfoLeaf(path, body) ==
    IF "info" \in DOMAIN body THEN {<<Append(path, "info"), body["info"]>>} ELSE {}

Leaves(path, map) == {<<Append(path, id), map[id]>> : id \in DOMAIN map}

(* FRD.data.{group}.{id} *)
FlattenFrd(body) ==
    LET data == Child(body, "data")
    IN  InfoLeaf(<<"FRD">>, body)
        \cup UNION {Leaves(<<"FRD", group>>, data[group]) : group \in DOMAIN data}

(* Mutant of FlattenFrr: the applicability is no part of a rule's identity. *)
FlattenFrrByClass(body) ==
    LET Family(f) ==
          LET data == Child(body[f], "data")
          IN  InfoLeaf(<<"FRR", f>>, body[f])
              \cup UNION {UNION {Leaves(<<"FRR", f, class>>, data[applicability][class])
                                    : class \in DOMAIN data[applicability]}
                             : applicability \in DOMAIN data}
    IN  UNION {Family(f) : f \in DOMAIN body}

(* FRR.{family}.data.{applicability}.{class}.{id} *)
FlattenFrr(body) ==
    LET Family(f) ==
          LET data == Child(body[f], "data")
          IN  InfoLeaf(<<"FRR", f>>, body[f])
              \cup UNION {UNION {Leaves(<<"FRR", f, applicability, class>>, data[applicability][class])
                                    : class \in DOMAIN data[applicability]}
                             : applicability \in DOMAIN data}
    IN  UNION {Family(f) : f \in DOMAIN body}

(* KSI.{family}.indicators.{id}; the rest of a family is its header. *)
FlattenKsi(body) ==
    UNION {{<<<<"KSI", f, "info">>, Without(body[f], {"indicators"})>>}
              \cup Leaves(<<"KSI", f>>, Child(body[f], "indicators")) : f \in DOMAIN body}

(* CTL.{family}.{control} *)
FlattenCtl(body) == UNION {Leaves(<<"CTL", f>>, body[f]) : f \in DOMAIN body}

FlattenSection(section, body) ==
    CASE section = "FRD" -> FlattenFrd(body)
      [] section = "FRR" -> FlattenFrr(body)
      [] section = "KSI" -> FlattenKsi(body)
      [] section = "CTL" -> FlattenCtl(body)
      [] OTHER -> {<<<<section>>, body>>}

Flatten(sections) ==
    LET leaves == UNION {FlattenSection(s, sections[s]) : s \in DOMAIN sections}
    IN  [path \in {leaf[1] : leaf \in leaves} |->
            (CHOOSE leaf \in leaves : leaf[1] = path)[2]]

(* Unknown sections, and known ones that are gone. *)
Drift(sections) ==
    {<<"unknown", s>> : s \in DOMAIN sections \ KnownSections}
    \cup {<<"gone", s>> : s \in KnownSections \ DOMAIN sections}

ForceOf(leaf, class) ==
    Get(Child(Child(leaf, "varies_by_class"), class), "force")

(* Mutant of HighlightPerClassForce: it looks at leaves whose own force moved. *)
HighlightOwnForce(old, new, modified) ==
    UNION {{<<id, "varies_by_class.force", class>> :
               class \in {c \in DOMAIN Child(old[id], "varies_by_class") :
                             ForceOf(old[id], c) # ForceOf(new[id], c)}}
            : id \in {i \in DOMAIN modified : "force" \in modified[i]}}

(* A force that moved inside varies_by_class is highlighted per class. *)
HighlightPerClassForce(old, new, modified) ==
    LET Classes(id) == DOMAIN Child(old[id], "varies_by_class")
                         \cup DOMAIN Child(new[id], "varies_by_class")
    IN  UNION {{<<id, "varies_by_class.force", class>> :
                  class \in {c \in Classes(id) : ForceOf(old[id], c) # ForceOf(new[id], c)}}
               : id \in {i \in DOMAIN modified : "varies_by_class" \in modified[i]}}

InfoMoved(before, after) ==
    \/ before.substance.version # after.substance.version
    \/ before.volatile # after.volatile

Compared(before, after) ==
    LET old   == Flatten(before.substance.sections)
        new   == Flatten(after.substance.sections)
        delta == CompareMaps(old, new, HighlightFields)
    IN  [delta EXCEPT
            !.highlights = @ \cup HighlightPerClassForce(old, new, delta.modified),
            !.drift      = Drift(after.substance.sections)]

(* info_fields_moved is counted after the severity is decided. *)
SeverityOf(before, after) ==
    LET delta == Compared(before, after)
    IN  CASE ~IsEmpty(delta) -> Major
          [] IsEmpty(delta) /\ InfoMoved(before, after) -> Metadata
          [] OTHER -> None
=============================================================================
