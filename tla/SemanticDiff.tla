------------------------------ MODULE SemanticDiff ------------------------------
(***************************************************************************)
(* The change gate together with the five diff strategies of diff/: what a *)
(* sync says of what upstream published since the last version, with the   *)
(* documents spelled out as far as the strategies look into them.  Gate's  *)
(* parameter DiffSeverity is StrategySeverity here.                        *)
(***************************************************************************)
EXTENDS Severities, Sequences, FiniteSets

CONSTANTS
    Sources,      \* the names of the five sources
    Docs,         \* what the repositories may publish: a set of functions
                  \* from the sources to sets of documents
    Profiles,     \* the profiles whose obligations are looked at
    Missing,      \* a key an object does not have, an option not given
    KeyOrder,     \* the keys of all objects, in the order they are iterated
    MaxPointers,  \* MAX_POINTERS_PER_FILE
    MaxDepth,     \* how deep documents nest
    Absent, NoDoc, NoBundle, NoThreshold

VARIABLES
    signed,    \* source |-> the document in the last version of the chain
    upstream,  \* source |-> the document its repository serves now
    docs       \* source |-> what its repository may publish, for ever

vars == <<signed, upstream, docs>>

RD == INSTANCE RulesDiff
SD == INSTANCE SchemasDiff
MD == INSTANCE MarketplaceDiff
OD == INSTANCE OscalDiff
KD == INSTANCE KevDiff
OB == INSTANCE Obligations WITH NoText <- ""

(* Documents have the shape that the strategies read them by: the variants *)
(* of a rule are keyed by class and may state a force, vulnerabilities are *)
(* listed, and so are the products, where they are a list.                 *)
ASSUME SemanticDiffAssumption ==
    LET Keys == {KeyOrder[i] : i \in DOMAIN KeyOrder}
        Stated(source) == "force" \in DOMAIN source => source["force"] # Missing
        IsRule(leaf) ==
            /\ Stated(leaf)
            /\ "varies_by_class" \in DOMAIN leaf =>
                  /\ leaf["varies_by_class"] # Missing
                  /\ DOMAIN leaf["varies_by_class"] \subseteq Keys
                  /\ \A c \in DOMAIN leaf["varies_by_class"] : Stated(leaf["varies_by_class"][c])
        IsList(list) == Len(list) \in Nat /\ DOMAIN list = 1..Len(list)
    IN  /\ KeyOrder \in Seq(Keys) /\ MaxDepth \in Nat
        /\ Missing \notin {"MUST", "MUST NOT", "SHOULD", "SHOULD NOT", "MAY", "UNSPECIFIED"}
        /\ \A p \in Profiles : {"role", "class", "certType", "path"} \subseteq DOMAIN p
        /\ {"rules", "oscal", "kev", "marketplace", "schemas"} \subseteq Sources
        /\ \A all \in Docs : \A s \in Sources :
              all[s] # {} /\ \A d \in all[s] : d = [substance |-> d.substance, volatile |-> d.volatile]
        /\ \A all \in Docs :
              /\ \A d \in all["rules"] : \A at \in OB!Rules(d.substance.sections) :
                    IsRule(OB!Leaf(d.substance.sections, at))
              /\ \A d \in all["kev"] : IsList(d.substance.vulnerabilities)
              /\ \A d \in all["marketplace"] : IsList(MD!Rows(MD!Get(d.substance, "Products")))

ReferencedIn(rules) ==
    IF rules = NoDoc THEN {} ELSE OD!Referenced(rules.substance.sections)

(* delta_for: the strategy of a source whose substance moved. *)
StrategySeverity(s, old, new, rules) ==
    CASE s = "rules"       -> RD!SeverityOf(old, new)
      [] s = "schemas"     -> SD!SeverityOf(old, new)
      [] s = "marketplace" -> MD!SeverityOf(old, new)
      [] s = "oscal"       -> OD!SeverityOf(old, new, ReferencedIn(rules))
      [] s = "kev"         -> KD!SeverityOf(old, new)
      [] OTHER             -> Minor

G == INSTANCE Gate WITH
        Substances   <- UNION {UNION {{d.substance : d \in all[s]} : s \in Sources} : all \in Docs},
        Volatiles    <- UNION {UNION {{d.volatile : d \in all[s]} : s \in Sources} : all \in Docs},
        Rules        <- "rules",
        DiffSeverity <- StrategySeverity

(* What is not a document, a snapshot or a bundle is told from those. *)
ASSUME NothingAssumption ==
    NoDoc \notin G!Doc /\ Absent \notin G!Snapshot /\ NoBundle \notin G!Bundle

(* The pins play no part in the comparison. *)
Cut(served) == [s \in Sources |-> [pin |-> 1, doc |-> served[s]]]

(* What a run that fetches now decides. *)
SyncPlan == G!Plan(Cut(signed), Cut(upstream))

-----------------------------------------------------------------------------
(* The genesis version has signed some document of each source. *)
Init ==
    /\ docs \in Docs
    /\ signed = [s \in Sources |-> CHOOSE d \in docs[s] : TRUE]
    /\ upstream = signed

Publish(s) ==
    /\ \E d \in docs[s] : upstream' = [upstream EXCEPT ![s] = d]
    /\ UNCHANGED <<signed, docs>>

(* run_sync: a changed plan is signed, whole. *)
Sync ==
    /\ SyncPlan.changed
    /\ signed' = upstream
    /\ UNCHANGED <<upstream, docs>>

Next == Sync \/ \E s \in Sources : Publish(s)

Spec == Init /\ [][Next]_vars

-----------------------------------------------------------------------------
(***************************************************************************)
(* The rules and what they oblige a profile to.                            *)
(***************************************************************************)
SectionsOf(b) == b["rules"].substance.sections

ObligationsBefore(p) == OB!Select(SectionsOf(signed), p)
ObligationsAfter(p)  == OB!Select(SectionsOf(upstream), p)

(* Whatever changes what a profile is obliged to is Major, so a person     *)
(* reviews it: no place the selection reads escapes the flattened leaves   *)
(* (DESIGN.md section 5, diff/rules.rs flatten).                           *)
ObligationMovesAreMajor ==
    \A p \in Profiles :
        ObligationsBefore(p) # ObligationsAfter(p) => SyncPlan.severity = Major

Unstated == "UNSPECIFIED"

(* A rule that stays with a profile and changes its force, in the rule or  *)
(* in the variant of a class, is among the highlights (diff/rules.rs       *)
(* highlight_per_class_force, DESIGN.md section 4), as long as a force is  *)
(* stated on both sides: a variant without one, in place of the rule's own *)
(* force, is not called out.                                               *)
ForceShiftsAreHighlighted ==
    LET delta == RD!Compared(signed["rules"], upstream["rules"])
    IN  \A p \in Profiles :
          \A o \in ObligationsBefore(p), n \in ObligationsAfter(p) :
            /\ o.at = n.at /\ o.terms.force # n.terms.force
            /\ Unstated \notin {o.terms.force, n.terms.force}
            => \E h \in delta.highlights : h[1] = <<"FRR">> \o o.at

(* Leaving class, type or path out of a profile misses nothing: each       *)
(* obligation of the narrower profile is there, as strict or stricter      *)
(* (obligations.rs resolve: "report the strictest variant so nothing is    *)
(* missed").                                                               *)
WideProfileMissesNothing ==
    \A p \in Profiles : \A dropped \in SUBSET {"class", "certType", "path"} :
        LET wide == [f \in DOMAIN p |-> IF f \in dropped THEN Missing ELSE p[f]]
        IN  \A o \in ObligationsAfter(p) : \E w \in ObligationsAfter(wide) :
                /\ w.at = o.at
                /\ OB!ForceRank(w.terms.force) >= OB!ForceRank(o.terms.force)

(* No two obligations share an id. *)
Unambiguous(selected) ==
    \A o, n \in selected : OB!Id(o) = OB!Id(n) => o = n

Terms(selected) ==
    {<<OB!Id(o), o.terms.force, o.terms.statement>> : o \in selected}

Replayed(terms, delta) ==
    LET gone == {OB!Id(o) : o \in delta.removed}
        To(id, field, was) ==
            IF \E c \in delta.changed : c.id = id /\ c.field = field
            THEN (CHOOSE c \in delta.changed : c.id = id /\ c.field = field).to
            ELSE was
    IN  Terms(delta.added)
        \cup {<<t[1], To(t[1], "force", t[2]), To(t[1], "statement", t[3])>>
                : t \in {u \in terms : u[1] \notin gone}}

(* The delta for a profile, applied to what bound it before, gives the     *)
(* force and the text of what binds it now (obligations.rs delta), as long *)
(* as no rule id applies to it twice.                                      *)
DeltaReplays ==
    \A p \in Profiles :
        Unambiguous(ObligationsBefore(p)) /\ Unambiguous(ObligationsAfter(p))
          => Replayed(Terms(ObligationsBefore(p)),
                      OB!Delta(SectionsOf(signed), SectionsOf(upstream), p))
             = Terms(ObligationsAfter(p))

(* The ids of the rules that bind. *)
Bound(selected) == {OB!Id(o) : o \in {q \in selected : q.terms.force \in OB!Binding}}

Impact ==
    IF "rules" \in SyncPlan.moved THEN OB!Impact(SectionsOf(signed), SectionsOf(upstream))
    ELSE {}

(* A profile of providers that has rows: theirs, or wider than theirs. *)
HasRows(p) ==
    /\ p.role = "Providers" /\ p.path = Missing
    /\ p.class \in OB!Classes \cup {Missing}
    /\ p.certType \in {"20x", "rev5", Missing}

(* The rules are for the types and for some of the classes that have rows. *)
Charted(sections) ==
    \A at \in OB!Rules(sections) :
        LET leaf    == OB!Leaf(sections, at)
            applies == OB!Applicability(sections["FRR"][at[1]], at[3])
        IN  /\ at[2] \in {"20x", "rev5", "all"}
            /\ "varies_by_class" \in DOMAIN leaf =>
                  DOMAIN leaf["varies_by_class"] \subseteq OB!Classes
            /\ "classes" \in DOMAIN applies => applies["classes"] \cap OB!Classes # {}

(* A rule that becomes binding on a provider, or stops being, is in the    *)
(* report's table of who is affected, in a row that counts it, whatever    *)
(* class and type the provider has or leaves out (report.rs                *)
(* obligation_impact), as long as no id applies to it twice.  The rows     *)
(* name no path, and a rule that only moves from one path to another binds *)
(* none of them anew.                                                      *)
ImpactShowsBindingShifts ==
    Charted(SectionsOf(signed)) /\ Charted(SectionsOf(upstream)) =>
      \A p \in {q \in Profiles : HasRows(q)} :
        /\ Unambiguous(ObligationsBefore(p)) /\ Unambiguous(ObligationsAfter(p))
        /\ Bound(ObligationsBefore(p)) # Bound(ObligationsAfter(p))
        => \E row \in Impact :
             /\ row.profile.role = "Providers"
             /\ p.certType \in {Missing, row.profile.certType}
             /\ p.class \in {Missing, row.profile.class}
             /\ row.delta.added \cup row.delta.removed \cup row.shifts # {}

-----------------------------------------------------------------------------
(***************************************************************************)
(* The 800-53 catalog.                                                     *)
(***************************************************************************)
(* The groups and controls of a catalog, at each depth. *)
Parts(node, key) == {OD!Child(node, key)[i] : i \in DOMAIN OD!Child(node, key)}

NodesBelow(catalog) ==
    LET Level[depth \in 0..MaxDepth] ==
            IF depth = 0 THEN {catalog}
            ELSE UNION {Parts(node, "groups") \cup Parts(node, "controls") : node \in Level[depth - 1]}
    IN  Level

(* Every control and enhancement of a catalog, wherever it is. *)
ControlsIn(catalog) ==
    {c \in UNION {UNION {Parts(node, "controls") : node \in NodesBelow(catalog)[depth]}
                     : depth \in 0..MaxDepth} : "id" \in DOMAIN c}

ControlsOf(b) == ControlsIn(b["oscal"].substance.catalog)

(* The catalogs are read to the end, controls are named in OSCAL's form,   *)
(* and no indicator of the rules takes the name of the header of its       *)
(* family.                                                                 *)
ASSUME ControlsAssumption ==
    LET IsId(id) == id = [form |-> id.form, control |-> id.control, enhancement |-> id.enhancement]
    IN  \A all \in Docs :
          /\ \A d \in all["oscal"] :
                /\ NodesBelow(d.substance.catalog)[MaxDepth] = {}
                /\ \A c \in ControlsIn(d.substance.catalog) : IsId(c.id) /\ c.id.form = "oscal"
          /\ \A d \in all["rules"] :
                /\ \A id \in OD!Referenced(d.substance.sections) : IsId(id)
                /\ LET ksi == OD!Child(d.substance.sections, "KSI")
                   IN  \A f \in DOMAIN ksi : "info" \notin DOMAIN OD!Child(ksi[f], "indicators")

HasUniqueControls(b) == \A c, d \in ControlsOf(b) : c.id = d.id => c = d

(* The controls that came, went, or differ in what they say or contain. *)
MovedControls ==
    {<<c.id.control, c.id.enhancement>> :
        c \in (ControlsOf(signed) \ ControlsOf(upstream)) \cup (ControlsOf(upstream) \ ControlsOf(signed))}

Mentioned(b) ==
    {<<id.control, id.enhancement>> : id \in ReferencedIn(b["rules"])}

(* A control or an enhancement that moved, at any depth, and that the      *)
(* rules referenced before or reference now, in either of the two forms    *)
(* they write ids in, makes the sync Major: dropping the reference in the  *)
(* same sync does not hide it (DESIGN.md section 5, plan.rs compare,       *)
(* diff/oscal.rs), as long as no two controls share an id.                 *)
ReferencedMovesAreMajor ==
    /\ HasUniqueControls(signed) /\ HasUniqueControls(upstream)
    /\ MovedControls \cap (Mentioned(signed) \cup Mentioned(upstream)) # {}
    => SyncPlan.severity = Major

(* "a control the ruleset references is `major` and everything else is     *)
(* `routine`" (diff/oscal.rs:5): a catalog that moves alone is Major only  *)
(* when a control moved that the rules reference, what it contains being   *)
(* part of it.                                                             *)
MajorTouchesReferenced ==
    /\ HasUniqueControls(signed) /\ HasUniqueControls(upstream)
    /\ \A s \in Sources \ {"oscal"} : signed[s] = upstream[s]
    /\ SyncPlan.severity = Major
    => MovedControls \cap Mentioned(upstream) # {}

-----------------------------------------------------------------------------
(***************************************************************************)
(* Known exploited vulnerabilities.                                        *)
(***************************************************************************)
Vulnerabilities(b) == b["kev"].substance.vulnerabilities

Entries(b) == {Vulnerabilities(b)[i] : i \in DOMAIN Vulnerabilities(b)}

Cves(b) == {KD!Get(e, "cveID") : e \in Entries(b)} \ {Missing}

HasUniqueCves(b) ==
    \A i, j \in DOMAIN Vulnerabilities(b) :
        LET cve == KD!Get(Vulnerabilities(b)[i], "cveID")
        IN  cve # Missing /\ cve = KD!Get(Vulnerabilities(b)[j], "cveID") => i = j

(* A CVE that came or went is at least Minor whatever else moved or was    *)
(* reordered, and one whose due date moved is highlighted (diff/kev.rs,    *)
(* DESIGN.md section 5), the ids being "unique in the catalog" (kev.rs 41).*)
ListMembershipIsMinor ==
    /\ Cves(signed) # Cves(upstream) => SyncPlan.severity >= Minor
    /\ HasUniqueCves(signed) /\ HasUniqueCves(upstream) =>
         \A e \in Entries(signed), f \in Entries(upstream) :
           /\ KD!Get(e, "cveID") # Missing /\ KD!Get(e, "cveID") = KD!Get(f, "cveID")
           /\ KD!Get(e, "dueDate") # KD!Get(f, "dueDate")
           => <<e.cveID, "dueDate">> \in KD!Compared(signed["kev"], upstream["kev"]).highlights

-----------------------------------------------------------------------------
(***************************************************************************)
(* The marketplace.                                                        *)
(***************************************************************************)
Products(b) == MD!Get(b["marketplace"].substance, "Products")

ProductRows(b) == {MD!Rows(Products(b))[i] : i \in DOMAIN MD!Rows(Products(b))}

ProductIds(b) == MD!Ids(MD!Rows(Products(b)))

(* The products are a list, if they are there, and each has its own id.    *)
HasUniqueIds(b) ==
    /\ Products(b) = Missing \/ MD!IsArray(Products(b))
    /\ MD!UniquelyKeyed(MD!Rows(Products(b)))

(* A product that came or went, or one whose material field moved, is at   *)
(* least Minor, so no automatic merge takes it (diff/marketplace.rs        *)
(* classify, DESIGN.md section 5), as long as both documents list products *)
(* under ids of their own.                                                 *)
ProductEventsAreMinor ==
    HasUniqueIds(signed) /\ HasUniqueIds(upstream) /\
        (\/ ProductIds(signed) # ProductIds(upstream)
         \/ \E r \in ProductRows(signed), q \in ProductRows(upstream) :
               r.id = q.id /\ \E f \in MD!MaterialFields : MD!Get(r, f) # MD!Get(q, f))
    => SyncPlan.severity >= Minor

-----------------------------------------------------------------------------
(***************************************************************************)
(* The package schemas.                                                    *)
(***************************************************************************)
(* What a JSON value holds at each pointer, by the length of the pointer. *)
HeldBelow(value) ==
    LET Below(at) ==
            IF SD!IsObject(at[2])
            THEN {<<Append(at[1], k), at[2].members[k]>> : k \in DOMAIN at[2].members} ELSE {}
        Level[depth \in 0..MaxDepth] ==
            IF depth = 0 THEN {<<<<>>, value>>} ELSE UNION {Below(at) : at \in Level[depth - 1]}
    IN  Level

Nodes(value) == UNION {HeldBelow(value)[depth] : depth \in 0..MaxDepth}

(* Files are read to the end, and hold something at each pointer. *)
ASSUME SchemasAssumption ==
    \A all \in Docs : \A d \in all["schemas"] : \A f \in DOMAIN d.substance :
        /\ \A at \in Nodes(d.substance[f]) : at[2] # Missing
        /\ \A at \in HeldBelow(d.substance[f])[MaxDepth] : ~SD!IsObject(at[2])

File(b, f) == b["schemas"].substance[f]

HeldAt(value, pointer) == {at[2] : at \in {node \in Nodes(value) : node[1] = pointer}}

Scalars(value) == {at \in Nodes(value) : ~SD!IsObject(at[2])}

MovedPointers(f) ==
    LET old == Scalars(File(signed, f))
        new == Scalars(File(upstream, f))
    IN  {s[1] : s \in (old \ new) \cup (new \ old)}

StartsWith(pointer, start) ==
    Len(start) <= Len(pointer) /\ SubSeq(pointer, 1, Len(start)) = start

SchemasDelta == SD!Compared(signed["schemas"], upstream["schemas"])

(* Each scalar of a file that came, went or moved is under a pointer the   *)
(* report lists, unless it says that the list is truncated, and what the   *)
(* files hold at a listed pointer differs, and not just further down       *)
(* (diff/schemas.rs walk).                                                 *)
EveryDifferenceIsPointedAt ==
    \A f \in DOMAIN SchemasDelta.modified :
        LET listed == SchemasDelta.modified[f]
        IN  /\ <<"truncated", f>> \in SchemasDelta.drift
               \/ \A p \in MovedPointers(f) : \E q \in listed : StartsWith(p, q)
            /\ \A q \in listed :
                 LET old == HeldAt(File(signed, f), q)
                     new == HeldAt(File(upstream, f), q)
                 IN  old # new /\ ~\E v \in old, w \in new : SD!IsObject(v) /\ SD!IsObject(w)
=============================================================================
