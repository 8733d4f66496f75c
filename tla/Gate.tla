--------------------------------- MODULE Gate ---------------------------------
(***************************************************************************)
(* The change gate of src/src/plan.rs: what a set of freshly fetched       *)
(* snapshots is compared with, and what the comparison decides.  Pure      *)
(* operators only; Pipeline uses them for the step between fetching and    *)
(* signing.                                                                *)
(*                                                                         *)
(* A digest is modelled by the value it is taken of (sha256 over JCS bytes *)
(* is assumed injective): two documents have one content_sha256 when they  *)
(* are equal, and one substance_sha256 when their substance is.            *)
(***************************************************************************)
EXTENDS Severities

CONSTANTS
    Sources,       \* the ids of sources::SOURCES
    Substances,    \* what a document says once its volatile fields are gone
    Volatiles,     \* the values of the fields the projection strips
    Absent,        \* a source that a bundle does not carry
    NoDoc,         \* no document: not fetched, or no file on disk
    NoBundle,      \* previous_bundle of a chain file that does not exist
    NoThreshold,   \* --fail-on not given
    Rules,         \* the source whose documents name the controls FedRAMP references
    DiffSeverity(_, _, _, _)  \* (source, before, after, rules): what diff/*.rs says

(***************************************************************************)
(* Documents, snapshots and bundles.  A canonical document is its          *)
(* substance and its volatile part; a snapshot pins it to the upstream     *)
(* commit it was read at; a bundle holds a snapshot for each source it     *)
(* carries.  While a run is fetching, a snapshot whose commit is resolved  *)
(* and whose bytes are not read yet has NoDoc: the snapshots of a run are  *)
(* a Gathering, and a Bundle once none is left without bytes.              *)
(***************************************************************************)
Doc == [substance : Substances, volatile : Volatiles]

Snapshot == [pin : Nat \ {0}, doc : Doc]
Partial  == [pin : Nat \ {0}, doc : Doc \cup {NoDoc}]

Bundle    == [Sources -> Snapshot \cup {Absent}]
Gathering == [Sources -> Partial \cup {Absent}]

Nothing == [s \in Sources |-> Absent]

Carried(b) == {s \in Sources : b[s] # Absent}

ASSUME GateAssumption ==
    /\ Absent \notin Partial
    /\ NoDoc \notin Doc
    /\ NoBundle \notin Bundle
    /\ NoThreshold \notin Severity
    /\ \A s \in Sources, old, new \in Doc, rules \in Doc \cup {NoDoc} :
          DiffSeverity(s, old, new, rules) \in Severity

-----------------------------------------------------------------------------
(***************************************************************************)
(* delta_for: one source against the previous bundle.                      *)
(***************************************************************************)

(* The previous bundle exists and does not carry the source. *)
Added(s, base) == base # NoBundle /\ base[s] = Absent

(* Mutant of SubstanceMoved: the gate compares the content digest. *)
ContentMoved(s, base, snaps) ==
    /\ base # NoBundle
    /\ base[s] # Absent
    /\ base[s].doc # snaps[s].doc

(* The substance digest differs from the one the previous bundle recorded. *)
SubstanceMoved(s, base, snaps) ==
    /\ base # NoBundle
    /\ base[s] # Absent
    /\ base[s].doc.substance # snaps[s].doc.substance

(* The 800-53 diff looks up its controls in the rules of the same fetch. *)
RulesInScope(snaps) == IF Rules \in Carried(snaps) THEN snaps[Rules].doc ELSE NoDoc

(* What the diff of a moved source says. *)
Diffed(s, base, snaps) ==
    DiffSeverity(s, base[s].doc, snaps[s].doc, RulesInScope(snaps))

(* Mutant of DeltaChanged: the gate trusts the semantic diff, not the digest. *)
DeltaNamed(s, base, snaps) ==
    \/ base = NoBundle
    \/ Added(s, base)
    \/ /\ SubstanceMoved(s, base, snaps)
       /\ Diffed(s, base, snaps) # None

DeltaChanged(s, base, snaps) ==
    \/ base = NoBundle
    \/ Added(s, base)
    \/ SubstanceMoved(s, base, snaps)

AtLeast(severity, floor) == IF severity < floor THEN floor ELSE severity

(* A diff that finds nothing in a moved substance still counts: Metadata. *)
DeltaSeverity(s, base, snaps) ==
    CASE base = NoBundle \/ Added(s, base) -> Major
      [] SubstanceMoved(s, base, snaps) ->
            AtLeast(Diffed(s, base, snaps), Metadata)
      [] OTHER -> None

-----------------------------------------------------------------------------
(***************************************************************************)
(* compare, and the headline it is signed under.                           *)
(***************************************************************************)

MovedSources(base, snaps) ==
    {s \in Carried(snaps) : DeltaChanged(s, base, snaps)}

(* max over the deltas; None when there is none. *)
MaxSeverity(base, snaps) ==
    LET severities == {None} \cup {DeltaSeverity(s, base, snaps) : s \in Carried(snaps)}
    IN  CHOOSE m \in severities : \A n \in severities : n <= m

PlanSeverity(base, snaps) ==
    IF base = NoBundle THEN Major ELSE MaxSeverity(base, snaps)

PlanChanged(base, snaps) ==
    base = NoBundle \/ MovedSources(base, snaps) # {}

(***************************************************************************)
(* headline and headline_subject: below Major the headline is the          *)
(* severity's own; at Major it names each source that is Major, as added   *)
(* or as changed.                                                          *)
(***************************************************************************)
Announcement == {"genesis", "unchanged", "severity", "added", "changed"} \X (Sources \cup Severity)

MajorSources(base, snaps) ==
    {s \in MovedSources(base, snaps) : DeltaSeverity(s, base, snaps) = Major}

Headline(base, snaps) ==
    CASE base = NoBundle -> {<<"genesis", Major>>}
      [] base # NoBundle /\ ~PlanChanged(base, snaps) -> {<<"unchanged", None>>}
      [] base # NoBundle /\ PlanChanged(base, snaps) /\ MaxSeverity(base, snaps) < Major ->
            {<<"severity", MaxSeverity(base, snaps)>>}
      [] OTHER -> {<<IF Added(s, base) THEN "added" ELSE "changed", s>> :
                      s \in MajorSources(base, snaps)}

(* What run_sync carries from plan::build to the commit and the reports. *)
Plan(base, snaps) ==
    [genesis  |-> base = NoBundle,
     changed  |-> PlanChanged(base, snaps),
     severity |-> PlanSeverity(base, snaps),
     moved    |-> MovedSources(base, snaps),
     headline |-> Headline(base, snaps)]

PlanType ==
    [genesis : BOOLEAN, changed : BOOLEAN, severity : Severity,
     moved : SUBSET Sources, headline : SUBSET Announcement]

(* report::should_fail and threshold_code: exit 2 when --fail-on trips. *)
Trips(severity, failOn) ==
    failOn # NoThreshold /\ severity >= failOn /\ severity > None
=============================================================================
