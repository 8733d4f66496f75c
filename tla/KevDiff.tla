-------------------------------- MODULE KevDiff --------------------------------
(***************************************************************************)
(* diff/kev.rs: the catalog of known exploited vulnerabilities.  Of a      *)
(* document, substance has catalogVersion and the sequence of entries, and *)
(* volatile stands for dateReleased and count.                             *)
(***************************************************************************)
EXTENDS Diff

KevHighlights == {"dueDate", "requiredAction", "knownRansomwareCampaignUse"}

(* Keyed by CVE id; an entry without one is passed over. *)
FlattenKev(doc) ==
    LET entries == doc.substance.vulnerabilities
        keyed   == {i \in DOMAIN entries : "cveID" \in DOMAIN entries[i]}
    IN  Collected([i \in keyed |-> <<entries[i]["cveID"], entries[i]>>])

Compared(before, after) ==
    CompareMaps(FlattenKev(before), FlattenKev(after), KevHighlights)

(* Mutant of SeverityOf: only what is new is a change to act on. *)
SeverityOfAdded(before, after) ==
    LET delta == Compared(before, after)
    IN  CASE delta.added # {} -> Minor
          [] delta.added = {} /\ ~IsEmpty(delta) -> Routine
          [] OTHER -> None

SeverityOf(before, after) ==
    LET delta == Compared(before, after)
    IN  CASE delta.added # {} \/ delta.removed # {} -> Minor
          [] delta.added = {} /\ delta.removed = {} /\ ~IsEmpty(delta) -> Routine
          [] OTHER -> None
=============================================================================
