------------------------------ MODULE MCPipeline ------------------------------
(***************************************************************************)
(* Finite instances of Pipeline for TLC.                                   *)
(***************************************************************************)
EXTENDS Pipeline, TLC

CONSTANTS s1, s2, good, stray

(* Runners, texts and volatile values are interchangeable. *)
Interchangeable ==
    Permutations(Runners) \cup Permutations(Substances) \cup Permutations(Volatiles)

(* s1 is diffed like the rules: whatever moves is Major.  s2 is diffed     *)
(* like 800-53: Major when the rules speak of what it says now, otherwise  *)
(* Routine, or nothing that the diff can name.                             *)
MCDiffSeverity(s, old, new, rules) ==
    IF s = s1 \/ (rules # NoDoc /\ rules.substance = new.substance) THEN Major
    ELSE IF old.volatile = new.volatile THEN Routine ELSE None

OneBuild    == {Sources}
TwoBuilds   == {{s1}, Sources}

Scheduled == [force |-> FALSE, dryRun |-> FALSE, key |-> good]
Forced    == [Scheduled EXCEPT !.force = TRUE]
DryRun    == [Scheduled EXCEPT !.dryRun = TRUE]
Stray     == [Scheduled EXCEPT !.key = stray]

SigningCommands == {Scheduled, Forced}
PinnedCommands  == {Scheduled, Forced, DryRun}
AllCommands     == {Scheduled, Forced, DryRun, Stray}
RoutineThreshold == Routine
=============================================================================
