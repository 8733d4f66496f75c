------------------------------- MODULE Pipeline -------------------------------
(***************************************************************************)
(* The sync pipeline of fedramp-aion (src/src/lib.rs run_sync, with        *)
(* chain.rs, sources.rs and plan.rs), run by one or several processes in   *)
(* one working directory while the upstream repositories move.             *)
(*                                                                         *)
(* A run reads the chain, resolves and fetches each source, compares with  *)
(* what it read, and, when something moved or --force is given, writes     *)
(* data/ file by file, signs a version, verifies the chain, cross-checks   *)
(* data/ and reports.  Each of these is a step of its own, and a run may   *)
(* be cut short before any of them: an I/O or HTTP error, a parse error,   *)
(* an unusable key or registry, or a kill.  Nothing is rolled back.        *)
(*                                                                         *)
(* The signing library (aion-context) is external.  A signing run tests    *)
(* for the chain file and reads it (OpenChain), and replaces it later: by  *)
(* a genesis (init_file), or by the versions it read and one more          *)
(* (commit_version).  No lock spans the two steps.  A version is valid     *)
(* when its key is in the registry, and commit_version refuses a key that  *)
(* is not.                                                                 *)
(***************************************************************************)
EXTENDS Gate, Sequences, FiniteSets

CONSTANTS
    Runners,        \* processes that run sync in this directory
    Keys,           \* signing keys
    Registered,     \* those that registry.json pins
    Commands,       \* the command lines given: --force, --dry-run and the key
    Builds,         \* the sets of sources that successive builds watch
    FailOn,         \* the --fail-on argument of every run
    Serialized,     \* TRUE: at most one run at a time (watch.yml concurrency)
    MaxCommits,     \* bound: upstream commits of a source
    MaxForced,      \* bound: versions that --force signs without a change
    MaxInterrupts   \* bound: runs that are cut short

ASSUME PipelineAssumption ==
    /\ Keys # {} /\ Registered \subseteq Keys
    /\ Commands \subseteq [force : BOOLEAN, dryRun : BOOLEAN, key : Keys]
    /\ Builds \subseteq SUBSET Sources
    /\ FailOn \in Severity \cup {NoThreshold}
    /\ Serialized \in BOOLEAN
    /\ MaxCommits \in Nat /\ MaxForced \in Nat /\ MaxInterrupts \in Nat

VARIABLES
    upstream,    \* per source, the documents of its successive commits
    watched,     \* the sources of the installed build
    chain,       \* the versions of fedramp.aion, oldest first
    data,        \* data/<source>.json
    provenance,  \* data/provenance.json: the pins it lists, 0 for none
    pc,          \* per run, the step it takes next
    args,        \* per run, its command line
    base,        \* per run, the bundle previous_bundle returned
    snaps,       \* per run, the snapshots taken so far
    written,     \* per run, the data files written so far
    onto,        \* per run, the versions it found in the file to sign onto
    signed,      \* per run, the version number commit returned, 0 before
    report,      \* what the run that ended last reported, until one starts
    interrupts,  \* how many runs were cut short
    raced        \* history: a run replaced a chain that was not the one it read

runVars == <<pc, args, base, snaps, written, onto, signed, report>>
diskVars == <<chain, data, provenance>>
envVars == <<upstream, watched, interrupts, raced>>
vars == <<runVars, diskVars, envVars>>

-----------------------------------------------------------------------------
Command == [force : BOOLEAN, dryRun : BOOLEAN, key : Keys]

(* What a run is given: its command line, and the sources of its build. *)
Args   == [command : Command, watches : SUBSET Sources]
NoArgs == [command |-> CHOOSE c \in Command : TRUE, watches |-> {}]

Version == [bundle : Bundle, key : Keys, message : PlanType]

(* $GITHUB_OUTPUT and the exit status. *)
Outcome ==
    [result : {"none", "unchanged", "dry_run", "committed", "error"},
     changed : BOOLEAN, version : Nat, exit : {"ok", "threshold", "error"}]

NotRun == [result |-> "none", changed |-> FALSE, version |-> 0, exit |-> "ok"]
Failed == [result |-> "error", changed |-> FALSE, version |-> 0, exit |-> "error"]

Current == chain[Len(chain)].bundle

(* verify_file: every version is signed by a key the registry pins. *)
Valid == \A i \in DOMAIN chain : chain[i].key \in Registered

(* The plan of a run once its snapshots are complete. *)
RunPlan(r) == Plan(base[r], snaps[r])

Fetched(r) == {s \in Sources : snaps[r][s] # Absent /\ snaps[r][s].doc # NoDoc}
Resolving(r) == {s \in Sources : snaps[r][s] # Absent /\ snaps[r][s].doc = NoDoc}

ForcedVersions == {i \in DOMAIN chain : ~chain[i].message.changed}

-----------------------------------------------------------------------------
(***************************************************************************)
(* Upstream and the installed build.                                       *)
(***************************************************************************)

(* An upstream repository gets a commit that touches the source's path. *)
Publish(s, doc) ==
    /\ Len(upstream[s]) < MaxCommits
    /\ upstream' = [upstream EXCEPT ![s] = Append(@, doc)]
    /\ UNCHANGED <<runVars, diskVars, watched, interrupts, raced>>

(* A build with more sources is installed over the same chain. *)
Upgrade(build) ==
    /\ watched \subseteq build
    /\ watched # build
    /\ watched' = build
    /\ UNCHANGED <<runVars, diskVars, upstream, interrupts, raced>>

-----------------------------------------------------------------------------
(***************************************************************************)
(* Steps of a run, in the order run_sync takes them.                       *)
(***************************************************************************)
Goto(r, from, to) == pc[r] = from /\ pc' = [pc EXCEPT ![r] = to]

(* The run ends: its memory is gone, what it reported stays. *)
Finish(r, outcome) ==
    /\ pc' = [pc EXCEPT ![r] = "idle"]
    /\ args' = [args EXCEPT ![r] = NoArgs]
    /\ base' = [base EXCEPT ![r] = NoBundle]
    /\ snaps' = [snaps EXCEPT ![r] = Nothing]
    /\ written' = [written EXCEPT ![r] = {}]
    /\ onto' = [onto EXCEPT ![r] = <<>>]
    /\ signed' = [signed EXCEPT ![r] = 0]
    /\ report' = outcome

(* Mutant of MayStart: the concurrency group is gone. *)
MayStartAnyway == TRUE

(* The concurrency group of watch.yml, when there is one. *)
MayStart == Serialized => \A q \in Runners : pc[q] = "idle"

(* previous_bundle: the payload of the current version, unverified. *)
Start(r, command) ==
    /\ MayStart
    /\ command.force => Cardinality(ForcedVersions) < MaxForced
    /\ Goto(r, "idle", "fetch")
    /\ args' = [args EXCEPT ![r] = [command |-> command, watches |-> watched]]
    /\ base' = [base EXCEPT ![r] = IF chain = <<>> THEN NoBundle ELSE Current]
    /\ report' = NotRun
    /\ UNCHANGED <<snaps, written, onto, signed, diskVars, envVars>>

(* Mutant of Resolve: the listing is stale and names any commit there was. *)
ResolveStale(r, s) ==
    /\ pc[r] = "fetch"
    /\ s \in args[r].watches
    /\ snaps[r][s] = Absent
    /\ Resolving(r) = {}
    /\ \E n \in DOMAIN upstream[s] :
          snaps' = [snaps EXCEPT ![r][s] = [pin |-> n, doc |-> NoDoc]]
    /\ UNCHANGED <<pc, args, base, written, onto, signed, report, diskVars, envVars>>

(* resolve_commit: main becomes the commit that last touched the path. *)
Resolve(r, s) ==
    /\ pc[r] = "fetch"
    /\ s \in args[r].watches
    /\ snaps[r][s] = Absent
    /\ Resolving(r) = {}
    /\ snaps' = [snaps EXCEPT ![r][s] = [pin |-> Len(upstream[s]), doc |-> NoDoc]]
    /\ UNCHANGED <<pc, args, base, written, onto, signed, report, diskVars, envVars>>

(* Mutant of BytesAt: the bytes are read from main, not from the pin. *)
BytesAtMain(s, pin) == upstream[s][Len(upstream[s])]

(* The document a commit of the source holds. *)
BytesAt(s, pin) == upstream[s][pin]

(* http_snapshot: the bytes at the resolved commit, canonicalized. *)
Fetch(r, s) ==
    /\ pc[r] = "fetch"
    /\ s \in Resolving(r)
    /\ snaps' = [snaps EXCEPT ![r][s].doc = BytesAt(s, snaps[r][s].pin)]
    /\ UNCHANGED <<pc, args, base, written, onto, signed, report, diskVars, envVars>>

(* emit_reports and the exit status; version 0 stands for committed=false. *)
Reported(result, plan, version) ==
    [result |-> result, changed |-> plan.changed, version |-> version,
     exit |-> IF Trips(plan.severity, FailOn) THEN "threshold" ELSE "ok"]

(* The gate found nothing: report and exit. *)
StopUnchanged(r) ==
    /\ pc[r] = "fetch"
    /\ Fetched(r) = args[r].watches
    /\ ~RunPlan(r).changed /\ ~args[r].command.force
    /\ Finish(r, Reported("unchanged", RunPlan(r), 0))
    /\ UNCHANGED <<diskVars, envVars>>

(* --dry-run: report what would be signed and exit. *)
StopDryRun(r) ==
    /\ pc[r] = "fetch"
    /\ Fetched(r) = args[r].watches
    /\ RunPlan(r).changed \/ args[r].command.force
    /\ args[r].command.dryRun
    /\ Finish(r, Reported("dry_run", RunPlan(r), 0))
    /\ UNCHANGED <<diskVars, envVars>>

(* Something moved, or the run is forced: go on to write and sign. *)
Proceed(r) ==
    /\ Fetched(r) = args[r].watches
    /\ RunPlan(r).changed \/ args[r].command.force
    /\ ~args[r].command.dryRun
    /\ Goto(r, "fetch", "write")
    /\ UNCHANGED <<args, base, snaps, written, onto, signed, report, diskVars, envVars>>

(* write_snapshots, one file; the loop's order is left open. *)
WriteSnapshot(r, s) ==
    /\ pc[r] = "write"
    /\ s \in Carried(snaps[r]) \ written[r]
    /\ data' = [data EXCEPT ![s] = snaps[r][s].doc]
    /\ written' = [written EXCEPT ![r] = @ \cup {s}]
    /\ UNCHANGED <<pc, args, base, snaps, onto, signed, report, chain, provenance, envVars>>

(* Mutant of Pins: a source that is not carried is listed without a pin. *)
PinsOfAll(bundle) ==
    [s \in Sources |-> IF bundle[s] = Absent THEN Absent ELSE bundle[s].pin]

Pins(bundle) ==
    [s \in Sources |-> IF bundle[s] = Absent THEN 0 ELSE bundle[s].pin]

(* Mutant of WriteProvenance: it updates the sources that moved only. *)
WriteMovedProvenance(r) ==
    /\ written[r] = Carried(snaps[r])
    /\ Goto(r, "write", "sign")
    /\ provenance' = [s \in Sources |->
          IF s \in RunPlan(r).moved THEN Pins(snaps[r])[s] ELSE provenance[s]]
    /\ UNCHANGED <<args, base, snaps, written, onto, signed, report, chain, data, envVars>>

(* write_snapshots ends with provenance.json. *)
WriteProvenance(r) ==
    /\ written[r] = Carried(snaps[r])
    /\ Goto(r, "write", "sign")
    /\ provenance' = Pins(snaps[r])
    /\ UNCHANGED <<args, base, snaps, written, onto, signed, report, chain, data, envVars>>

NewVersion(r) == [bundle |-> snaps[r], key |-> args[r].command.key, message |-> RunPlan(r)]

(***************************************************************************)
(* chain::commit tests for the file, and commit_version reads it; nothing  *)
(* read stands for no file.  The test and the reading are one step because *)
(* no step removes the file: once the test finds it, it is there to read.  *)
(***************************************************************************)
OpenChain(r) ==
    /\ Goto(r, "sign", "append")
    /\ onto' = [onto EXCEPT ![r] = chain]
    /\ UNCHANGED <<args, base, snaps, written, signed, report, diskVars, envVars>>

(* The file becomes what the run read and the version it signs, whatever   *)
(* the file has become in between.                                         *)
Replace(r) ==
    /\ Goto(r, "append", "verify")
    /\ chain' = Append(onto[r], NewVersion(r))
    /\ onto' = [onto EXCEPT ![r] = <<>>]
    /\ raced' = (raced \/ onto[r] # chain)
    /\ UNCHANGED <<args, base, snaps, written, report, data, provenance,
                   upstream, watched, interrupts>>

(* Mutant of InitFile: the version number counts from zero. *)
InitFileZero(r) ==
    /\ onto[r] = <<>>
    /\ Replace(r)
    /\ signed' = [signed EXCEPT ![r] = Len(onto[r])]

(* chain::commit that found no file: init_file, which takes no registry. *)
InitFile(r) ==
    /\ onto[r] = <<>>
    /\ Replace(r)
    /\ signed' = [signed EXCEPT ![r] = Len(chain')]

(* Mutant of CommitVersion: the newest version is overwritten. *)
CommitOverHead(r) ==
    /\ onto[r] # <<>>
    /\ args[r].command.key \in Registered
    /\ Goto(r, "append", "verify")
    /\ chain' = [onto[r] EXCEPT ![Len(onto[r])] = NewVersion(r)]
    /\ signed' = [signed EXCEPT ![r] = Len(chain')]
    /\ onto' = [onto EXCEPT ![r] = <<>>]
    /\ UNCHANGED <<args, base, snaps, written, report, data, provenance, envVars>>

(* chain::commit that found a file: commit_version checks the key. *)
CommitVersion(r) ==
    /\ onto[r] # <<>>
    /\ args[r].command.key \in Registered
    /\ Replace(r)
    /\ signed' = [signed EXCEPT ![r] = Len(chain')]

(* commit_version rejects a key the registry does not pin. *)
RejectCommit(r) ==
    /\ pc[r] = "append"
    /\ onto[r] # <<>>
    /\ args[r].command.key \notin Registered
    /\ Finish(r, Failed)
    /\ UNCHANGED <<diskVars, envVars>>

(* Mutant of Verify: the result of the verification is dropped. *)
VerifyUnheeded(r) ==
    /\ Goto(r, "verify", "check")
    /\ UNCHANGED <<args, base, snaps, written, onto, signed, report, diskVars, envVars>>

(* chain::commit verifies the file it has just written. *)
Verify(r) ==
    /\ Valid
    /\ Goto(r, "verify", "check")
    /\ UNCHANGED <<args, base, snaps, written, onto, signed, report, diskVars, envVars>>

FailVerify(r) ==
    /\ pc[r] = "verify"
    /\ ~Valid
    /\ Finish(r, Failed)
    /\ UNCHANGED <<diskVars, envVars>>

(* digests_match: data/ against the bundle of this run. *)
Mismatches(bundle) == {s \in Carried(bundle) : data[s] # bundle[s].doc}

CrossCheck(r) ==
    /\ Mismatches(snaps[r]) = {}
    /\ Goto(r, "check", "report")
    /\ UNCHANGED <<args, base, snaps, written, onto, signed, report, diskVars, envVars>>

FailCrossCheck(r) ==
    /\ pc[r] = "check"
    /\ Mismatches(snaps[r]) # {}
    /\ Finish(r, Failed)
    /\ UNCHANGED <<diskVars, envVars>>

(* Mutant of Report: the number is that of the newest version. *)
ReportNewest(r) ==
    /\ pc[r] = "report"
    /\ Finish(r, Reported("committed", RunPlan(r), Len(chain)))
    /\ UNCHANGED <<diskVars, envVars>>

(* emit_reports with the version commit returned, and the exit status. *)
Report(r) ==
    /\ pc[r] = "report"
    /\ Finish(r, Reported("committed", RunPlan(r), signed[r]))
    /\ UNCHANGED <<diskVars, envVars>>

(* Any `?` of run_sync, or a kill: what is on disk stays as it is. *)
Interrupt(r) ==
    /\ pc[r] # "idle"
    /\ interrupts < MaxInterrupts
    /\ interrupts' = interrupts + 1
    /\ Finish(r, Failed)
    /\ UNCHANGED <<diskVars, upstream, watched, raced>>

-----------------------------------------------------------------------------
Init ==
    /\ upstream \in [Sources -> {<<doc>> : doc \in Doc}]
    /\ watched \in Builds
    /\ chain = <<>>
    /\ data = [s \in Sources |-> NoDoc]
    /\ provenance = [s \in Sources |-> 0]
    /\ pc = [r \in Runners |-> "idle"]
    /\ args = [r \in Runners |-> NoArgs]
    /\ base = [r \in Runners |-> NoBundle]
    /\ snaps = [r \in Runners |-> Nothing]
    /\ written = [r \in Runners |-> {}]
    /\ onto = [r \in Runners |-> <<>>]
    /\ signed = [r \in Runners |-> 0]
    /\ report = NotRun
    /\ interrupts = 0
    /\ raced = FALSE

Environment ==
    \/ \E s \in Sources, doc \in Doc : Publish(s, doc)
    \/ \E build \in Builds : Upgrade(build)

(* The steps a run takes once it has started, unless it is cut short. *)
Step(r) ==
    \/ \E s \in Sources : Resolve(r, s) \/ Fetch(r, s) \/ WriteSnapshot(r, s)
    \/ StopUnchanged(r) \/ StopDryRun(r) \/ Proceed(r)
    \/ WriteProvenance(r)
    \/ OpenChain(r) \/ InitFile(r) \/ CommitVersion(r) \/ RejectCommit(r)
    \/ Verify(r) \/ FailVerify(r)
    \/ CrossCheck(r) \/ FailCrossCheck(r)
    \/ Report(r)

Next ==
    \/ Environment
    \/ \E r \in Runners :
          \/ \E command \in Commands : Start(r, command)
          \/ Step(r)
          \/ Interrupt(r)

Spec == Init /\ [][Next]_vars

(***************************************************************************)
(* Fairness.  A started run goes on until it ends: the process is never    *)
(* blocked.  A scheduled run is started again and again (the cron line of  *)
(* watch.yml), and a queued one is not overtaken for ever: the concurrency *)
(* group never cancels the run it holds back.                              *)
(***************************************************************************)
Fairness ==
    \A r \in Runners :
        /\ WF_vars(Step(r))
        /\ SF_vars(\E command \in Commands : ~command.dryRun /\ Start(r, command))

FairSpec == Spec /\ Fairness

-----------------------------------------------------------------------------
(***************************************************************************)
(* Properties.                                                             *)
(***************************************************************************)
Steps == {"idle", "fetch", "write", "sign", "append", "verify", "check", "report"}

(* Every variable has its type. *)
TypeOK ==
    /\ upstream \in [Sources -> Seq(Doc)]
    /\ watched \in SUBSET Sources
    /\ chain \in Seq(Version)
    /\ data \in [Sources -> Doc \cup {NoDoc}]
    /\ provenance \in [Sources -> Nat]
    /\ pc \in [Runners -> Steps]
    /\ args \in [Runners -> Args]
    /\ base \in [Runners -> Bundle \cup {NoBundle}]
    /\ snaps \in [Runners -> Gathering]
    /\ written \in [Runners -> SUBSET Sources]
    /\ onto \in [Runners -> Seq(Version)]
    /\ signed \in [Runners -> Nat]
    /\ report \in Outcome
    /\ interrupts \in Nat
    /\ raced \in BOOLEAN

(* What upstream really had at the commit a snapshot pins. *)
Genuine(snap, s) ==
    /\ snap.pin \in DOMAIN upstream[s]
    /\ snap.doc = upstream[s][snap.pin]

(***************************************************************************)
(* Every signed bundle carries, for each of its sources, exactly the bytes *)
(* upstream has at the commit the bundle names, however upstream moved     *)
(* between resolving and fetching (sources.rs resolve_commit and           *)
(* http_snapshot: a run is replayable from its pins).                      *)
(***************************************************************************)
PinsExplainContent ==
    \A i \in DOMAIN chain : \A s \in Carried(chain[i].bundle) :
        Genuine(chain[i].bundle[s], s)

(* The bundle version i is signed on top of. *)
Predecessor(i) == IF i = 1 THEN NoBundle ELSE chain[i - 1].bundle

(***************************************************************************)
(* The message each version is signed under is what comparing it with the  *)
(* version before it in the chain says: genesis, changed, severity, moved  *)
(* sources and headline (plan.rs compare, report.rs commit_message).  The  *)
(* comparison is made against what the run read before it fetched, so this *)
(* relies on no other run signing in between.                              *)
(***************************************************************************)
MessagesTruthful ==
    \A i \in DOMAIN chain :
        chain[i].message = Plan(Predecessor(i), chain[i].bundle)

(***************************************************************************)
(* From one version to the next no source disappears and no pin goes back  *)
(* to an older upstream commit.                                            *)
(***************************************************************************)
PinsNeverRegress ==
    \A i \in DOMAIN chain \ {1} : \A s \in Carried(chain[i - 1].bundle) :
        /\ s \in Carried(chain[i].bundle)
        /\ chain[i - 1].bundle[s].pin <= chain[i].bundle[s].pin

(***************************************************************************)
(* A committed version that is about to be reported, or was reported last, *)
(* is in the chain at that number, holds what the run fetched, and is part *)
(* of a chain that verifies from its genesis; the report's changed and     *)
(* exit status are those of the version (lib.rs run_sync, chain.rs commit: *)
(* a chain that does not verify fails the run).  This needs that no run    *)
(* signs between the test of chain.rs:168 and the write of another.        *)
(***************************************************************************)
ReportedVersionIsSigned ==
    /\ \A r \in Runners : pc[r] = "report" =>
          /\ signed[r] \in DOMAIN chain
          /\ chain[signed[r]] = NewVersion(r)
          /\ Valid
    /\ report.result = "committed" =>
          /\ report.version \in DOMAIN chain
          /\ report = Reported("committed", chain[report.version].message, report.version)
          /\ Valid

(***************************************************************************)
(* Without the concurrency group too, as long as no run has signed between *)
(* another's test for the file and its write (chain.rs:168 to 169 or 187): *)
(* runs that overlap anywhere else report what is signed at the number     *)
(* they were given.  Once one has, its version is gone from the chain, and *)
(* nothing in the code tells.                                              *)
(***************************************************************************)
SignedUnlessRaced == raced \/ ReportedVersionIsSigned

(***************************************************************************)
(* When a run is about to report a committed version, the working tree it  *)
(* hands to the pull request is of one piece: the version is the newest,   *)
(* each data file is the document of that version, and provenance.json     *)
(* lists its pins, whatever failed runs left behind before.                *)
(***************************************************************************)
PublishedTreeAgrees ==
    \A r \in Runners : pc[r] = "report" =>
        /\ signed[r] = Len(chain)
        /\ Mismatches(Current) = {}
        /\ provenance = Pins(Current)

SameSubstance(b, c) ==
    /\ Carried(b) = Carried(c)
    /\ \A s \in Carried(b) : b[s].doc.substance = c[s].doc.substance

(***************************************************************************)
(* No step signs a version that says the same as the current one, unless   *)
(* the run that takes it was given --force: reruns and volatile churn add  *)
(* nothing (DESIGN.md 6, the idempotency test).                            *)
(***************************************************************************)
NoIdleVersion ==
    [][chain # <<>> =>
         \/ ~SameSubstance(chain'[Len(chain')].bundle, Current)
         \/ \E r \in Runners : args[r].command.force /\ pc[r] = "append" /\ pc'[r] = "verify"]_chain

(* The current version says what upstream says now. *)
UpToDate ==
    /\ chain # <<>>
    /\ Carried(Current) = watched
    /\ \A s \in watched :
          Current[s].doc.substance = upstream[s][Len(upstream[s])].substance

(***************************************************************************)
(* Once upstream and the build stop moving and runs stop being cut short,  *)
(* the chain comes to say what upstream says and stays so, even if         *)
(* upstream went back to an earlier text.                                  *)
(***************************************************************************)
CatchesUp == <>[]UpToDate

(***************************************************************************)
(* The chain never holds a version signed with a key the registry does not *)
(* pin.  DESIGN.md 7 asks for it ("CI signing key not in the registry |   *)
(* commit refuses").                                                      *)
(***************************************************************************)
UnregisteredKeyRefused == Valid

(***************************************************************************)
(* Runs that do not overlap, however they are cut short, look like single  *)
(* atomic steps that sign a cut of upstream: the refinement is the         *)
(* identity on upstream and chain.                                         *)
(***************************************************************************)
L == INSTANCE Ledger WITH upstream <- upstream, chain <- chain

ImplementsLedger == L!Spec
=============================================================================
