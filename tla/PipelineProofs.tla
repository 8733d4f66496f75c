---------------------------- MODULE PipelineProofs ----------------------------
(***************************************************************************)
(* Proofs about Pipeline, for every set of sources, documents, runners,    *)
(* keys and builds, every diff, and every bound.                           *)
(***************************************************************************)
EXTENDS Pipeline, TLAPS

(* The steps before the version is signed, and those after the gate. *)
Gathers == {"fetch", "write", "sign", "append"}
Signing == {"write", "sign", "append", "verify", "check", "report"}

(***************************************************************************)
(* A snapshot pins a commit that exists; once its bytes are read they are  *)
(* those of that commit.  A run past the gate has read all its sources.    *)
(***************************************************************************)
SnapshotsGenuine ==
    \A r \in Runners : \A s \in Carried(snaps[r]) :
        /\ snaps[r][s].pin \in DOMAIN upstream[s]
        /\ snaps[r][s].doc # NoDoc => Genuine(snaps[r][s], s)

HistoryBegun == \A s \in Sources : upstream[s] # <<>>

SnapshotsComplete ==
    \A r \in Runners :
        /\ Carried(snaps[r]) \subseteq args[r].watches
        /\ pc[r] = "idle" => args[r].watches = {}
        /\ pc[r] \in Signing => Fetched(r) = args[r].watches

(* The versions a run found in the file hold the bytes of their pins too.  *)
FoundGenuine ==
    \A r \in Runners : \A i \in DOMAIN onto[r] : \A s \in Carried(onto[r][i].bundle) :
        Genuine(onto[r][i].bundle[s], s)

(***************************************************************************)
(* When runs do not overlap, the run that is under way compares with the   *)
(* current version, and has resolved no commit older than that version's.  *)
(***************************************************************************)
Alone == \A q, r \in Runners : pc[q] # "idle" /\ pc[r] # "idle" => q = r

Latest == IF chain = <<>> THEN NoBundle ELSE Current

InStep(q) ==
    pc[q] \in Gathers =>
        /\ base[q] = Latest
        /\ chain # <<>> =>
              /\ Carried(Current) \subseteq args[q].watches
              /\ \A s \in Carried(Current) \cap Carried(snaps[q]) :
                    Current[s].pin <= snaps[q][s].pin

RunsInStep == \A q \in Runners : InStep(q)

LatestIsWatched ==
    /\ chain # <<>> => Carried(Current) \subseteq watched
    /\ \A r \in Runners : args[r].watches \subseteq watched

(* What a run found in the file is still there when it writes. *)
FoundIsCurrent ==
    /\ ~raced
    /\ \A r \in Runners : pc[r] = "append" => onto[r] = chain

(* The part that holds whatever overlaps. *)
Provenance ==
    /\ TypeOK
    /\ HistoryBegun
    /\ SnapshotsGenuine
    /\ SnapshotsComplete
    /\ PinsExplainContent
    /\ FoundGenuine

(* The part that needs runs not to overlap. *)
Sequential == Alone /\ LatestIsWatched /\ RunsInStep /\ FoundIsCurrent

IInv == Provenance /\ (Serialized => Sequential)

-----------------------------------------------------------------------------
(* The gate decides on plans of the declared type. *)
LEMMA SeverityOfDelta ==
    ASSUME NEW prev \in Bundle \cup {NoBundle}, NEW bundle \in Bundle,
           NEW s \in Carried(bundle)
    PROVE  DeltaSeverity(s, prev, bundle) \in Severity
<1>1. CASE prev = NoBundle \/ Added(s, prev)
  BY <1>1 DEF DeltaSeverity, Added, SubstanceMoved, Severity, Major, None
<1>2. CASE SubstanceMoved(s, prev, bundle)
  <2>1. prev[s].doc \in Doc /\ bundle[s].doc \in Doc /\ s \in Sources
    BY <1>2 DEF SubstanceMoved, Bundle, Snapshot, Carried
  <2>2. RulesInScope(bundle) \in Doc \cup {NoDoc}
    BY DEF RulesInScope, Bundle, Snapshot, Carried
  <2>3. Diffed(s, prev, bundle) \in Severity
    BY <2>1, <2>2, GateAssumption DEF Diffed
  <2>4. DeltaSeverity(s, prev, bundle) = AtLeast(Diffed(s, prev, bundle), Metadata)
    BY <1>2 DEF DeltaSeverity, SubstanceMoved, Added
  <2>. QED
    BY <2>3, <2>4 DEF AtLeast, Severity, Metadata, Major, None
<1>3. CASE ~(prev = NoBundle \/ Added(s, prev)) /\ ~SubstanceMoved(s, prev, bundle)
  BY <1>3 DEF DeltaSeverity, Severity, Major, None
<1>. QED
  BY <1>1, <1>2, <1>3

LEMMA SeverityOfPlan ==
    ASSUME NEW prev \in Bundle \cup {NoBundle}, NEW bundle \in Bundle
    PROVE  /\ MaxSeverity(prev, bundle) \in Severity
           /\ \A s \in Carried(bundle) :
                 DeltaSeverity(s, prev, bundle) <= MaxSeverity(prev, bundle)
<1>. DEFINE severities ==
       {None} \cup {DeltaSeverity(s, prev, bundle) : s \in Carried(bundle)}
<1>1. severities \subseteq 0..4 /\ 0 \in severities
  BY SeverityOfDelta DEF Severity, None, Major
<1>. HIDE DEF severities
<1>2. \E m \in severities : \A n \in severities : n <= m
  BY <1>1
<1>3. MaxSeverity(prev, bundle) = CHOOSE m \in severities : \A n \in severities : n <= m
  BY DEF MaxSeverity, severities
<1>4. /\ MaxSeverity(prev, bundle) \in severities
      /\ \A n \in severities : n <= MaxSeverity(prev, bundle)
  BY <1>2, <1>3
<1>. QED
  BY <1>1, <1>4 DEF severities, Severity, None, Major

LEMMA PlanTyped ==
    ASSUME NEW prev \in Bundle \cup {NoBundle}, NEW bundle \in Bundle
    PROVE  Plan(prev, bundle) \in PlanType
<1>1. PlanSeverity(prev, bundle) \in Severity
  BY SeverityOfPlan DEF PlanSeverity, Severity, Major, None
<1>2. MovedSources(prev, bundle) \in SUBSET Sources
  BY DEF MovedSources, Carried
<1>3. Headline(prev, bundle) \in SUBSET Announcement
  <2>1. CASE prev = NoBundle
    BY <2>1 DEF Headline, Announcement, Severity, Major, None
  <2>2. CASE prev # NoBundle /\ ~PlanChanged(prev, bundle)
    BY <2>2 DEF Headline, Announcement, Severity, Major, None
  <2>3. CASE /\ prev # NoBundle /\ PlanChanged(prev, bundle)
             /\ MaxSeverity(prev, bundle) < Major
    BY <2>3, SeverityOfPlan DEF Headline, Announcement
  <2>4. CASE /\ prev # NoBundle /\ PlanChanged(prev, bundle)
             /\ ~(MaxSeverity(prev, bundle) < Major)
    <3>1. MajorSources(prev, bundle) \subseteq Sources
      BY <1>2 DEF MajorSources
    <3>2. Headline(prev, bundle) =
            {<<IF Added(s, prev) THEN "added" ELSE "changed", s>> : s \in MajorSources(prev, bundle)}
      BY <2>4 DEF Headline
    <3>. QED
      BY <3>1, <3>2 DEF Announcement
  <2>. QED
    BY <2>1, <2>2, <2>3, <2>4
<1>4. PlanChanged(prev, bundle) \in BOOLEAN
  BY DEF PlanChanged
<1>. QED
  BY <1>1, <1>2, <1>3, <1>4 DEF Plan, PlanType

-----------------------------------------------------------------------------
(***************************************************************************)
(* The steps of Next, grouped by what they do to the state.                *)
(***************************************************************************)

(* The run goes on and nothing else changes. *)
Moves(r) ==
    \E from, to \in Steps \ {"idle"} :
        /\ Goto(r, from, to)
        /\ <<from, to>> \in {<<"fetch", "write">>, <<"verify", "check">>, <<"check", "report">>}
        /\ from = "fetch" => /\ Fetched(r) = args[r].watches
                             /\ RunPlan(r).changed \/ args[r].command.force
        /\ from = "verify" => Valid
        /\ UNCHANGED <<args, base, snaps, written, onto, signed, report, diskVars, envVars>>

(* The run puts what it found, and its version after it, in the file. *)
Signs(r) ==
    /\ Replace(r)
    /\ onto[r] # <<>> => args[r].command.key \in Registered
    /\ signed' = [signed EXCEPT ![r] = Len(chain')]

(* The run ends, whatever the reason: committed, or anything else. *)
Ends(r) ==
    /\ \E outcome \in Outcome :
          /\ Finish(r, outcome)
          /\ outcome.result = "committed" =>
                /\ pc[r] = "report"
                /\ outcome = Reported("committed", RunPlan(r), signed[r])
    /\ interrupts' \in Nat
    /\ UNCHANGED <<diskVars, upstream, watched, raced>>

Tick ==
    \/ \E s \in Sources, doc \in Doc : Publish(s, doc)
    \/ \E build \in Builds : Upgrade(build)
    \/ \E r \in Runners :
          \/ \E command \in Commands : Start(r, command)
          \/ \E s \in Sources : Resolve(r, s) \/ Fetch(r, s) \/ WriteSnapshot(r, s)
          \/ WriteProvenance(r)
          \/ OpenChain(r) \/ Moves(r) \/ Signs(r) \/ Ends(r)

(* Every step of the specification is one of these. *)
LEMMA StepsGrouped ==
    ASSUME TypeOK, Next
    PROVE  Tick
<1>1. ASSUME NEW r \in Runners, Proceed(r) \/ Verify(r) \/ CrossCheck(r)
      PROVE  Moves(r)
  <2>1. CASE Proceed(r)
    BY <2>1 DEF Proceed, Moves, Steps, Goto
  <2>2. CASE Verify(r)
    BY <2>2 DEF Verify, Moves, Steps, Goto
  <2>3. CASE CrossCheck(r)
    BY <2>3 DEF CrossCheck, Moves, Steps, Goto
  <2>. QED
    BY <1>1, <2>1, <2>2, <2>3
<1>2. ASSUME NEW r \in Runners, InitFile(r) \/ CommitVersion(r)
      PROVE  Signs(r)
  BY <1>2 DEF InitFile, CommitVersion, Signs, Replace
<1>3. ASSUME NEW r \in Runners,
             \/ StopUnchanged(r) \/ StopDryRun(r) \/ RejectCommit(r) \/ FailVerify(r)
             \/ FailCrossCheck(r) \/ Report(r) \/ Interrupt(r)
      PROVE  Ends(r)
  <2>1. interrupts \in Nat /\ signed[r] \in Nat /\ 0 \in Nat
    BY DEF TypeOK
  <2>2. Failed \in Outcome /\ Failed.result # "committed"
    BY <2>1 DEF Failed, Outcome
  <2>3. \A result \in {"unchanged", "dry_run", "committed"}, n \in Nat :
           /\ Reported(result, RunPlan(r), n) \in Outcome
           /\ Reported(result, RunPlan(r), n).result = result
    <3>1. RunPlan(r).changed \in BOOLEAN
      BY DEF RunPlan, Plan, PlanChanged
    <3>. QED
      BY <3>1 DEF Reported, Outcome
  <2>4. CASE StopUnchanged(r)
    BY <2>1, <2>3, <2>4 DEF StopUnchanged, Ends, envVars
  <2>5. CASE StopDryRun(r)
    BY <2>1, <2>3, <2>5 DEF StopDryRun, Ends, envVars
  <2>6. CASE RejectCommit(r) \/ FailVerify(r) \/ FailCrossCheck(r)
    BY <2>1, <2>2, <2>6 DEF RejectCommit, FailVerify, FailCrossCheck, Ends, envVars
  <2>7. CASE Report(r)
    BY <2>1, <2>3, <2>7 DEF Report, Ends, envVars
  <2>8. CASE Interrupt(r)
    BY <2>1, <2>2, <2>8 DEF Interrupt, Ends
  <2>. QED
    BY <1>3, <2>4, <2>5, <2>6, <2>7, <2>8
<1>. QED
  BY <1>1, <1>2, <1>3 DEF Next, Environment, Step, Tick

-----------------------------------------------------------------------------
(* What a run past the gate has gathered is a bundle of all its sources. *)
LEMMA GatheredBundle ==
    ASSUME TypeOK, SnapshotsComplete, NEW r \in Runners, pc[r] \in Signing
    PROVE  snaps[r] \in Bundle /\ Carried(snaps[r]) = args[r].watches
<1>1. snaps[r] \in Gathering
  BY DEF TypeOK
<1>2. /\ Carried(snaps[r]) \subseteq args[r].watches
      /\ Fetched(r) = args[r].watches
  BY DEF SnapshotsComplete
<1>3. ASSUME NEW s \in Sources, snaps[r][s] # Absent
      PROVE  snaps[r][s] \in Snapshot
  <2>1. s \in Fetched(r)
    BY <1>2, <1>3 DEF Carried
  <2>2. snaps[r][s] \in Partial /\ snaps[r][s].doc # NoDoc
    BY <1>1, <1>3, <2>1 DEF Gathering, Fetched
  <2>. QED
    BY <2>2 DEF Partial, Snapshot
<1>4. snaps[r] \in Bundle
  BY <1>1, <1>3 DEF Gathering, Bundle
<1>. QED
  BY <1>2, <1>4 DEF Fetched, Carried

LEMMA NewVersionTyped ==
    ASSUME TypeOK, SnapshotsComplete, NEW r \in Runners, pc[r] \in Signing
    PROVE  NewVersion(r) \in Version
<1>1. snaps[r] \in Bundle /\ base[r] \in Bundle \cup {NoBundle}
  BY GatheredBundle DEF TypeOK
<1>2. RunPlan(r) \in PlanType
  BY <1>1, PlanTyped DEF RunPlan
<1>3. args[r].command.key \in Keys
  BY DEF TypeOK, Args, Command
<1>. QED
  BY <1>1, <1>2, <1>3 DEF NewVersion, Version

(* Appending leaves the earlier versions where they are. *)
LEMMA AppendKeeps ==
    ASSUME NEW S, NEW seq \in Seq(S), NEW v \in S
    PROVE  /\ Append(seq, v) \in Seq(S)
           /\ Len(Append(seq, v)) = Len(seq) + 1
           /\ DOMAIN Append(seq, v) = DOMAIN seq \cup {Len(seq) + 1}
           /\ \A i \in DOMAIN seq : Append(seq, v)[i] = seq[i]
           /\ Append(seq, v)[Len(seq) + 1] = v
           /\ Append(seq, v) # <<>>
  OBVIOUS

LEMMA NoArgsTyped == NoArgs \in Args
<1>1. PICK k \in Keys : TRUE
  BY PipelineAssumption
<1>2. [force |-> FALSE, dryRun |-> FALSE, key |-> k] \in Command
  BY <1>1 DEF Command
<1>3. (CHOOSE c \in Command : TRUE) \in Command
  BY <1>2
<1>. QED
  BY <1>3 DEF NoArgs, Args

LEMMA InitHolds == Init => IInv
<1>. SUFFICES ASSUME Init
              PROVE  IInv
  OBVIOUS
<1>0. \A s \in Sources : upstream[s] \in Seq(Doc) /\ upstream[s] # <<>>
  <2>1. upstream \in [Sources -> {<<doc>> : doc \in Doc}]
    BY DEF Init
  <2>2. \A doc \in Doc : <<doc>> \in Seq(Doc) /\ <<doc>> # <<>>
    OBVIOUS
  <2>. QED
    BY <2>1, <2>2
<1>1. TypeOK
  <2>1. NoArgs \in Args
    BY NoArgsTyped
  <2>2. Nothing \in Gathering
    BY DEF Nothing, Gathering
  <2>3. NotRun \in Outcome
    BY DEF NotRun, Outcome
  <2>4. upstream \in [Sources -> Seq(Doc)]
    BY <1>0 DEF Init
  <2>5. watched \in SUBSET Sources
    BY PipelineAssumption DEF Init
  <2>6. onto \in [Runners -> Seq(Version)]
    BY DEF Init
  <2>7. raced \in BOOLEAN
    BY DEF Init
  <2>. QED
    BY <2>1, <2>2, <2>3, <2>4, <2>5, <2>6, <2>7 DEF Init, TypeOK, Steps
<1>2. HistoryBegun
  BY <1>0 DEF HistoryBegun
<1>3. \A r \in Runners : Carried(snaps[r]) = {} /\ pc[r] = "idle" /\ args[r].watches = {}
  BY DEF Init, Nothing, Carried, NoArgs
<1>4. /\ chain = <<>> /\ DOMAIN chain = {}
      /\ \A r \in Runners : onto[r] = <<>> /\ DOMAIN onto[r] = {}
  BY DEF Init
<1>5. ~raced
  BY DEF Init
<1>. QED
  BY <1>1, <1>2, <1>3, <1>4, <1>5 DEF IInv, Provenance, Sequential, SnapshotsGenuine,
     SnapshotsComplete, PinsExplainContent, FoundGenuine, Signing, Gathers, Alone,
     LatestIsWatched, RunsInStep, InStep, FoundIsCurrent

-----------------------------------------------------------------------------
(* What the two steps of the fetch loop do to the snapshots of a run. *)
LEMMA ResolvedSnapshot ==
    ASSUME TypeOK, HistoryBegun, NEW r \in Runners, NEW s \in Sources, Resolve(r, s)
    PROVE  LET new == [pin |-> Len(upstream[s]), doc |-> NoDoc]
           IN  /\ new \in Partial
               /\ new.pin \in DOMAIN upstream[s]
               /\ snaps' = [snaps EXCEPT ![r] = [snaps[r] EXCEPT ![s] = new]]
<1>1. upstream[s] \in Seq(Doc) /\ upstream[s] # <<>>
  BY DEF TypeOK, HistoryBegun
<1>2. Len(upstream[s]) \in Nat \ {0} /\ Len(upstream[s]) \in DOMAIN upstream[s]
  BY <1>1
<1>3. snaps \in [Runners -> Gathering]
  BY DEF TypeOK
<1>. QED
  BY <1>2, <1>3 DEF Resolve, Partial, Gathering

LEMMA FetchedSnapshot ==
    ASSUME TypeOK, SnapshotsGenuine, NEW r \in Runners, NEW s \in Sources, Fetch(r, s)
    PROVE  LET new == [pin |-> snaps[r][s].pin, doc |-> upstream[s][snaps[r][s].pin]]
           IN  /\ new \in Snapshot
               /\ new.pin \in DOMAIN upstream[s]
               /\ snaps' = [snaps EXCEPT ![r] = [snaps[r] EXCEPT ![s] = new]]
<1>1. snaps[r] \in Gathering /\ s \in Carried(snaps[r])
  BY DEF TypeOK, Fetch, Resolving, Carried
<1>2. snaps[r][s] \in Partial /\ snaps[r][s].pin \in DOMAIN upstream[s]
  BY <1>1 DEF Gathering, SnapshotsGenuine, Carried
<1>3. upstream[s] \in Seq(Doc)
  BY DEF TypeOK
<1>4. upstream[s][snaps[r][s].pin] \in Doc
  BY <1>2, <1>3
<1>5. [snaps[r][s] EXCEPT !.doc = upstream[s][snaps[r][s].pin]] =
        [pin |-> snaps[r][s].pin, doc |-> upstream[s][snaps[r][s].pin]]
  BY <1>2 DEF Partial
<1>6. snaps' = [snaps EXCEPT ![r] = [snaps[r] EXCEPT
                  ![s] = [snaps[r][s] EXCEPT !.doc = upstream[s][snaps[r][s].pin]]]]
  BY <1>1 DEF Fetch, BytesAt, TypeOK, Gathering
<1>. QED
  BY <1>2, <1>4, <1>5, <1>6 DEF Partial, Snapshot

-----------------------------------------------------------------------------
(***************************************************************************)
(* Preservation.  Each lemma takes the steps of Tick one by one.           *)
(***************************************************************************)
LEMMA TypeStep ==
    ASSUME TypeOK, HistoryBegun, SnapshotsGenuine, SnapshotsComplete, Tick
    PROVE  TypeOK' /\ HistoryBegun'
<1>. USE DEF runVars, diskVars, envVars
<1>1. ASSUME NEW s \in Sources, NEW doc \in Doc, Publish(s, doc)
      PROVE  TypeOK' /\ HistoryBegun'
  <2>1. upstream' \in [Sources -> Seq(Doc)]
    BY <1>1 DEF Publish, TypeOK
  <2>2. HistoryBegun'
    <3>1. \A q \in Sources : upstream[q] \in Seq(Doc) /\ upstream[q] # <<>>
      BY DEF TypeOK, HistoryBegun
    <3>2. Append(upstream[s], doc) # <<>>
      BY <3>1, AppendKeeps
    <3>3. \A q \in Sources : upstream'[q] = IF q = s THEN Append(upstream[s], doc) ELSE upstream[q]
      BY <1>1 DEF Publish, TypeOK
    <3>. QED
      BY <3>1, <3>2, <3>3 DEF HistoryBegun
  <2>. QED
    BY <1>1, <2>1, <2>2 DEF Publish, TypeOK
<1>2. ASSUME NEW build \in Builds, Upgrade(build)
      PROVE  TypeOK' /\ HistoryBegun'
  BY <1>2, PipelineAssumption DEF Upgrade, TypeOK, HistoryBegun
<1>3. ASSUME NEW r \in Runners, NEW command \in Commands, Start(r, command)
      PROVE  TypeOK' /\ HistoryBegun'
  <2>1. [command |-> command, watches |-> watched] \in Args
    BY PipelineAssumption DEF Args, Command, TypeOK
  <2>2. chain # <<>> => Current \in Bundle
    <3>1. chain # <<>> => Len(chain) \in DOMAIN chain /\ chain[Len(chain)] \in Version
      BY DEF TypeOK
    <3>. QED
      BY <3>1 DEF Current, Version
  <2>3. NotRun \in Outcome
    BY DEF NotRun, Outcome
  <2>4. pc' \in [Runners -> Steps]
    BY <1>3 DEF Start, Goto, TypeOK, Steps
  <2>. QED
    BY <1>3, <2>1, <2>2, <2>3, <2>4 DEF Start, TypeOK, HistoryBegun
<1>4. ASSUME NEW r \in Runners, NEW s \in Sources, Resolve(r, s)
      PROVE  TypeOK' /\ HistoryBegun'
  <2>1. PICK new \in Partial : snaps' = [snaps EXCEPT ![r] = [snaps[r] EXCEPT ![s] = new]]
    BY <1>4, ResolvedSnapshot
  <2>2. [snaps[r] EXCEPT ![s] = new] \in Gathering
    BY <2>1 DEF TypeOK, Gathering
  <2>3. snaps' \in [Runners -> Gathering]
    BY <2>1, <2>2 DEF TypeOK
  <2>. QED
    BY <1>4, <2>3 DEF Resolve, TypeOK, HistoryBegun
<1>5. ASSUME NEW r \in Runners, NEW s \in Sources, Fetch(r, s)
      PROVE  TypeOK' /\ HistoryBegun'
  <2>1. PICK new \in Snapshot : snaps' = [snaps EXCEPT ![r] = [snaps[r] EXCEPT ![s] = new]]
    BY <1>5, FetchedSnapshot
  <2>2. new \in Partial
    BY <2>1 DEF Snapshot, Partial
  <2>3. [snaps[r] EXCEPT ![s] = new] \in Gathering
    BY <2>2 DEF TypeOK, Gathering
  <2>4. snaps' \in [Runners -> Gathering]
    BY <2>1, <2>3 DEF TypeOK
  <2>. QED
    BY <1>5, <2>4 DEF Fetch, TypeOK, HistoryBegun
<1>6. ASSUME NEW r \in Runners, NEW s \in Sources, WriteSnapshot(r, s)
      PROVE  TypeOK' /\ HistoryBegun'
  <2>1. snaps[r][s] \in Partial
    BY <1>6 DEF WriteSnapshot, Carried, TypeOK, Gathering
  <2>2. data' \in [Sources -> Doc \cup {NoDoc}]
    BY <1>6, <2>1 DEF WriteSnapshot, TypeOK, Partial
  <2>. QED
    BY <1>6, <2>2 DEF WriteSnapshot, TypeOK, HistoryBegun
<1>7. ASSUME NEW r \in Runners, WriteProvenance(r)
      PROVE  TypeOK' /\ HistoryBegun'
  <2>1. snaps[r] \in Gathering
    BY DEF TypeOK
  <2>2. Pins(snaps[r]) \in [Sources -> Nat]
    BY <2>1 DEF Pins, Gathering, Partial
  <2>3. pc' \in [Runners -> Steps]
    BY <1>7 DEF WriteProvenance, Goto, TypeOK, Steps
  <2>. QED
    BY <1>7, <2>2, <2>3 DEF WriteProvenance, TypeOK, HistoryBegun
<1>8. ASSUME NEW r \in Runners, Moves(r)
      PROVE  TypeOK' /\ HistoryBegun'
  <2>1. pc' \in [Runners -> Steps]
    BY <1>8 DEF Moves, Goto, TypeOK
  <2>. QED
    BY <1>8, <2>1 DEF Moves, TypeOK, HistoryBegun
<1>9. ASSUME NEW r \in Runners, Signs(r)
      PROVE  TypeOK' /\ HistoryBegun'
  <2>1. NewVersion(r) \in Version
    BY <1>9, NewVersionTyped DEF Signs, Replace, Goto, Signing
  <2>2. chain' \in Seq(Version) /\ Len(chain') \in Nat
    <3>1. onto[r] \in Seq(Version)
      BY DEF TypeOK
    <3>. QED
      BY <1>9, <2>1, <3>1 DEF Signs, Replace
  <2>3. pc' \in [Runners -> Steps]
    BY <1>9 DEF Signs, Replace, Goto, TypeOK, Steps
  <2>4. onto' \in [Runners -> Seq(Version)]
    BY <1>9 DEF Signs, Replace, TypeOK
  <2>5. raced' \in BOOLEAN
    BY <1>9 DEF Signs, Replace, TypeOK
  <2>. QED
    BY <1>9, <2>2, <2>3, <2>4, <2>5 DEF Signs, Replace, TypeOK, HistoryBegun
<1>10. ASSUME NEW r \in Runners, Ends(r)
       PROVE  TypeOK' /\ HistoryBegun'
  <2>1. NoArgs \in Args
    BY NoArgsTyped
  <2>2. Nothing \in Gathering
    BY DEF Nothing, Gathering
  <2>3. pc' \in [Runners -> Steps]
    BY <1>10 DEF Ends, Finish, TypeOK, Steps
  <2>. QED
    BY <1>10, <2>1, <2>2, <2>3 DEF Ends, Finish, TypeOK, HistoryBegun
<1>11. ASSUME NEW r \in Runners, OpenChain(r)
       PROVE  TypeOK' /\ HistoryBegun'
  <2>1. pc' \in [Runners -> Steps]
    BY <1>11 DEF OpenChain, Goto, TypeOK, Steps
  <2>. QED
    BY <1>11, <2>1 DEF OpenChain, TypeOK, HistoryBegun
<1>. QED
  BY <1>1, <1>2, <1>3, <1>4, <1>5, <1>6, <1>7, <1>8, <1>9, <1>10, <1>11 DEF Tick

(* Upstream never rewrites a commit. *)
LEMMA UpstreamGrows ==
    ASSUME TypeOK, Tick
    PROVE  \A s \in Sources : \A i \in DOMAIN upstream[s] :
              i \in DOMAIN upstream'[s] /\ upstream'[s][i] = upstream[s][i]
<1>1. ASSUME NEW s \in Sources, NEW doc \in Doc, Publish(s, doc)
      PROVE  \A q \in Sources : \A i \in DOMAIN upstream[q] :
                i \in DOMAIN upstream'[q] /\ upstream'[q][i] = upstream[q][i]
  <2>1. \A q \in Sources : upstream'[q] = IF q = s THEN Append(upstream[s], doc) ELSE upstream[q]
    BY <1>1 DEF Publish, TypeOK
  <2>2. \A i \in DOMAIN upstream[s] :
           /\ i \in DOMAIN Append(upstream[s], doc)
           /\ Append(upstream[s], doc)[i] = upstream[s][i]
    <3>1. upstream[s] \in Seq(Doc)
      BY DEF TypeOK
    <3>. QED
      BY <3>1, AppendKeeps
  <2>. QED
    BY <2>1, <2>2
<1>2. CASE UNCHANGED upstream
  BY <1>2
<1>3. (\E s \in Sources, doc \in Doc : Publish(s, doc)) \/ UNCHANGED upstream
  BY DEF Tick, OpenChain, Upgrade, Start, Resolve, Fetch, WriteSnapshot, WriteProvenance,
     Moves, Signs, Replace, Ends, envVars
<1>. QED
  BY <1>1, <1>2, <1>3

(* A snapshot that a step leaves behind was there before, or was just      *)
(* taken from upstream by a run that is fetching.                          *)
LEMMA SnapshotsChange ==
    ASSUME TypeOK, HistoryBegun, SnapshotsGenuine, Tick, NEW q \in Runners
    PROVE  \A s \in Carried(snaps'[q]) :
              \/ s \in Carried(snaps[q]) /\ snaps'[q][s] = snaps[q][s]
              \/ /\ snaps'[q][s].pin \in DOMAIN upstream[s]
                 /\ snaps'[q][s].doc # NoDoc => Genuine(snaps'[q][s], s)
<1>1. ASSUME NEW r \in Runners, NEW s \in Sources, Resolve(r, s) \/ Fetch(r, s)
      PROVE  \A z \in Carried(snaps'[q]) :
                \/ z \in Carried(snaps[q]) /\ snaps'[q][z] = snaps[q][z]
                \/ /\ snaps'[q][z].pin \in DOMAIN upstream[z]
                   /\ snaps'[q][z].doc # NoDoc => Genuine(snaps'[q][z], z)
  <2>1. PICK new : /\ new.pin \in DOMAIN upstream[s]
                   /\ new.doc # NoDoc => Genuine(new, s)
                   /\ snaps' = [snaps EXCEPT ![r] = [snaps[r] EXCEPT ![s] = new]]
    <3>1. CASE Resolve(r, s)
      BY <3>1, ResolvedSnapshot
    <3>2. CASE Fetch(r, s)
      BY <3>2, FetchedSnapshot DEF Genuine
    <3>. QED
      BY <1>1, <3>1, <3>2
  <2>2. snaps \in [Runners -> Gathering] /\ snaps[r] \in Gathering /\ snaps[q] \in Gathering
    BY DEF TypeOK
  <2>3. snaps'[q] = IF q = r THEN [snaps[r] EXCEPT ![s] = new] ELSE snaps[q]
    BY <2>1, <2>2
  <2>4. \A z \in Sources : snaps'[q][z] = IF q = r /\ z = s THEN new ELSE snaps[q][z]
    BY <2>2, <2>3 DEF Gathering
  <2>. QED
    BY <2>1, <2>4 DEF Carried
<1>2. ASSUME NEW r \in Runners, Ends(r)
      PROVE  \A z \in Carried(snaps'[q]) : z \in Carried(snaps[q]) /\ snaps'[q][z] = snaps[q][z]
  <2>1. snaps'[q] = IF q = r THEN Nothing ELSE snaps[q]
    BY <1>2 DEF Ends, Finish, TypeOK
  <2>2. Carried(Nothing) = {}
    BY DEF Carried, Nothing
  <2>. QED
    BY <2>1, <2>2
<1>3. CASE UNCHANGED snaps
  BY <1>3
<1>4. \/ \E r \in Runners, s \in Sources : Resolve(r, s) \/ Fetch(r, s)
      \/ \E r \in Runners : Ends(r)
      \/ UNCHANGED snaps
  BY DEF Tick, OpenChain, Publish, Upgrade, Start, WriteSnapshot, WriteProvenance,
     Moves, Signs, Replace, runVars, envVars
<1>. QED
  BY <1>1, <1>2, <1>3, <1>4

LEMMA GenuineStep ==
    ASSUME TypeOK, HistoryBegun, SnapshotsGenuine, Tick
    PROVE  SnapshotsGenuine'
<1>. SUFFICES ASSUME NEW q \in Runners, NEW s \in Carried(snaps'[q])
              PROVE  /\ snaps'[q][s].pin \in DOMAIN upstream'[s]
                     /\ snaps'[q][s].doc # NoDoc =>
                           snaps'[q][s].doc = upstream'[s][snaps'[q][s].pin]
  BY DEF SnapshotsGenuine, Genuine, Carried
<1>1. /\ snaps'[q][s].pin \in DOMAIN upstream[s]
      /\ snaps'[q][s].doc # NoDoc => snaps'[q][s].doc = upstream[s][snaps'[q][s].pin]
  BY SnapshotsChange DEF SnapshotsGenuine, Genuine
<1>2. s \in Sources
  BY DEF Carried
<1>. QED
  BY <1>1, <1>2, UpstreamGrows

LEMMA CompleteStep ==
    ASSUME TypeOK, HistoryBegun, SnapshotsGenuine, SnapshotsComplete, Tick
    PROVE  SnapshotsComplete'
<1>. DEFINE Complete(q) ==
       /\ Carried(snaps[q]) \subseteq args[q].watches
       /\ pc[q] = "idle" => args[q].watches = {}
       /\ pc[q] \in Signing => Fetched(q) = args[q].watches
<1>. SUFFICES ASSUME NEW q \in Runners
              PROVE  Complete(q)'
  BY DEF SnapshotsComplete
<1>0. Complete(q)
  BY DEF SnapshotsComplete
<1>1. ASSUME snaps'[q] = snaps[q], args'[q] = args[q],
             pc'[q] = pc[q] \/ pc'[q] \in Signing,
             pc'[q] \in Signing => pc[q] \in Signing \/ Fetched(q) = args[q].watches
      PROVE  Complete(q)'
  BY <1>0, <1>1 DEF Fetched, Carried, Signing
<1>2. ASSUME NEW r \in Runners, NEW command \in Commands, Start(r, command)
      PROVE  Complete(q)'
  <2>1. snaps'[q] = snaps[q]
    BY <1>2 DEF Start
  <2>2. CASE q = r
    <3>1. Carried(snaps[q]) = {} /\ pc'[q] = "fetch"
      BY <1>0, <1>2, <2>2 DEF Start, Goto, TypeOK
    <3>. QED
      BY <2>1, <3>1 DEF Carried, Signing
  <2>3. CASE q # r
    BY <1>1, <1>2, <2>1, <2>3 DEF Start, Goto, TypeOK
  <2>. QED
    BY <2>2, <2>3
<1>3. ASSUME NEW r \in Runners, NEW s \in Sources, Resolve(r, s) \/ Fetch(r, s)
      PROVE  Complete(q)'
  <2>1. /\ snaps' = [snaps EXCEPT ![r] = [snaps[r] EXCEPT ![s] = snaps'[r][s]]]
        /\ s \in args[r].watches
        /\ pc[r] = "fetch" /\ UNCHANGED <<pc, args>>
    <3>1. CASE Resolve(r, s)
      BY <3>1, ResolvedSnapshot DEF Resolve, TypeOK, Gathering
    <3>2. CASE Fetch(r, s)
      <4>1. s \in Carried(snaps[r]) /\ Complete(r)
        BY <3>2 DEF Fetch, Resolving, Carried, SnapshotsComplete
      <4>. QED
        BY <3>2, <4>1, FetchedSnapshot DEF Fetch, TypeOK, Gathering
    <3>. QED
      BY <1>3, <3>1, <3>2
  <2>2. CASE q = r
    <3>1. Carried(snaps'[q]) \subseteq Carried(snaps[q]) \cup {s}
      BY <2>1, <2>2 DEF Carried, TypeOK, Gathering
    <3>. QED
      BY <1>0, <2>1, <2>2, <3>1 DEF Signing, Carried
  <2>3. CASE q # r
    <3>1. snaps'[q] = snaps[q]
      BY <2>1, <2>3 DEF TypeOK
    <3>. QED
      BY <1>1, <2>1, <3>1
  <2>. QED
    BY <2>2, <2>3
<1>4. ASSUME NEW r \in Runners, Ends(r)
      PROVE  Complete(q)'
  <2>1. CASE q = r
    <3>1. snaps'[q] = Nothing /\ args'[q] = NoArgs /\ pc'[q] = "idle"
      BY <1>4, <2>1 DEF Ends, Finish, TypeOK
    <3>. QED
      BY <3>1 DEF Nothing, NoArgs, Carried, Signing
  <2>2. CASE q # r
    BY <1>1, <1>4, <2>2 DEF Ends, Finish, TypeOK
  <2>. QED
    BY <2>1, <2>2
<1>5. ASSUME NEW r \in Runners,
             \/ WriteProvenance(r) \/ OpenChain(r) \/ Moves(r) \/ Signs(r)
             \/ \E s \in Sources : WriteSnapshot(r, s)
      PROVE  Complete(q)'
  <2>1. /\ UNCHANGED <<snaps, args>>
        /\ pc' = [pc EXCEPT ![r] = pc'[r]]
        /\ pc'[r] \in Signing
        /\ pc[r] \in Signing \/ Fetched(r) = args[r].watches
    BY <1>5 DEF WriteProvenance, OpenChain, Moves, Signs, Replace, WriteSnapshot, Goto,
       Signing, TypeOK
  <2>. QED
    BY <1>1, <2>1 DEF TypeOK
<1>6. CASE (\E s \in Sources, doc \in Doc : Publish(s, doc)) \/ \E build \in Builds : Upgrade(build)
  BY <1>1, <1>6 DEF Publish, Upgrade, runVars
<1>. QED
  BY <1>2, <1>3, <1>4, <1>5, <1>6 DEF Tick

LEMMA PinsStep ==
    ASSUME TypeOK, HistoryBegun, SnapshotsGenuine, SnapshotsComplete, PinsExplainContent,
           FoundGenuine, Tick
    PROVE  PinsExplainContent'
<1>. DEFINE Explained(i) ==
       \A s \in Carried(chain[i].bundle) : Genuine(chain[i].bundle[s], s)
<1>1. ASSUME NEW snap, NEW s \in Sources, Genuine(snap, s)
      PROVE  snap.pin \in DOMAIN upstream'[s] /\ snap.doc = upstream'[s][snap.pin]
  BY <1>1, UpstreamGrows DEF Genuine
<1>2. ASSUME UNCHANGED chain
      PROVE  PinsExplainContent'
  <2>1. SUFFICES ASSUME NEW i \in DOMAIN chain, NEW s \in Carried(chain[i].bundle)
                 PROVE  /\ chain[i].bundle[s].pin \in DOMAIN upstream'[s]
                        /\ chain[i].bundle[s].doc = upstream'[s][chain[i].bundle[s].pin]
    BY <1>2 DEF PinsExplainContent, Genuine, Carried
  <2>2. Genuine(chain[i].bundle[s], s) /\ s \in Sources
    BY DEF PinsExplainContent, Carried
  <2>. QED
    BY <1>1, <2>2
<1>3. ASSUME NEW r \in Runners, Signs(r)
      PROVE  PinsExplainContent'
  <2>1. pc[r] \in Signing /\ chain' = Append(onto[r], NewVersion(r)) /\ UNCHANGED upstream
    BY <1>3 DEF Signs, Replace, Goto, Signing, envVars
  <2>2. NewVersion(r) \in Version /\ onto[r] \in Seq(Version)
    BY <2>1, NewVersionTyped DEF TypeOK
  <2>3. \A s \in Carried(snaps[r]) : Genuine(snaps[r][s], s)
    <3>1. Fetched(r) = args[r].watches /\ Carried(snaps[r]) \subseteq args[r].watches
      BY <2>1 DEF SnapshotsComplete
    <3>. QED
      BY <3>1 DEF SnapshotsGenuine, Fetched
  <2>4. ASSUME NEW i \in DOMAIN chain'
        PROVE  Explained(i)'
    <3>1. CASE i \in DOMAIN onto[r]
      <4>1. chain'[i] = onto[r][i]
        BY <2>1, <2>2, <3>1, AppendKeeps
      <4>2. \A s \in Carried(onto[r][i].bundle) : Genuine(onto[r][i].bundle[s], s)
        BY <3>1 DEF FoundGenuine
      <4>. QED
        BY <2>1, <4>1, <4>2 DEF Genuine, Carried
    <3>2. CASE i = Len(onto[r]) + 1
      <4>1. chain'[i].bundle = snaps[r]
        BY <2>1, <2>2, <3>2, AppendKeeps DEF NewVersion
      <4>. QED
        BY <2>1, <2>3, <4>1 DEF Genuine, Carried
    <3>. QED
      BY <2>1, <2>2, <2>4, <3>1, <3>2, AppendKeeps
  <2>. QED
    BY <2>4 DEF PinsExplainContent
<1>4. (\E r \in Runners : Signs(r)) \/ UNCHANGED chain
  BY DEF Tick, OpenChain, Publish, Upgrade, Start, Resolve, Fetch, WriteSnapshot, WriteProvenance,
     Moves, Ends, diskVars
<1>. QED
  BY <1>2, <1>3, <1>4

LEMMA FoundStep ==
    ASSUME TypeOK, PinsExplainContent, FoundGenuine, Tick
    PROVE  FoundGenuine'
<1>1. ASSUME NEW q \in Runners, NEW i \in DOMAIN onto'[q],
             NEW s \in Carried(onto'[q][i].bundle)
      PROVE  Genuine(onto'[q][i].bundle[s], s)
  <2>1. CASE onto'[q] = onto[q]
    BY <1>1, <2>1 DEF FoundGenuine
  <2>2. CASE onto'[q] = chain
    BY <1>1, <2>2 DEF PinsExplainContent
  <2>3. CASE onto'[q] = <<>>
    BY <1>1, <2>3
  <2>4. onto'[q] = onto[q] \/ onto'[q] = chain \/ onto'[q] = <<>>
    BY DEF Tick, OpenChain, Publish, Upgrade, Start, Resolve, Fetch, WriteSnapshot,
       WriteProvenance, Moves, Signs, Replace, Ends, Finish, runVars, TypeOK
  <2>. QED
    BY <2>1, <2>2, <2>3, <2>4
<1>2. ASSUME NEW q \in Runners, NEW i \in DOMAIN onto'[q],
             NEW s \in Carried(onto'[q][i].bundle)
      PROVE  /\ onto'[q][i].bundle[s].pin \in DOMAIN upstream'[s]
             /\ onto'[q][i].bundle[s].doc = upstream'[s][onto'[q][i].bundle[s].pin]
  <2>1. s \in Sources
    BY <1>2 DEF Carried
  <2>. QED
    BY <1>1, <1>2, <2>1, UpstreamGrows DEF Genuine
<1>. QED
  BY <1>2 DEF FoundGenuine, Genuine, Carried

(* The invariant of the part that holds whatever overlaps. *)
LEMMA ProvenanceStep ==
    ASSUME Provenance, [Next]_vars
    PROVE  Provenance'
<1>1. CASE Next
  BY <1>1, StepsGrouped, TypeStep, GenuineStep, CompleteStep, PinsStep, FoundStep
     DEF Provenance
<1>2. CASE UNCHANGED vars
  BY <1>2 DEF vars, runVars, diskVars, envVars, Provenance, TypeOK, HistoryBegun,
     SnapshotsGenuine, SnapshotsComplete, PinsExplainContent, FoundGenuine, Genuine,
     Fetched, Carried
<1>. QED
  BY <1>1, <1>2

-----------------------------------------------------------------------------
(***************************************************************************)
(* Runs that do not overlap.                                               *)
(***************************************************************************)

(* While a run is under way the others are idle, before and after a step. *)
LEMMA AloneStep ==
    ASSUME TypeOK, Serialized, Alone, Tick
    PROVE  Alone'
<1>1. ASSUME NEW r \in Runners, NEW command \in Commands, Start(r, command)
      PROVE  Alone'
  <2>1. \A q \in Runners : pc[q] = "idle"
    BY <1>1 DEF Start, MayStart
  <2>2. pc' = [pc EXCEPT ![r] = "fetch"]
    BY <1>1 DEF Start, Goto
  <2>. QED
    BY <2>1, <2>2 DEF Alone, TypeOK
<1>2. ASSUME \A q \in Runners : pc[q] = "idle" => pc'[q] = "idle"
      PROVE  Alone'
  BY <1>2 DEF Alone
<1>3. ASSUME NEW r \in Runners,
             \/ WriteProvenance(r) \/ OpenChain(r) \/ Moves(r) \/ Signs(r) \/ Ends(r)
             \/ \E s \in Sources : Resolve(r, s) \/ Fetch(r, s) \/ WriteSnapshot(r, s)
      PROVE  \A q \in Runners : pc[q] = "idle" => pc'[q] = "idle"
  BY <1>3 DEF WriteProvenance, OpenChain, Moves, Signs, Replace, Ends, Finish, Goto, Steps,
     Resolve, Fetch, WriteSnapshot, TypeOK
<1>4. CASE (\E s \in Sources, doc \in Doc : Publish(s, doc)) \/ \E build \in Builds : Upgrade(build)
  BY <1>2, <1>4 DEF Publish, Upgrade, runVars
<1>. QED
  BY <1>1, <1>2, <1>3, <1>4 DEF Tick

(* What Current is after a version is signed. *)
LEMMA SignedIsCurrent ==
    ASSUME TypeOK, SnapshotsComplete, NEW r \in Runners, Signs(r)
    PROVE  /\ chain' # <<>>
           /\ Current' = snaps[r]
           /\ Carried(snaps[r]) = args[r].watches
<1>1. pc[r] \in Signing /\ chain' = Append(onto[r], NewVersion(r))
  BY DEF Signs, Replace, Goto, Signing
<1>2. NewVersion(r) \in Version /\ onto[r] \in Seq(Version)
  BY <1>1, NewVersionTyped DEF TypeOK
<1>3. Len(chain') = Len(onto[r]) + 1 /\ chain'[Len(onto[r]) + 1] = NewVersion(r) /\ chain' # <<>>
  BY <1>1, <1>2
<1>. QED
  BY <1>1, <1>3, GatheredBundle DEF Current, NewVersion

LEMMA InStepStep ==
    ASSUME Provenance, Alone, LatestIsWatched, RunsInStep, Tick
    PROVE  RunsInStep'
<1>. USE DEF Provenance
<1>. SUFFICES ASSUME NEW q \in Runners
              PROVE  InStep(q)'
  BY DEF RunsInStep
<1>0. \A r \in Runners : InStep(r)
  BY DEF RunsInStep
<1>1. ASSUME chain' = chain, base'[q] = base[q], args'[q] = args[q], snaps'[q] = snaps[q],
             pc'[q] \in Gathers => pc[q] \in Gathers
      PROVE  InStep(q)'
  BY <1>0, <1>1 DEF InStep, Latest, Current, Carried
<1>2. ASSUME NEW r \in Runners, NEW command \in Commands, Start(r, command)
      PROVE  InStep(q)'
  <2>1. CASE q = r
    <3>1. Carried(snaps[q]) = {}
      BY <1>2, <2>1 DEF Start, Goto, SnapshotsComplete
    <3>2. /\ chain' = chain /\ snaps' = snaps
          /\ base'[q] = Latest /\ args'[q].watches = watched
      BY <1>2, <2>1 DEF Start, TypeOK, Latest, diskVars
    <3>. QED
      BY <3>1, <3>2 DEF InStep, Latest, Current, Carried, LatestIsWatched
  <2>2. CASE q # r
    BY <1>1, <1>2, <2>2 DEF Start, Goto, TypeOK, diskVars
  <2>. QED
    BY <2>1, <2>2
<1>3. ASSUME NEW r \in Runners, NEW s \in Sources, Resolve(r, s) \/ Fetch(r, s)
      PROVE  InStep(q)'
  <2>1. PICK new : /\ snaps' = [snaps EXCEPT ![r] = [snaps[r] EXCEPT ![s] = new]]
                   /\ chain # <<>> /\ s \in Carried(Current) => Current[s].pin <= new.pin
    <3>1. ASSUME chain # <<>>, s \in Carried(Current)
          PROVE  Current[s].pin \in DOMAIN upstream[s]
      <4>1. Len(chain) \in DOMAIN chain
        BY <3>1 DEF TypeOK
      <4>. QED
        BY <3>1, <4>1 DEF PinsExplainContent, Genuine, Current
    <3>2. CASE Resolve(r, s)
      <4>1. \A i \in DOMAIN upstream[s] : i <= Len(upstream[s])
        BY DEF TypeOK
      <4>. DEFINE new == [pin |-> Len(upstream[s]), doc |-> NoDoc]
      <4>2. /\ snaps' = [snaps EXCEPT ![r] = [snaps[r] EXCEPT ![s] = new]]
            /\ new.pin = Len(upstream[s])
        BY <3>2, ResolvedSnapshot
      <4>3. chain # <<>> /\ s \in Carried(Current) => Current[s].pin <= new.pin
        BY <3>1, <4>1, <4>2
      <4>. HIDE DEF new
      <4>. QED
        BY <4>2, <4>3
    <3>3. CASE Fetch(r, s)
      <4>1. s \in Carried(snaps[r]) /\ pc[r] \in Gathers
        BY <3>3 DEF Fetch, Resolving, Carried, Gathers
      <4>2. chain # <<>> /\ s \in Carried(Current) => Current[s].pin <= snaps[r][s].pin
        BY <1>0, <4>1 DEF InStep
      <4>. DEFINE new == [pin |-> snaps[r][s].pin, doc |-> upstream[s][snaps[r][s].pin]]
      <4>3. /\ snaps' = [snaps EXCEPT ![r] = [snaps[r] EXCEPT ![s] = new]]
            /\ new.pin = snaps[r][s].pin
        BY <3>3, FetchedSnapshot
      <4>. HIDE DEF new
      <4>. QED
        BY <4>2, <4>3
    <3>. QED
      BY <1>3, <3>2, <3>3
  <2>2. UNCHANGED <<pc, base, args, chain>> /\ pc[r] \in Gathers
    BY <1>3 DEF Resolve, Fetch, diskVars, Gathers
  <2>3. CASE q = r
    <3>1. \A z \in Carried(snaps'[q]) :
             \/ z = s /\ snaps'[q][z] = new
             \/ z \in Carried(snaps[q]) /\ snaps'[q][z] = snaps[q][z]
      BY <2>1, <2>3 DEF Carried, TypeOK, Gathering
    <3>. QED
      BY <1>0, <2>1, <2>2, <2>3, <3>1 DEF InStep, Latest, Current, Carried
  <2>4. CASE q # r
    <3>1. snaps'[q] = snaps[q]
      BY <2>1, <2>4 DEF TypeOK
    <3>. QED
      BY <1>1, <2>2, <3>1
  <2>. QED
    BY <2>3, <2>4
<1>4. ASSUME NEW r \in Runners, Signs(r)
      PROVE  InStep(q)'
  <2>1. pc'[q] \notin Gathers
    BY <1>4 DEF Signs, Replace, Goto, Alone, Gathers, TypeOK
  <2>. QED
    BY <2>1 DEF InStep
<1>5. ASSUME NEW r \in Runners, Ends(r)
      PROVE  InStep(q)'
  <2>1. CASE q = r
    <3>1. pc'[q] = "idle"
      BY <1>5, <2>1 DEF Ends, Finish, TypeOK
    <3>. QED
      BY <3>1 DEF InStep, Gathers
  <2>2. CASE q # r
    BY <1>1, <1>5, <2>2 DEF Ends, Finish, TypeOK, diskVars
  <2>. QED
    BY <2>1, <2>2
<1>6. ASSUME NEW r \in Runners,
             \/ WriteProvenance(r) \/ OpenChain(r) \/ Moves(r)
             \/ \E s \in Sources : WriteSnapshot(r, s)
      PROVE  InStep(q)'
  <2>1. /\ UNCHANGED <<chain, base, args, snaps>>
        /\ pc'[q] \in Gathers => pc[q] \in Gathers
    BY <1>6 DEF WriteProvenance, OpenChain, Moves, WriteSnapshot, Goto, Gathers, TypeOK,
       diskVars
  <2>. QED
    BY <1>1, <2>1
<1>7. CASE (\E s \in Sources, doc \in Doc : Publish(s, doc)) \/ \E build \in Builds : Upgrade(build)
  BY <1>1, <1>7 DEF Publish, Upgrade, runVars, diskVars
<1>. QED
  BY <1>2, <1>3, <1>4, <1>5, <1>6, <1>7 DEF Tick

LEMMA WatchedStep ==
    ASSUME Provenance, LatestIsWatched, Tick
    PROVE  LatestIsWatched'
<1>. USE DEF Provenance
<1>1. ASSUME NEW r \in Runners, Signs(r)
      PROVE  LatestIsWatched'
  <2>1. Current' = snaps[r] /\ Carried(snaps[r]) \subseteq watched
    BY <1>1, SignedIsCurrent DEF LatestIsWatched
  <2>. QED
    BY <1>1, <2>1 DEF Signs, Replace, LatestIsWatched, Carried, envVars
<1>2. ASSUME NEW build \in Builds, Upgrade(build)
      PROVE  LatestIsWatched'
  BY <1>2 DEF Upgrade, LatestIsWatched, Current, Carried, runVars, diskVars
<1>3. ASSUME NEW r \in Runners, NEW command \in Commands, Start(r, command)
      PROVE  LatestIsWatched'
  BY <1>3 DEF Start, LatestIsWatched, Current, Carried, diskVars, envVars, TypeOK
<1>4. ASSUME NEW r \in Runners, Ends(r)
      PROVE  LatestIsWatched'
  BY <1>4 DEF Ends, Finish, NoArgs, LatestIsWatched, Current, Carried, diskVars, TypeOK
<1>5. CASE UNCHANGED <<chain, watched, args>>
  BY <1>5 DEF LatestIsWatched, Current, Carried
<1>6. \/ \E r \in Runners : Signs(r) \/ Ends(r) \/ \E command \in Commands : Start(r, command)
      \/ \E build \in Builds : Upgrade(build)
      \/ UNCHANGED <<chain, watched, args>>
  BY DEF Tick, OpenChain, Publish, Resolve, Fetch, WriteSnapshot, WriteProvenance, Moves,
     runVars, diskVars, envVars
<1>. QED
  BY <1>1, <1>2, <1>3, <1>4, <1>5, <1>6

(* A run that is alone writes over the chain it read. *)
LEMMA CurrentStep ==
    ASSUME TypeOK, Alone, FoundIsCurrent, Tick
    PROVE  FoundIsCurrent'
<1>1. ASSUME UNCHANGED <<chain, onto, raced>>,
             \A q \in Runners : pc'[q] = "append" => pc[q] = "append"
      PROVE  FoundIsCurrent'
  BY <1>1 DEF FoundIsCurrent
<1>2. ASSUME NEW r \in Runners, Signs(r)
      PROVE  FoundIsCurrent'
  <2>1. pc[r] = "append" /\ pc'[r] = "verify" /\ ~raced'
    BY <1>2 DEF Signs, Replace, Goto, FoundIsCurrent, TypeOK
  <2>2. ASSUME NEW q \in Runners
        PROVE  pc'[q] # "append"
    BY <1>2, <2>1 DEF Signs, Replace, Goto, Alone, TypeOK
  <2>. QED
    BY <2>1, <2>2 DEF FoundIsCurrent
<1>3. ASSUME NEW r \in Runners, OpenChain(r)
      PROVE  FoundIsCurrent'
  BY <1>3 DEF OpenChain, Goto, FoundIsCurrent, TypeOK, diskVars, envVars
<1>4. ASSUME NEW r \in Runners, Ends(r)
      PROVE  FoundIsCurrent'
  BY <1>4 DEF Ends, Finish, FoundIsCurrent, TypeOK, diskVars
<1>5. ASSUME NEW r \in Runners,
             \/ WriteProvenance(r) \/ Moves(r) \/ \E command \in Commands : Start(r, command)
             \/ \E s \in Sources : Resolve(r, s) \/ Fetch(r, s) \/ WriteSnapshot(r, s)
      PROVE  FoundIsCurrent'
  BY <1>1, <1>5 DEF WriteProvenance, Moves, Start, Resolve, Fetch, WriteSnapshot, Goto,
     TypeOK, diskVars, envVars
<1>6. CASE (\E s \in Sources, doc \in Doc : Publish(s, doc)) \/ \E build \in Builds : Upgrade(build)
  BY <1>1, <1>6 DEF Publish, Upgrade, runVars, diskVars
<1>. QED
  BY <1>2, <1>3, <1>4, <1>5, <1>6 DEF Tick

(* The whole invariant is inductive. *)
LEMMA Preserved ==
    ASSUME IInv, [Next]_vars
    PROVE  IInv'
<1>1. Provenance'
  BY ProvenanceStep DEF IInv
<1>2. ASSUME Serialized
      PROVE  Sequential'
  <2>1. Provenance /\ Alone /\ LatestIsWatched /\ RunsInStep /\ FoundIsCurrent
    BY <1>2 DEF IInv, Sequential
  <2>2. CASE Next
    BY <1>2, <2>1, <2>2, StepsGrouped, AloneStep, WatchedStep, InStepStep,
       CurrentStep DEF Sequential, Provenance
  <2>3. CASE UNCHANGED vars
    BY <2>1, <2>3 DEF vars, runVars, diskVars, envVars, Sequential, Alone, LatestIsWatched,
       RunsInStep, InStep, Latest, Current, Carried, FoundIsCurrent
  <2>. QED
    BY <2>2, <2>3
<1>. QED
  BY <1>1, <1>2 DEF IInv

(***************************************************************************)
(* Every variable of every reachable state has its type, whatever the      *)
(* sources, the documents, the diffs and the number of runs.               *)
(***************************************************************************)
THEOREM Types == Spec => []TypeOK
<1>1. Spec => []IInv
  BY InitHolds, Preserved, PTL DEF Spec
<1>2. IInv => TypeOK
  BY DEF IInv, Provenance
<1>. QED
  BY <1>1, <1>2, PTL

(***************************************************************************)
(* Every signed bundle holds the bytes of the commits it names, also when  *)
(* runs overlap and whatever upstream does while they fetch.               *)
(***************************************************************************)
THEOREM SignedBundlesReplay == Spec => []PinsExplainContent
<1>1. Spec => []IInv
  BY InitHolds, Preserved, PTL DEF Spec
<1>2. IInv => PinsExplainContent
  BY DEF IInv, Provenance
<1>. QED
  BY <1>1, <1>2, PTL

-----------------------------------------------------------------------------
(***************************************************************************)
(* What the chain says about itself follows from the run being in step     *)
(* with the chain when it signs.                                           *)
(***************************************************************************)
ChainInv == IInv /\ (Serialized => MessagesTruthful /\ PinsNeverRegress)

LEMMA VersionsStep ==
    ASSUME IInv, Serialized, MessagesTruthful, PinsNeverRegress, Tick
    PROVE  MessagesTruthful' /\ PinsNeverRegress'
<1>. USE DEF IInv, Provenance, Sequential
<1>1. ASSUME UNCHANGED chain
      PROVE  MessagesTruthful' /\ PinsNeverRegress'
  BY <1>1 DEF MessagesTruthful, PinsNeverRegress, Predecessor, Carried
<1>2. ASSUME NEW r \in Runners, Signs(r)
      PROVE  MessagesTruthful' /\ PinsNeverRegress'
  <2>1. pc[r] \in Signing \cap Gathers /\ chain' = Append(chain, NewVersion(r))
    BY <1>2 DEF Signs, Replace, Goto, Signing, Gathers, FoundIsCurrent
  <2>2. NewVersion(r) \in Version /\ chain \in Seq(Version)
    BY <2>1, NewVersionTyped DEF TypeOK
  <2>3. /\ DOMAIN chain' = DOMAIN chain \cup {Len(chain) + 1}
        /\ \A i \in DOMAIN chain : chain'[i] = chain[i]
        /\ chain'[Len(chain) + 1] = NewVersion(r)
    BY <2>1, <2>2, AppendKeeps
  <2>4. \A i \in DOMAIN chain : Predecessor(i)' = Predecessor(i)
    BY <2>2, <2>3 DEF Predecessor
  <2>5. ASSUME NEW i, i = Len(chain) + 1
        PROVE  Predecessor(i)' = Latest
    <3>1. CASE chain = <<>>
      BY <2>5, <3>1 DEF Predecessor, Latest
    <3>2. CASE chain # <<>>
      <4>1. i # 1 /\ i - 1 = Len(chain) /\ Len(chain) \in DOMAIN chain
        BY <2>2, <2>5, <3>2
      <4>. QED
        BY <2>3, <3>2, <4>1 DEF Predecessor, Latest, Current
    <3>. QED
      BY <3>1, <3>2
  <2>6. InStep(r)
    BY DEF RunsInStep
  <2>7. MessagesTruthful'
    <3>1. NewVersion(r).message = Plan(Latest, NewVersion(r).bundle)
      BY <2>1, <2>6 DEF InStep, NewVersion, RunPlan
    <3>2. ASSUME NEW i \in DOMAIN chain'
          PROVE  chain'[i].message = Plan(Predecessor(i)', chain'[i].bundle)
      <4>1. CASE i \in DOMAIN chain
        BY <2>3, <2>4, <4>1 DEF MessagesTruthful
      <4>2. CASE i = Len(chain) + 1
        BY <2>3, <2>5, <3>1, <4>2
      <4>. QED
        BY <2>3, <3>2, <4>1, <4>2
    <3>. QED
      BY <3>2 DEF MessagesTruthful, Predecessor
  <2>8. PinsNeverRegress'
    <3>1. ASSUME chain # <<>>
          PROVE  \A s \in Carried(Current) :
                    s \in Carried(snaps[r]) /\ Current[s].pin <= snaps[r][s].pin
      BY <2>1, <2>6, <3>1, GatheredBundle DEF InStep
    <3>2. ASSUME NEW i \in DOMAIN chain' \ {1}
          PROVE  \A s \in Carried(chain'[i - 1].bundle) :
                    /\ s \in Carried(chain'[i].bundle)
                    /\ chain'[i - 1].bundle[s].pin <= chain'[i].bundle[s].pin
      <4>1. CASE i \in DOMAIN chain
        <5>1. i - 1 \in DOMAIN chain /\ i \in DOMAIN chain \ {1}
          BY <2>2, <3>2, <4>1
        <5>. QED
          BY <2>3, <5>1 DEF PinsNeverRegress
      <4>2. CASE i = Len(chain) + 1
        <5>1. chain # <<>> /\ i - 1 = Len(chain) /\ Len(chain) \in DOMAIN chain
          BY <2>2, <3>2, <4>2
        <5>. QED
          BY <2>3, <3>1, <4>2, <5>1 DEF Current, NewVersion
      <4>. QED
        BY <2>3, <3>2, <4>1, <4>2
    <3>. QED
      BY <3>2 DEF PinsNeverRegress, Carried
  <2>. QED
    BY <2>7, <2>8
<1>3. (\E r \in Runners : Signs(r)) \/ UNCHANGED chain
  BY DEF Tick, OpenChain, Publish, Upgrade, Start, Resolve, Fetch, WriteSnapshot, WriteProvenance,
     Moves, Ends, diskVars
<1>. QED
  BY <1>1, <1>2, <1>3

LEMMA ChainPreserved ==
    ASSUME ChainInv, [Next]_vars
    PROVE  ChainInv'
<1>1. IInv'
  BY Preserved DEF ChainInv
<1>2. ASSUME Serialized, Next
      PROVE  MessagesTruthful' /\ PinsNeverRegress'
  BY <1>2, StepsGrouped, VersionsStep DEF ChainInv, IInv, Provenance
<1>3. ASSUME Serialized, UNCHANGED vars
      PROVE  MessagesTruthful' /\ PinsNeverRegress'
  BY <1>3 DEF ChainInv, vars, diskVars, MessagesTruthful, PinsNeverRegress, Predecessor, Carried
<1>. QED
  BY <1>1, <1>2, <1>3 DEF ChainInv

LEMMA ChainInvHolds == Spec => []ChainInv
<1>1. Init => ChainInv
  BY InitHolds DEF ChainInv, Init, MessagesTruthful, PinsNeverRegress
<1>. QED
  BY <1>1, ChainPreserved, PTL DEF Spec

(***************************************************************************)
(* When runs do not overlap, each version is signed under the message that *)
(* comparing it with the version before it gives.                          *)
(***************************************************************************)
THEOREM MessagesAreTruthful ==
    ASSUME Serialized
    PROVE  Spec => []MessagesTruthful
<1>1. ChainInv => MessagesTruthful
  BY DEF ChainInv
<1>. QED
  BY <1>1, ChainInvHolds, PTL

(***************************************************************************)
(* When runs do not overlap, no version loses a source of the one before   *)
(* it or pins an older commit of it.                                       *)
(***************************************************************************)
THEOREM PinsAdvance ==
    ASSUME Serialized
    PROVE  Spec => []PinsNeverRegress
<1>1. ChainInv => PinsNeverRegress
  BY DEF ChainInv
<1>. QED
  BY <1>1, ChainInvHolds, PTL

-----------------------------------------------------------------------------
(***************************************************************************)
(* What is signed stays signed as long as no run replaces a chain that is  *)
(* not the one it read: then the chain only grows, and once it verifies it *)
(* goes on to do so.  A run that has signed finds its version where it put *)
(* it, and gets past the verification only when the whole chain is valid.  *)
(***************************************************************************)
Committed == {"verify", "check", "report"}

VersionsKept ==
    \A r \in Runners : pc[r] \in Committed =>
        signed[r] \in DOMAIN chain /\ chain[signed[r]] = NewVersion(r)

CheckedIsValid ==
    \A r \in Runners : pc[r] \in {"check", "report"} => Valid

ReportTold ==
    report.result = "committed" =>
        /\ report.version \in DOMAIN chain
        /\ report = Reported("committed", chain[report.version].message, report.version)
        /\ Valid

ReportInv == VersionsKept /\ CheckedIsValid /\ ReportTold

(* That a chain was replaced is not forgotten. *)
LEMMA RaceLasts ==
    ASSUME Tick
    PROVE  raced => raced'
BY DEF Tick, OpenChain, Publish, Upgrade, Start, Resolve, Fetch, WriteSnapshot,
   WriteProvenance, Moves, Signs, Replace, Ends, envVars

(* Versions are not changed, and a chain that is valid stays valid. *)
LEMMA ChainGrows ==
    ASSUME TypeOK, SnapshotsComplete, Tick, ~raced'
    PROVE  /\ \A i \in DOMAIN chain : i \in DOMAIN chain' /\ chain'[i] = chain[i]
           /\ chain # <<>> /\ Valid => Valid'
<1>1. ASSUME NEW r \in Runners, Signs(r)
      PROVE  /\ \A i \in DOMAIN chain : i \in DOMAIN chain' /\ chain'[i] = chain[i]
             /\ chain # <<>> /\ Valid => Valid'
  <2>1. chain' = Append(chain, NewVersion(r)) /\ chain \in Seq(Version)
    BY <1>1 DEF Signs, Replace, TypeOK
  <2>2. NewVersion(r) \in Version
    BY <1>1, NewVersionTyped DEF Signs, Replace, Goto, Signing
  <2>3. /\ DOMAIN chain' = DOMAIN chain \cup {Len(chain) + 1}
        /\ \A i \in DOMAIN chain : chain'[i] = chain[i]
        /\ chain'[Len(chain) + 1].key = args[r].command.key
    BY <2>1, <2>2, AppendKeeps DEF NewVersion
  <2>. QED
    BY <1>1, <2>3 DEF Signs, Replace, Valid
<1>2. CASE UNCHANGED chain
  BY <1>2 DEF Valid
<1>3. (\E r \in Runners : Signs(r)) \/ UNCHANGED chain
  BY DEF Tick, OpenChain, Publish, Upgrade, Start, Resolve, Fetch, WriteSnapshot, WriteProvenance,
     Moves, Ends, diskVars
<1>. QED
  BY <1>1, <1>2, <1>3

LEMMA ReportStep ==
    ASSUME TypeOK, SnapshotsComplete, ReportInv, Tick, ~raced'
    PROVE  ReportInv'
<1>. USE DEF ReportInv
<1>1. /\ \A i \in DOMAIN chain : i \in DOMAIN chain' /\ chain'[i] = chain[i]
      /\ chain # <<>> /\ Valid => Valid'
  BY ChainGrows
<1>2. \A i \in DOMAIN chain : chain # <<>>
  OBVIOUS
<1>3. VersionsKept'
  <2>. SUFFICES ASSUME NEW q \in Runners, pc'[q] \in Committed
                PROVE  signed'[q] \in DOMAIN chain' /\ chain'[signed'[q]] = NewVersion(q)'
    BY DEF VersionsKept
  <2>1. ASSUME pc[q] \in Committed, snaps'[q] = snaps[q], base'[q] = base[q],
               args'[q] = args[q], signed'[q] = signed[q]
        PROVE  signed'[q] \in DOMAIN chain' /\ chain'[signed'[q]] = NewVersion(q)'
    <3>1. NewVersion(q)' = NewVersion(q)
      BY <2>1 DEF NewVersion, RunPlan
    <3>. QED
      BY <1>1, <2>1, <3>1 DEF VersionsKept
  <2>2. ASSUME NEW r \in Runners, Signs(r)
        PROVE  signed'[q] \in DOMAIN chain' /\ chain'[signed'[q]] = NewVersion(q)'
    <3>1. CASE q = r
      <4>1. NewVersion(r) \in Version /\ chain \in Seq(Version)
        BY <2>2, NewVersionTyped DEF Signs, Replace, Goto, Signing, TypeOK
      <4>2. /\ chain' = Append(chain, NewVersion(r)) /\ signed'[r] = Len(chain')
            /\ NewVersion(r)' = NewVersion(r)
        BY <2>2 DEF Signs, Replace, NewVersion, RunPlan, TypeOK
      <4>3. Len(chain') = Len(chain) + 1 /\ Len(chain') \in DOMAIN chain'
            /\ chain'[Len(chain')] = NewVersion(r)
        BY <4>1, <4>2
      <4>. QED
        BY <3>1, <4>2, <4>3
    <3>2. CASE q # r
      <4>1. pc'[q] = pc[q]
        BY <2>2, <3>2 DEF Signs, Replace, Goto, TypeOK
      <4>. QED
        BY <2>1, <2>2, <3>2, <4>1 DEF Signs, Replace, TypeOK
    <3>. QED
      BY <3>1, <3>2
  <2>3. ASSUME NEW r \in Runners, Moves(r) \/ Ends(r)
        PROVE  signed'[q] \in DOMAIN chain' /\ chain'[signed'[q]] = NewVersion(q)'
    <3>1. CASE Moves(r)
      BY <2>1, <3>1 DEF Moves, Goto, Committed, TypeOK
    <3>2. CASE Ends(r) /\ q # r
      BY <2>1, <3>2 DEF Ends, Finish, TypeOK
    <3>3. CASE Ends(r) /\ q = r
      BY <3>3 DEF Ends, Finish, Committed, TypeOK
    <3>. QED
      BY <2>3, <3>1, <3>2, <3>3
  <2>4. ASSUME NEW r \in Runners, NEW s \in Sources, Resolve(r, s) \/ Fetch(r, s)
        PROVE  signed'[q] \in DOMAIN chain' /\ chain'[signed'[q]] = NewVersion(q)'
    <3>1. q # r /\ UNCHANGED <<pc, args, base, signed>>
      BY <2>4 DEF Resolve, Fetch, Committed
    <3>2. snaps'[q] = snaps[q]
      BY <2>4, <3>1 DEF Resolve, Fetch, TypeOK
    <3>. QED
      BY <2>1, <3>1, <3>2
  <2>5. ASSUME NEW r \in Runners, NEW command \in Commands, Start(r, command)
        PROVE  signed'[q] \in DOMAIN chain' /\ chain'[signed'[q]] = NewVersion(q)'
    <3>1. q # r
      BY <2>5 DEF Start, Goto, Committed, TypeOK
    <3>. QED
      BY <2>1, <2>5, <3>1 DEF Start, Goto, TypeOK
  <2>6. ASSUME NEW r \in Runners,
               \/ WriteProvenance(r) \/ OpenChain(r)
               \/ \E s \in Sources : WriteSnapshot(r, s)
        PROVE  signed'[q] \in DOMAIN chain' /\ chain'[signed'[q]] = NewVersion(q)'
    <3>1. pc'[q] \in Committed => pc[q] \in Committed
      BY <2>6 DEF WriteProvenance, OpenChain, WriteSnapshot, Goto, Committed, TypeOK
    <3>. QED
      BY <2>1, <2>6, <3>1 DEF WriteProvenance, OpenChain, WriteSnapshot
  <2>7. CASE (\E s \in Sources, doc \in Doc : Publish(s, doc)) \/ \E build \in Builds : Upgrade(build)
    BY <2>1, <2>7 DEF Publish, Upgrade, runVars
  <2>. QED
    BY <2>2, <2>3, <2>4, <2>5, <2>6, <2>7 DEF Tick
<1>4. CheckedIsValid'
  <2>. SUFFICES ASSUME NEW q \in Runners, pc'[q] \in {"check", "report"}
                PROVE  Valid'
    BY DEF CheckedIsValid
  <2>1. ASSUME pc[q] \in {"check", "report"}
        PROVE  Valid'
    <3>1. chain # <<>> /\ Valid
      BY <1>2, <2>1 DEF VersionsKept, CheckedIsValid, Committed
    <3>. QED
      BY <1>1, <3>1
  <2>2. ASSUME NEW r \in Runners, Moves(r)
        PROVE  Valid'
    <3>1. CASE pc[q] \in {"check", "report"}
      BY <2>1, <3>1
    <3>2. CASE pc[q] \notin {"check", "report"}
      BY <2>2, <3>2 DEF Moves, Goto, TypeOK, Valid, diskVars
    <3>. QED
      BY <3>1, <3>2
  <2>3. \/ \E r \in Runners : Moves(r)
        \/ pc[q] \in {"check", "report"}
    BY DEF Tick, OpenChain, Publish, Upgrade, Start, Resolve, Fetch, WriteSnapshot, WriteProvenance,
       Signs, Replace, Ends, Finish, Goto, TypeOK, runVars
  <2>. QED
    BY <2>1, <2>2, <2>3
<1>5. ReportTold'
  <2>1. ASSUME UNCHANGED report
        PROVE  ReportTold'
    BY <1>1, <1>2, <2>1 DEF ReportTold, Reported
  <2>2. ASSUME NEW r \in Runners, Ends(r)
        PROVE  ReportTold'
    <3>1. PICK outcome \in Outcome :
             /\ report' = outcome
             /\ outcome.result = "committed" =>
                   /\ pc[r] = "report"
                   /\ outcome = Reported("committed", RunPlan(r), signed[r])
      BY <2>2 DEF Ends, Finish
    <3>2. UNCHANGED chain
      BY <2>2 DEF Ends, diskVars
    <3>3. ASSUME report'.result = "committed"
          PROVE  /\ report'.version = signed[r]
                 /\ report' = Reported("committed", RunPlan(r), signed[r])
                 /\ signed[r] \in DOMAIN chain
                 /\ chain[signed[r]].message = RunPlan(r)
                 /\ Valid
      <4>1. pc[r] = "report" /\ report' = Reported("committed", RunPlan(r), signed[r])
        BY <3>1, <3>3
      <4>2. signed[r] \in DOMAIN chain /\ chain[signed[r]] = NewVersion(r) /\ Valid
        BY <4>1 DEF VersionsKept, CheckedIsValid, Committed
      <4>3. NewVersion(r).message = RunPlan(r)
        BY DEF NewVersion
      <4>4. Reported("committed", RunPlan(r), signed[r]).version = signed[r]
        BY DEF Reported
      <4>. QED
        BY <4>1, <4>2, <4>3, <4>4
    <3>. QED
      BY <3>2, <3>3 DEF ReportTold, Valid, Reported
  <2>3. ASSUME NEW r \in Runners, NEW command \in Commands, Start(r, command)
        PROVE  ReportTold'
    BY <2>3 DEF Start, NotRun, ReportTold
  <2>4. \/ \E r \in Runners : Ends(r) \/ \E command \in Commands : Start(r, command)
        \/ UNCHANGED report
    BY DEF Tick, OpenChain, Publish, Upgrade, Resolve, Fetch, WriteSnapshot, WriteProvenance,
       Moves, Signs, Replace, runVars
  <2>. QED
    BY <2>1, <2>2, <2>3, <2>4
<1>. QED
  BY <1>3, <1>4, <1>5

LEMMA ReportInvHolds == Spec => [](IInv /\ (raced \/ ReportInv))
<1>1. Init => IInv /\ (raced \/ ReportInv)
  BY InitHolds DEF Init, NotRun, ReportInv, VersionsKept, CheckedIsValid, ReportTold, Committed
<1>2. ASSUME IInv, raced \/ ReportInv, [Next]_vars
      PROVE  IInv' /\ (raced \/ ReportInv)'
  <2>1. CASE Next
    <3>1. Tick /\ TypeOK /\ SnapshotsComplete
      BY <1>2, <2>1, StepsGrouped DEF IInv, Provenance
    <3>2. CASE raced'
      BY <1>2, <3>2, Preserved
    <3>3. CASE ~raced'
      BY <1>2, <3>1, <3>3, Preserved, RaceLasts, ReportStep
    <3>. QED
      BY <3>2, <3>3
  <2>2. CASE UNCHANGED vars
    <3>1. raced' = raced /\ (ReportInv => ReportInv')
      BY <2>2 DEF vars, runVars, diskVars, envVars, ReportInv, VersionsKept, CheckedIsValid,
         ReportTold, NewVersion, RunPlan, Valid, Reported
    <3>. QED
      BY <1>2, <3>1, Preserved
  <2>. QED
    BY <1>2, <2>1, <2>2
<1>. QED
  BY <1>1, <1>2, PTL DEF Spec

LEMMA ReportInvSuffices == ReportInv => ReportedVersionIsSigned
BY DEF ReportInv, VersionsKept, CheckedIsValid, ReportTold, ReportedVersionIsSigned, Committed

(***************************************************************************)
(* When runs do not overlap, a version that is about to be reported, or    *)
(* was reported last, is in the chain at the number that is reported,      *)
(* holds what the run fetched, and stands in a chain that verifies: with   *)
(* any keys and whatever is cut short.                                     *)
(***************************************************************************)
THEOREM ReportsAreSigned ==
    ASSUME Serialized
    PROVE  Spec => []ReportedVersionIsSigned
<1>1. IInv /\ (raced \/ ReportInv) => ReportedVersionIsSigned
  BY ReportInvSuffices DEF IInv, Sequential, FoundIsCurrent
<1>. QED
  BY <1>1, ReportInvHolds, PTL

(***************************************************************************)
(* The same of runs that overlap, until one of them signs between the test *)
(* of another for the file and its write: what overlaps elsewhere does no  *)
(* harm to what is reported.                                               *)
(***************************************************************************)
THEOREM ReportsAreSignedUnlessRaced == Spec => []SignedUnlessRaced
<1>1. raced \/ ReportInv => SignedUnlessRaced
  BY ReportInvSuffices DEF SignedUnlessRaced
<1>. QED
  BY <1>1, ReportInvHolds, PTL

-----------------------------------------------------------------------------
(***************************************************************************)
(* The working tree.  A run that does not overlap with another is the only *)
(* one that writes, so what it has written is still there when it reports: *)
(* file by file its own documents, whatever an earlier run left, and then  *)
(* its pins and its version at the end of the chain.                       *)
(***************************************************************************)
TreeOf(r) ==
    /\ pc[r] \in {"idle", "fetch"} => written[r] = {}
    /\ written[r] \subseteq Carried(snaps[r])
    /\ \A s \in written[r] : data[s] = snaps[r][s].doc
    /\ pc[r] \in Signing \ {"write"} =>
          written[r] = Carried(snaps[r]) /\ provenance = Pins(snaps[r])
    /\ pc[r] \in Committed => signed[r] = Len(chain) /\ Current = snaps[r]

TreeInv == \A r \in Runners : TreeOf(r)

LEMMA TreeStep ==
    ASSUME TypeOK, SnapshotsComplete, Alone, TreeInv, Tick
    PROVE  TreeInv'
<1>. SUFFICES ASSUME NEW q \in Runners
              PROVE  TreeOf(q)'
  BY DEF TreeInv
<1>0. TreeOf(q)
  BY DEF TreeInv
<1>1. ASSUME UNCHANGED <<data, provenance, chain>>, snaps'[q] = snaps[q],
             written'[q] = written[q], signed'[q] = signed[q],
             \/ pc'[q] = pc[q]
             \/ pc[q] \in {"idle", "fetch"} /\ pc'[q] \in {"idle", "fetch", "write"}
             \/ pc[q] = "sign" /\ pc'[q] = "append"
             \/ pc[q] \in Committed /\ pc'[q] \in Committed
      PROVE  TreeOf(q)'
  BY <1>0, <1>1 DEF TreeOf, Signing, Committed, Carried, Pins, Current
<1>2. ASSUME pc[q] = "idle", pc'[q] = "idle", snaps'[q] = snaps[q], written'[q] = written[q]
      PROVE  TreeOf(q)'
  BY <1>0, <1>2 DEF TreeOf, Signing, Committed, Carried
<1>3. ASSUME NEW r \in Runners, NEW s \in Sources, WriteSnapshot(r, s)
      PROVE  TreeOf(q)'
  <2>1. CASE q = r
    <3>1. /\ pc[q] = "write" /\ s \in Carried(snaps[q])
          /\ data' = [data EXCEPT ![s] = snaps[q][s].doc]
          /\ written'[q] = written[q] \cup {s}
          /\ UNCHANGED <<pc, snaps>>
      BY <1>3, <2>1 DEF WriteSnapshot, TypeOK
    <3>2. \A z \in written'[q] : data'[z] = snaps[q][z].doc
      BY <1>0, <3>1 DEF TreeOf, Carried, TypeOK
    <3>. QED
      BY <1>0, <3>1, <3>2 DEF TreeOf, Signing, Committed, Carried
  <2>2. CASE q # r
    BY <1>2, <1>3, <2>2 DEF WriteSnapshot, Alone, TypeOK
  <2>. QED
    BY <2>1, <2>2
<1>4. ASSUME NEW r \in Runners, WriteProvenance(r)
      PROVE  TreeOf(q)'
  <2>1. CASE q = r
    <3>1. /\ pc'[q] = "sign" /\ written[q] = Carried(snaps[q])
          /\ provenance' = Pins(snaps[q])
          /\ UNCHANGED <<data, chain, snaps, written, signed>>
      BY <1>4, <2>1 DEF WriteProvenance, Goto, TypeOK
    <3>. QED
      BY <1>0, <3>1 DEF TreeOf, Signing, Committed, Carried, Pins
  <2>2. CASE q # r
    BY <1>2, <1>4, <2>2 DEF WriteProvenance, Goto, Alone, TypeOK
  <2>. QED
    BY <2>1, <2>2
<1>5. ASSUME NEW r \in Runners, Signs(r)
      PROVE  TreeOf(q)'
  <2>1. CASE q = r
    <3>1. /\ pc[q] = "append" /\ pc'[q] = "verify" /\ signed'[q] = Len(chain')
          /\ UNCHANGED <<data, provenance, snaps, written>>
      BY <1>5, <2>1 DEF Signs, Replace, Goto, TypeOK
    <3>2. Current' = snaps[q]
      BY <1>5, <2>1, SignedIsCurrent
    <3>. QED
      BY <1>0, <3>1, <3>2 DEF TreeOf, Signing, Committed, Carried, Pins
  <2>2. CASE q # r
    BY <1>2, <1>5, <2>2 DEF Signs, Replace, Goto, Alone, TypeOK
  <2>. QED
    BY <2>1, <2>2
<1>6. ASSUME NEW r \in Runners, Ends(r)
      PROVE  TreeOf(q)'
  <2>1. CASE q = r
    <3>1. pc'[q] = "idle" /\ written'[q] = {}
      BY <1>6, <2>1 DEF Ends, Finish, TypeOK
    <3>. QED
      BY <3>1 DEF TreeOf, Signing, Committed
  <2>2. CASE q # r
    BY <1>1, <1>6, <2>2 DEF Ends, Finish, TypeOK, diskVars
  <2>. QED
    BY <2>1, <2>2
<1>7. ASSUME NEW r \in Runners, Moves(r)
      PROVE  TreeOf(q)'
  <2>1. CASE q = r
    <3>1. /\ <<pc[q], pc'[q]>> \in {<<"fetch", "write">>, <<"verify", "check">>, <<"check", "report">>}
          /\ UNCHANGED <<data, provenance, chain, snaps, written, signed>>
      BY <1>7, <2>1 DEF Moves, Goto, TypeOK, diskVars
    <3>. QED
      BY <1>1, <3>1 DEF Committed
  <2>2. CASE q # r
    BY <1>1, <1>7, <2>2 DEF Moves, Goto, TypeOK, diskVars
  <2>. QED
    BY <2>1, <2>2
<1>8. ASSUME NEW r \in Runners, NEW s \in Sources, Resolve(r, s) \/ Fetch(r, s)
      PROVE  TreeOf(q)'
  <2>1. CASE q = r
    <3>1. pc[q] = "fetch" /\ UNCHANGED <<pc, written>>
      BY <1>8, <2>1 DEF Resolve, Fetch
    <3>. QED
      BY <1>0, <3>1 DEF TreeOf, Signing, Committed
  <2>2. CASE q # r
    BY <1>1, <1>8, <2>2 DEF Resolve, Fetch, TypeOK, diskVars
  <2>. QED
    BY <2>1, <2>2
<1>9. ASSUME NEW r \in Runners, NEW command \in Commands, Start(r, command)
      PROVE  TreeOf(q)'
  BY <1>1, <1>9 DEF Start, Goto, TypeOK, diskVars
<1>10. CASE (\E s \in Sources, doc \in Doc : Publish(s, doc)) \/ \E build \in Builds : Upgrade(build)
  BY <1>1, <1>10 DEF Publish, Upgrade, runVars, diskVars
<1>11. ASSUME NEW r \in Runners, OpenChain(r)
       PROVE  TreeOf(q)'
  BY <1>1, <1>11 DEF OpenChain, Goto, TypeOK, diskVars
<1>. QED
  BY <1>3, <1>4, <1>5, <1>6, <1>7, <1>8, <1>9, <1>10, <1>11 DEF Tick

(***************************************************************************)
(* When runs do not overlap, the working tree that a run hands over is of  *)
(* one piece: the newest version, its documents and its pins.              *)
(***************************************************************************)
THEOREM TreesAgree ==
    ASSUME Serialized
    PROVE  Spec => []PublishedTreeAgrees
<1>1. Init => IInv /\ TreeInv
  <2>1. Init => TreeInv
    BY DEF Init, TreeInv, TreeOf, Signing, Committed
  <2>. QED
    BY <2>1, InitHolds
<1>2. ASSUME IInv, TreeInv, [Next]_vars
      PROVE  IInv' /\ TreeInv'
  <2>1. CASE Next
    BY <1>2, <2>1, Preserved, StepsGrouped, TreeStep DEF IInv, Provenance, Sequential
  <2>2. CASE UNCHANGED vars
    <3>1. TreeInv'
      BY <1>2, <2>2 DEF vars, runVars, diskVars, TreeInv, TreeOf, Carried, Pins, Current
    <3>. QED
      BY <1>2, <3>1, Preserved
  <2>. QED
    BY <1>2, <2>1, <2>2
<1>3. TreeInv => PublishedTreeAgrees
  <2>. SUFFICES ASSUME TreeInv, NEW r \in Runners, pc[r] = "report"
                PROVE  /\ signed[r] = Len(chain)
                       /\ Mismatches(Current) = {}
                       /\ provenance = Pins(Current)
    BY DEF PublishedTreeAgrees
  <2>. QED
    BY DEF TreeInv, TreeOf, Mismatches, Signing, Committed
<1>. QED
  BY <1>1, <1>2, <1>3, PTL DEF Spec

-----------------------------------------------------------------------------
(***************************************************************************)
(* The gate.  A run past it compared with the version it signs on top of   *)
(* and found a source that moved, or was told to go on.                    *)
(***************************************************************************)
GatePassed ==
    \A r \in Runners : pc[r] \in Signing => RunPlan(r).changed \/ args[r].command.force

LEMMA GateStep ==
    ASSUME TypeOK, GatePassed, Tick
    PROVE  GatePassed'
<1>. SUFFICES ASSUME NEW q \in Runners, pc'[q] \in Signing
              PROVE  RunPlan(q)'.changed \/ args'[q].command.force
  BY DEF GatePassed
<1>1. ASSUME UNCHANGED <<args, base, snaps>>,
             pc[q] \in Signing \/ RunPlan(q).changed \/ args[q].command.force
      PROVE  RunPlan(q)'.changed \/ args'[q].command.force
  <2>1. RunPlan(q)' = RunPlan(q)
    BY <1>1 DEF RunPlan
  <2>. QED
    BY <1>1, <2>1 DEF GatePassed
<1>2. ASSUME NEW r \in Runners, Moves(r)
      PROVE  pc[q] \in Signing \/ RunPlan(q).changed \/ args[q].command.force
  BY <1>2 DEF Moves, Goto, Signing, TypeOK
<1>3. ASSUME NEW r \in Runners, q # r, pc'[q] = pc[q], args'[q] = args[q],
             base'[q] = base[q], snaps'[q] = snaps[q]
      PROVE  RunPlan(q)'.changed \/ args'[q].command.force
  <2>1. RunPlan(q)' = RunPlan(q)
    BY <1>3 DEF RunPlan
  <2>. QED
    BY <1>3, <2>1 DEF GatePassed
<1>4. ASSUME NEW r \in Runners,
             \/ Ends(r) \/ \E command \in Commands : Start(r, command)
             \/ \E s \in Sources : Resolve(r, s) \/ Fetch(r, s)
      PROVE  RunPlan(q)'.changed \/ args'[q].command.force
  <2>1. pc'[r] \notin Signing
    BY <1>4 DEF Ends, Finish, Start, Resolve, Fetch, Goto, Signing, TypeOK
  <2>2. q # r
    BY <2>1
  <2>. QED
    BY <1>3, <1>4, <2>2 DEF Ends, Finish, Start, Resolve, Fetch, Goto, TypeOK
<1>5. ASSUME NEW r \in Runners,
             \/ WriteProvenance(r) \/ OpenChain(r) \/ Signs(r)
             \/ \E s \in Sources : WriteSnapshot(r, s)
      PROVE  RunPlan(q)'.changed \/ args'[q].command.force
  BY <1>1, <1>5 DEF WriteProvenance, OpenChain, Signs, Replace, WriteSnapshot, Goto, Signing,
     TypeOK
<1>6. CASE (\E s \in Sources, doc \in Doc : Publish(s, doc)) \/ \E build \in Builds : Upgrade(build)
  BY <1>1, <1>6 DEF Publish, Upgrade, runVars
<1>. QED
  BY <1>1, <1>2, <1>4, <1>5, <1>6 DEF Tick, Moves

(* A comparison that finds a change names a source that says otherwise. *)
LEMMA ChangedSubstance ==
    ASSUME NEW prev, NEW bundle, prev # NoBundle, PlanChanged(prev, bundle)
    PROVE  ~SameSubstance(bundle, prev)
<1>1. PICK s \in Carried(bundle) : Added(s, prev) \/ SubstanceMoved(s, prev, bundle)
  BY DEF PlanChanged, MovedSources, DeltaChanged
<1>2. s \in Sources
  BY DEF Carried
<1>. QED
  BY <1>1, <1>2 DEF SameSubstance, Added, SubstanceMoved, Carried

(***************************************************************************)
(* When runs do not overlap, no step adds a version that says the same as  *)
(* the one before it, but for a run that was given --force.                *)
(***************************************************************************)
THEOREM NoVersionIsIdle ==
    ASSUME Serialized
    PROVE  Spec => NoIdleVersion
<1>. DEFINE Worth == chain # <<>> =>
              \/ ~SameSubstance(chain'[Len(chain')].bundle, Current)
              \/ \E r \in Runners : args[r].command.force /\ pc[r] = "append" /\ pc'[r] = "verify"
<1>1. Init => IInv /\ GatePassed
  BY InitHolds DEF Init, GatePassed, Signing
<1>2. ASSUME IInv, GatePassed, [Next]_vars
      PROVE  IInv' /\ GatePassed'
  <2>1. CASE Next
    BY <1>2, <2>1, Preserved, StepsGrouped, GateStep DEF IInv, Provenance
  <2>2. CASE UNCHANGED vars
    <3>1. GatePassed'
      BY <1>2, <2>2 DEF vars, runVars, GatePassed, RunPlan
    <3>. QED
      BY <1>2, <3>1, Preserved
  <2>. QED
    BY <1>2, <2>1, <2>2
<1>3. ASSUME IInv, GatePassed, Next, chain' # chain
      PROVE  Worth
  <2>1. Tick /\ TypeOK /\ SnapshotsComplete /\ RunsInStep
    BY <1>3, StepsGrouped DEF IInv, Provenance, Sequential
  <2>2. PICK r \in Runners : Signs(r)
    BY <1>3, <2>1 DEF Tick, OpenChain, Publish, Upgrade, Start, Resolve, Fetch, WriteSnapshot,
       WriteProvenance, Moves, Ends, diskVars
  <2>3. pc[r] = "append" /\ pc'[r] = "verify"
    BY <2>1, <2>2 DEF Signs, Replace, Goto, TypeOK
  <2>4. CASE args[r].command.force
    BY <2>3, <2>4
  <2>5. CASE ~args[r].command.force /\ chain # <<>>
    <3>1. base[r] = Current
      BY <2>1, <2>3, <2>5 DEF RunsInStep, InStep, Gathers, Latest
    <3>2. Current \in Bundle
      <4>1. Len(chain) \in DOMAIN chain
        BY <2>1, <2>5 DEF TypeOK
      <4>2. chain[Len(chain)] \in Version
        BY <2>1, <4>1 DEF TypeOK
      <4>. QED
        BY <4>2 DEF Current, Version
    <3>3. PlanChanged(Current, snaps[r]) /\ Current # NoBundle
      BY <1>3, <2>3, <2>5, <3>1, <3>2, GateAssumption DEF GatePassed, Signing, RunPlan, Plan
    <3>4. chain'[Len(chain')].bundle = snaps[r]
      BY <2>1, <2>2, SignedIsCurrent DEF Current
    <3>. QED
      BY <3>3, <3>4, ChangedSubstance
  <2>. QED
    BY <2>4, <2>5
<1>4. IInv /\ GatePassed /\ [Next]_vars => [Worth]_chain
  BY <1>3 DEF vars, diskVars
<1>. QED
  BY <1>1, <1>2, <1>4, PTL DEF Spec, NoIdleVersion
-----------------------------------------------------------------------------
(***************************************************************************)
(* The refinement: a run that does not overlap with another is one step of *)
(* Ledger, taken when it signs; all its other steps stutter.               *)
(***************************************************************************)
(* The gate is pure, so Ledger's copy of it is the same one. *)
LEMMA SameGate ==
    /\ L!Doc = Doc
    /\ \A bundle : L!Carried(bundle) = Carried(bundle)
    /\ \A prev, bundle : L!Plan(prev, bundle) = Plan(prev, bundle)
<1>1. L!Doc = Doc
  BY DEF L!Doc, Doc
<1>2. ASSUME NEW bundle
      PROVE  L!Carried(bundle) = Carried(bundle)
  BY DEF L!Carried, Carried
<1>3. ASSUME NEW prev, NEW bundle
      PROVE  L!Plan(prev, bundle) = Plan(prev, bundle)
  <2>1. ASSUME NEW s
        PROVE  /\ L!Added(s, prev) = Added(s, prev)
               /\ L!SubstanceMoved(s, prev, bundle) = SubstanceMoved(s, prev, bundle)
               /\ L!Diffed(s, prev, bundle) = Diffed(s, prev, bundle)
    BY <1>2 DEF L!Added, Added, L!SubstanceMoved, SubstanceMoved,
       L!Diffed, Diffed, L!RulesInScope, RulesInScope
  <2>2. ASSUME NEW s
        PROVE  /\ L!DeltaChanged(s, prev, bundle) = DeltaChanged(s, prev, bundle)
               /\ L!DeltaSeverity(s, prev, bundle) = DeltaSeverity(s, prev, bundle)
    BY <2>1 DEF L!DeltaChanged, DeltaChanged, L!DeltaSeverity, DeltaSeverity,
       L!AtLeast, AtLeast, L!Major, Major, L!Metadata, Metadata, L!None, None
  <2>3. /\ L!MovedSources(prev, bundle) = MovedSources(prev, bundle)
        /\ L!MaxSeverity(prev, bundle) = MaxSeverity(prev, bundle)
    BY <1>2, <2>2 DEF L!MovedSources, MovedSources, L!MaxSeverity, MaxSeverity, L!None, None
  <2>4. /\ L!PlanChanged(prev, bundle) = PlanChanged(prev, bundle)
        /\ L!PlanSeverity(prev, bundle) = PlanSeverity(prev, bundle)
        /\ L!MajorSources(prev, bundle) = MajorSources(prev, bundle)
    BY <2>2, <2>3 DEF L!PlanChanged, PlanChanged, L!PlanSeverity, PlanSeverity,
       L!MajorSources, MajorSources, L!Major, Major
  <2>5. L!Headline(prev, bundle) = Headline(prev, bundle)
    BY <2>1, <2>3, <2>4 DEF L!Headline, Headline, L!Major, Major, L!None, None
  <2>. QED
    BY <2>3, <2>4, <2>5 DEF L!Plan, Plan
<1>. QED
  BY <1>1, <1>2, <1>3

LEMMA SnapshotsAreACut ==
    ASSUME Provenance, NEW r \in Runners, pc[r] \in Signing
    PROVE  /\ Pins(snaps[r]) \in L!Pinnings
           /\ L!CutAt(Pins(snaps[r])) = snaps[r]
<1>. USE DEF Provenance
<1>1. snaps[r] \in Bundle /\ Carried(snaps[r]) = args[r].watches
  BY GatheredBundle
<1>2. ASSUME NEW s \in Carried(snaps[r])
      PROVE  /\ snaps[r][s] \in Snapshot
             /\ snaps[r][s].pin \in DOMAIN upstream[s]
             /\ snaps[r][s].doc = upstream[s][snaps[r][s].pin]
  <2>1. snaps[r][s] \in Snapshot
    BY <1>1 DEF Bundle, Carried
  <2>2. s \in Fetched(r)
    BY <1>1 DEF SnapshotsComplete
  <2>. QED
    BY <2>1, <2>2 DEF SnapshotsGenuine, Genuine, Fetched
<1>3. \A s \in Sources : upstream[s] \in Seq(Doc) /\ DOMAIN upstream[s] = 1..Len(upstream[s])
                         /\ Len(upstream[s]) \in Nat
  BY DEF TypeOK
<1>4. ASSUME NEW s \in Sources
      PROVE  Pins(snaps[r])[s] \in 0..Len(upstream[s])
  <2>1. CASE s \in Carried(snaps[r])
    BY <1>2, <1>3, <2>1 DEF Pins, Carried
  <2>2. CASE s \notin Carried(snaps[r])
    BY <1>3, <2>2 DEF Pins, Carried
  <2>. QED
    BY <2>1, <2>2
<1>5. Pins(snaps[r]) \in L!Pinnings
  <2>1. Pins(snaps[r]) \in [Sources -> UNION {0..Len(upstream[s]) : s \in Sources}]
    BY <1>4 DEF Pins
  <2>. QED
    BY <1>3, <1>4, <2>1 DEF L!Pinnings
<1>6. ASSUME NEW s \in Sources
      PROVE  L!CutAt(Pins(snaps[r]))[s] = snaps[r][s]
  <2>1. CASE s \in Carried(snaps[r])
    <3>1. Pins(snaps[r])[s] = snaps[r][s].pin /\ snaps[r][s].pin # 0
      BY <1>2, <2>1 DEF Pins, Carried, Snapshot
    <3>2. snaps[r][s] = [pin |-> snaps[r][s].pin, doc |-> upstream[s][snaps[r][s].pin]]
      BY <1>2, <2>1 DEF Snapshot
    <3>. QED
      BY <3>1, <3>2 DEF L!CutAt
  <2>2. CASE s \notin Carried(snaps[r])
    BY <2>2 DEF Pins, Carried, L!CutAt
  <2>. QED
    BY <2>1, <2>2
<1>7. L!CutAt(Pins(snaps[r])) = snaps[r]
  <2>1. snaps[r] = [s \in Sources |-> snaps[r][s]]
    BY <1>1 DEF Bundle
  <2>2. L!CutAt(Pins(snaps[r])) = [s \in Sources |-> L!CutAt(Pins(snaps[r]))[s]]
    BY DEF L!CutAt
  <2>. QED
    BY <1>6, <2>1, <2>2
<1>. QED
  BY <1>5, <1>7

LEMMA LedgerStep ==
    ASSUME IInv, Serialized, Next
    PROVE  [L!Next]_<<upstream, chain>>
<1>. USE DEF IInv, Provenance, Sequential
<1>1. Tick
  BY StepsGrouped
<1>2. ASSUME NEW r \in Runners, Signs(r)
      PROVE  L!Next
  <2>1. /\ pc[r] \in Signing \cap Gathers
        /\ chain' = Append(chain, NewVersion(r)) /\ UNCHANGED upstream
        /\ chain # <<>> => args[r].command.key \in Registered
    BY <1>2 DEF Signs, Replace, Goto, Signing, Gathers, FoundIsCurrent
  <2>2. InStep(r) /\ args[r].command.key \in Keys
    BY DEF RunsInStep, TypeOK, Args, Command
  <2>3. base[r] = L!Latest
    BY <2>1, <2>2 DEF InStep, Latest, Current, L!Latest
  <2>4. L!NotBehind(snaps[r], L!Latest)
    <3>1. CASE chain = <<>>
      BY <3>1 DEF L!NotBehind, L!Latest
    <3>2. CASE chain # <<>>
      BY <2>1, <2>2, <3>2, GatheredBundle, SameGate DEF L!NotBehind, L!Latest, InStep, Current
    <3>. QED
      BY <3>1, <3>2
  <2>5. Pins(snaps[r]) \in L!Pinnings /\ L!CutAt(Pins(snaps[r])) = snaps[r]
    BY <2>1, SnapshotsAreACut
  <2>6. Len(chain') = Len(chain) + 1
    BY <2>1 DEF TypeOK
  <2>7. L!Sign(Pins(snaps[r]), args[r].command.key)
    BY <2>1, <2>3, <2>4, <2>5, <2>6, SameGate DEF L!Sign, NewVersion, RunPlan
  <2>. QED
    BY <2>2, <2>5, <2>7 DEF L!Next
<1>3. ASSUME NEW s \in Sources, NEW doc \in Doc, Publish(s, doc)
      PROVE  L!Next
  <2>1. L!Publish(s, doc)
    BY <1>3 DEF Publish, L!Publish, diskVars
  <2>. QED
    BY <2>1, SameGate DEF L!Next
<1>4. \/ \E r \in Runners : Signs(r)
      \/ \E s \in Sources, doc \in Doc : Publish(s, doc)
      \/ UNCHANGED <<upstream, chain>>
  BY <1>1 DEF Tick, OpenChain, Upgrade, Start, Resolve, Fetch, WriteSnapshot, WriteProvenance,
     Moves, Ends, diskVars, envVars
<1>. QED
  BY <1>2, <1>3, <1>4

(***************************************************************************)
(* Runs that do not overlap implement Ledger: whatever they are cut short  *)
(* at and however upstream moves under them, the chain grows by versions   *)
(* that are cuts of upstream, signed under truthful messages.              *)
(***************************************************************************)
THEOREM RunsImplementLedger ==
    ASSUME Serialized
    PROVE  Spec => ImplementsLedger
<1>1. Init => L!Init
  <2>1. Init => TypeOK /\ HistoryBegun
    BY InitHolds DEF IInv, Provenance
  <2>2. TypeOK /\ HistoryBegun /\ chain = <<>> => L!Init
    BY SameGate DEF TypeOK, HistoryBegun, L!Init
  <2>3. Init => chain = <<>>
    BY DEF Init
  <2>. QED
    BY <2>1, <2>2, <2>3
<1>2. IInv /\ [Next]_vars => [L!Next]_<<upstream, chain>>
  <2>1. IInv /\ Next => [L!Next]_<<upstream, chain>>
    BY LedgerStep
  <2>2. UNCHANGED vars => UNCHANGED <<upstream, chain>>
    BY DEF vars, diskVars, envVars
  <2>. QED
    BY <2>1, <2>2
<1>3. Spec => []IInv
  BY InitHolds, Preserved, PTL DEF Spec
<1>. QED
  BY <1>1, <1>2, <1>3, PTL DEF Spec, ImplementsLedger, L!Spec, L!vars
=============================================================================
