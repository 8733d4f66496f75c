----------------------------- MODULE WatchProofs -----------------------------
(***************************************************************************)
(* Proofs about Watch, for every set of texts, every comparison and every  *)
(* bound on commits, failed runs, decisions and forced runs.               *)
(*                                                                         *)
(* A chain stands in three places: on main, in the run that extends it and *)
(* in the branches that were pushed.  What is merged was in a branch, what *)
(* is pushed was in a run, and what a run extends was on main; so what is  *)
(* to be shown of main is shown of all of them.                            *)
(***************************************************************************)
EXTENDS Watch, FiniteSetTheorems, SequenceTheorems, TLAPS

Severities == {"none"} \cup {SeverityOf(old, new) : old, new \in Texts \cup {Genesis}}
Version == [bundle : Bundle, severity : Severities]
PullRequest == [branch : Bundle, label : Severities, auto : BOOLEAN]

(* TypeOK with the types of the rest. *)
Typed ==
    /\ protected \in BOOLEAN
    /\ upstream \in Seq(Texts) /\ Len(upstream) \in 1..MaxCommits
    /\ main \in Seq(Version)
    /\ merged \in Seq({"job", "person"}) /\ Len(merged) = Len(main)
    /\ \A b \in DOMAIN branches : b \in Bundle /\ branches[b] \in Seq(Version)
    /\ pulls \subseteq PullRequest
    /\ pc \in {"idle", "sync", "push", "open", "close", "merge"}
    /\ run \in [chain : Seq(Version), severity : Severities, force : BOOLEAN]

(* Each version is the change it is from the one before it, and is pinned  *)
(* to a commit that exists and is no older.                                *)
Tells(chain, commits) ==
    \A n \in DOMAIN chain :
        /\ chain[n].severity = SeverityOf(Before(chain, n), chain[n].bundle.text)
        /\ n > 1 => chain[n - 1].bundle.pin <= chain[n].bundle.pin
        /\ chain[n].bundle.pin <= commits

ChainsTell ==
    /\ Tells(main, Len(upstream))
    /\ Tells(run.chain, Len(upstream))
    /\ \A b \in DOMAIN branches : Tells(branches[b], Len(upstream))

(* A branch is named by the bundle of its newest version. *)
BranchesNamed == \A b \in DOMAIN branches : branches[b] # <<>> /\ Tip(branches[b]) = b

(* What a run signed is in its branch until the branch is gone. *)
RunPushed ==
    /\ pc \in {"push", "open", "close", "merge"} =>
          run.chain # <<>> /\ run.chain[Len(run.chain)].severity = run.severity
    /\ pc \in {"open", "close", "merge"} /\ BranchOf(run.chain) \in DOMAIN branches =>
          branches[BranchOf(run.chain)] = run.chain

(* Where main is not protected no pull request merges by itself. *)
NoneAuto == ~protected => \A pull \in pulls : ~pull.auto

IInv ==
    /\ Typed /\ ChainsTell /\ BranchesNamed
    /\ RunPushed /\ NoneAuto /\ LouderWaits

-----------------------------------------------------------------------------
(* Sequences of versions. *)
LEMMA AppendTells ==
    ASSUME NEW chain \in Seq(Version), NEW commits \in Nat, Tells(chain, commits),
           NEW version \in Version, version.bundle.pin = commits,
           version.severity = SeverityOf(Latest(chain), version.bundle.text)
    PROVE  Tells(Append(chain, version), commits)
<1>. DEFINE longer == Append(chain, version)
<1>1. /\ DOMAIN longer = DOMAIN chain \cup {Len(chain) + 1}
      /\ \A n \in DOMAIN chain : longer[n] = chain[n]
      /\ longer[Len(chain) + 1] = version
  OBVIOUS
<1>2. DOMAIN chain = 1..Len(chain) /\ Len(chain) \in Nat
  OBVIOUS
<1>. HIDE DEF longer
<1>3. ASSUME NEW n \in DOMAIN chain
      PROVE  /\ longer[n].severity = SeverityOf(Before(longer, n), longer[n].bundle.text)
             /\ n > 1 => longer[n - 1].bundle.pin <= longer[n].bundle.pin
             /\ longer[n].bundle.pin <= commits
  <2>1. n > 1 => n - 1 \in DOMAIN chain
    BY <1>2
  <2>2. Before(longer, n) = Before(chain, n)
    BY <1>1, <1>2, <2>1 DEF Before
  <2>. QED
    BY <1>1, <2>1, <2>2 DEF Tells
<1>4. ASSUME NEW n, n = Len(chain) + 1
      PROVE  /\ longer[n].severity = SeverityOf(Before(longer, n), longer[n].bundle.text)
             /\ n > 1 => longer[n - 1].bundle.pin <= longer[n].bundle.pin
             /\ longer[n].bundle.pin <= commits
  <2>1. n > 1 => n - 1 = Len(chain) /\ Len(chain) \in DOMAIN chain
    BY <1>2, <1>4
  <2>2. n = 1 <=> chain = <<>>
    BY <1>4
  <2>3. Before(longer, n) = Latest(chain)
    <3>1. CASE chain = <<>>
      BY <2>2, <3>1 DEF Before, Latest
    <3>2. CASE chain # <<>>
      <4>1. n # 1 /\ n - 1 = Len(chain) /\ Len(chain) \in DOMAIN chain
        BY <1>2, <1>4, <2>2, <3>2
      <4>2. longer[n - 1] = chain[Len(chain)]
        BY <1>1, <4>1
      <4>. QED
        BY <3>2, <4>1, <4>2 DEF Before, Latest
    <3>. QED
      BY <3>1, <3>2
  <2>. QED
    BY <1>1, <1>4, <2>1, <2>3 DEF Tells, Version, Bundle
<1>5. Tells(longer, commits)
  BY <1>1, <1>3, <1>4 DEF Tells
<1>. QED
  BY <1>5 DEF longer

LEMMA TellsLater ==
    ASSUME NEW chain \in Seq(Version), NEW m \in Nat, NEW n \in Nat, m <= n, Tells(chain, m)
    PROVE  Tells(chain, n)
<1>1. ASSUME NEW k \in DOMAIN chain
      PROVE  chain[k].bundle.pin \in Nat
  <2>1. chain[k] \in Version
    OBVIOUS
  <2>. QED
    BY <2>1 DEF Version, Bundle
<1>. QED
  BY <1>1 DEF Tells

LEMMA PinnedTyped ==
    ASSUME Typed
    PROVE  Pinned \in Bundle /\ Pinned.pin = Len(upstream)
  BY DEF Typed, Pinned, Bundle

LEMMA LatestTyped ==
    ASSUME NEW chain \in Seq(Version)
    PROVE  Latest(chain) \in Texts \cup {Genesis}
<1>1. CASE chain = <<>>
  BY <1>1 DEF Latest
<1>2. CASE chain # <<>>
  <2>1. chain[Len(chain)] \in Version
    BY <1>2
  <2>. QED
    BY <1>2, <2>1 DEF Latest, Version, Bundle
<1>. QED
  BY <1>1, <1>2

LEMMA TipTyped ==
    ASSUME NEW chain \in Seq(Version), chain # <<>>
    PROVE  Tip(chain) \in Bundle /\ BranchOf(chain) \in Bundle
<1>1. chain[Len(chain)] \in Version
  OBVIOUS
<1>. QED
  BY <1>1 DEF Tip, BranchOf, Version

(* What a sync signs. *)
LEMMA SyncSigns ==
    ASSUME Typed, ChainsTell, Sync
    PROVE  LET version == [bundle |-> Pinned, severity |-> run'.severity]
           IN  /\ version \in Version
               /\ run'.chain = Append(run.chain, version)
               /\ run' \in [chain : Seq(Version), severity : Severities, force : BOOLEAN]
               /\ run'.severity = SeverityOf(Latest(run.chain), Pinned.text)
<1>. DEFINE severity == SeverityOf(Latest(run.chain), Pinned.text)
            version == [bundle |-> Pinned, severity |-> severity]
<1>1. run \in [chain : Seq(Version), severity : Severities, force : BOOLEAN]
  BY DEF Typed
<1>2. severity \in Severities
  <2>1. Latest(run.chain) \in Texts \cup {Genesis}
    BY <1>1, LatestTyped
  <2>2. Pinned.text \in Texts \cup {Genesis}
    BY PinnedTyped DEF Bundle
  <2>. QED
    BY <2>1, <2>2 DEF Severities
<1>3. version \in Version
  BY <1>2, PinnedTyped DEF Version
<1>4. run' = [run EXCEPT !.chain = Append(run.chain, version), !.severity = severity]
  BY <1>1 DEF Sync, Base
<1>. HIDE DEF severity
<1>5. run'.chain = Append(run.chain, version) /\ run'.severity = severity
  BY <1>1, <1>4
<1>6. run' \in [chain : Seq(Version), severity : Severities, force : BOOLEAN]
  <2>1. run.chain \in Seq(Version)
    BY <1>1
  <2>2. Append(run.chain, version) \in Seq(Version)
    BY <1>3, <2>1
  <2>. HIDE DEF version
  <2>. QED
    BY <1>1, <1>2, <1>4, <2>2
<1>. QED
  BY <1>3, <1>5, <1>6 DEF severity

(* A merge adds the newest version of the branch to main. *)
LEMMA MergeAdds ==
    ASSUME Typed, BranchesNamed, NEW pull \in pulls, NEW how \in {"job", "person"},
           MergePull(pull, how)
    PROVE  /\ pull.branch \in DOMAIN branches
           /\ main' = branches[pull.branch] /\ main' \in Seq(Version)
           /\ Len(main') = Len(main) + 1
           /\ \A n \in DOMAIN main : main'[n] = main[n]
           /\ merged' = Append(merged, how)
<1>. DEFINE branch == branches[pull.branch]
<1>1. /\ pull.branch \in DOMAIN branches
      /\ main = SubSeq(branch, 1, Len(branch) - 1)
      /\ main' = branch
      /\ merged' = Append(merged, how)
  BY DEF MergePull, Mergeable
<1>2. branch \in Seq(Version) /\ branch # <<>>
  BY <1>1 DEF Typed, BranchesNamed
<1>. HIDE DEF branch
<1>3. /\ Len(branch) = Len(main) + 1
      /\ \A n \in DOMAIN main : branch[n] = main[n]
  <2>1. Len(branch) \in Nat /\ Len(branch) >= 1
    BY <1>2
  <2>2. Len(branch) - 1 \in Nat /\ Len(branch) - 1 <= Len(branch)
    BY <2>1
  <2>3. /\ Len(main) = Len(branch) - 1
        /\ \A n \in 1..(Len(branch) - 1) : main[n] = branch[n]
    <3>. DEFINE last == Len(branch) - 1
                prefix == SubSeq(branch, 1, last)
    <3>1. \A i \in 1..last : branch[i] \in Version
      BY <1>2, <2>1
    <3>2. last \in Nat /\ last + 1 - 1 = last
      BY <2>2
    <3>. HIDE DEF last
    <3>3. /\ Len(prefix) = IF 1 <= last THEN last - 1 + 1 ELSE 0
          /\ \A i \in 1..(last - 1 + 1) : prefix[i] = branch[1 + i - 1]
      BY <3>1, <3>2, SubSeqProperties
    <3>. HIDE DEF prefix
    <3>4. Len(prefix) = last
      BY <3>2, <3>3
    <3>5. ASSUME NEW n \in 1..last
          PROVE  prefix[n] = branch[n]
      <4>1. n \in 1..(last - 1 + 1) /\ 1 + n - 1 = n
        BY <3>2
      <4>. QED
        BY <3>3, <4>1
    <3>. QED
      BY <1>1, <3>4, <3>5 DEF prefix, last
  <2>4. DOMAIN main = 1..Len(main)
    BY DEF Typed
  <2>. QED
    BY <2>1, <2>3, <2>4
<1>. QED
  BY <1>1, <1>2, <1>3 DEF branch

-----------------------------------------------------------------------------
(***************************************************************************)
(* Preservation, one step per kind of action.  Those that neither touch    *)
(* main, nor a branch, nor a pull request only move the run along.         *)
(***************************************************************************)
StaysPut == UNCHANGED <<protected, upstream, main, branches, pulls, merged>>

Merges(how) == \E pull \in pulls : MergePull(pull, how) /\ UNCHANGED <<protected, upstream>>

LEMMA StepsGrouped ==
    ASSUME Next
    PROVE  \/ \E text \in Texts : Publish(text)
           \/ \E force \in BOOLEAN : Checkout(force)
           \/ EndRun /\ StaysPut
           \/ Sync \/ Push \/ OpenPull \/ Closed \/ EnableAuto
           \/ \E pull \in pulls : CloseSuperseded(pull)
           \/ EndRun /\ pc = "merge" /\ IsRoutine /\ ~protected /\ MergeNow
           \/ AutoMerge
           \/ \E pull \in pulls : Decide(pull)
<1>1. Scheduled \/ Dispatched => \E force \in BOOLEAN : Checkout(force)
  BY DEF Scheduled, Dispatched
<1>2. SyncUnchanged \/ FailOpen \/ LeaveOpen \/ FailMerge \/ Fail => EndRun /\ StaysPut
  BY DEF SyncUnchanged, FailOpen, LeaveOpen, FailMerge, Fail, StaysPut, github
<1>3. MergeNow => EndRun /\ pc = "merge" /\ IsRoutine /\ ~protected
  BY DEF MergeNow
<1>. QED
  BY <1>1, <1>2, <1>3 DEF Next, Step

LEMMA TypeStep ==
    ASSUME IInv, Next
    PROVE  Typed'
<1>. USE DEF IInv
<1>. DEFINE RunType == [chain : Seq(Version), severity : Severities, force : BOOLEAN]
<1>0. NoRun \in RunType
  BY DEF NoRun, Severities
<1>1. ASSUME NEW text \in Texts, Publish(text)
      PROVE  Typed'
  <2>1. upstream' \in Seq(Texts) /\ Len(upstream') \in 1..MaxCommits
    BY <1>1, WatchAssumption DEF Publish, Typed
  <2>. QED
    BY <1>1, <2>1 DEF Publish, Typed, github
<1>2. ASSUME NEW force \in BOOLEAN, Checkout(force)
      PROVE  Typed'
  <2>1. run' \in RunType
    BY <1>0, <1>2 DEF Checkout, Typed
  <2>. QED
    BY <1>2, <2>1 DEF Checkout, Typed, github
<1>3. CASE EndRun /\ StaysPut
  BY <1>0, <1>3 DEF EndRun, StaysPut, Typed
<1>4. CASE Sync
  <2>1. run' \in RunType
    BY <1>4, SyncSigns
  <2>. QED
    BY <1>4, <2>1 DEF Sync, Typed, github
<1>5. CASE Push
  <2>1. run.chain \in Seq(Version) /\ BranchOf(run.chain) \in Bundle
    BY <1>5, TipTyped DEF Push, Typed, RunPushed
  <2>2. \A b \in DOMAIN branches' : b \in Bundle /\ branches'[b] \in Seq(Version)
    BY <1>5, <2>1 DEF Push, Typed
  <2>. QED
    BY <1>5, <2>2 DEF Push, Typed
<1>6. CASE OpenPull
  <2>1. BranchOf(run.chain) \in Bundle /\ run.severity \in Severities
    BY <1>6, TipTyped DEF OpenPull, Typed, RunPushed
  <2>. DEFINE new == [branch |-> BranchOf(run.chain), label |-> run.severity, auto |-> FALSE]
  <2>3. new \in PullRequest
    BY <2>1 DEF PullRequest
  <2>2. pulls' \subseteq PullRequest
    BY <1>6, <2>3 DEF OpenPull, Typed
  <2>. QED
    BY <1>6, <2>2 DEF OpenPull, Typed
<1>7. ASSUME NEW pull \in pulls, CloseSuperseded(pull)
      PROVE  Typed'
  BY <1>7 DEF CloseSuperseded, Removed, Typed
<1>8. CASE Closed
  BY <1>8 DEF Closed, Typed, github
<1>9. CASE EnableAuto
  <2>1. pulls' \subseteq PullRequest
    BY <1>9 DEF EnableAuto, Pull, Typed, PullRequest
  <2>. QED
    BY <1>0, <1>9, <2>1 DEF EnableAuto, EndRun, Typed
<1>10. ASSUME NEW how \in {"job", "person"}, NEW pull \in pulls, MergePull(pull, how),
              UNCHANGED <<protected, upstream>>, EndRun \/ UNCHANGED <<pc, run>>
       PROVE  Typed'
  <2>1. main' \in Seq(Version) /\ Len(main') = Len(main) + 1 /\ merged' = Append(merged, how)
    BY <1>10, MergeAdds
  <2>2. merged' \in Seq({"job", "person"}) /\ Len(merged') = Len(main')
    BY <2>1 DEF Typed
  <2>3. pulls' \subseteq PullRequest
    BY <1>10 DEF MergePull, Typed
  <2>4. \A b \in DOMAIN branches' : b \in Bundle /\ branches'[b] \in Seq(Version)
    BY <1>10 DEF MergePull, Removed, Typed
  <2>5. pc' \in {"idle", "sync", "push", "open", "close", "merge"} /\ run' \in RunType
    BY <1>0, <1>10 DEF EndRun, Typed
  <2>. QED
    BY <1>10, <2>1, <2>2, <2>3, <2>4, <2>5 DEF Typed
<1>11. CASE MergeNow
  BY <1>10, <1>11 DEF MergeNow, Pull
<1>12. CASE AutoMerge
  BY <1>10, <1>12 DEF AutoMerge
<1>13. ASSUME NEW pull \in pulls, Decide(pull)
       PROVE  Typed'
  <2>1. CASE MergePull(pull, "person")
    BY <1>10, <1>13, <2>1 DEF Decide
  <2>2. CASE pulls' = pulls \ {pull} /\ UNCHANGED <<branches, main, merged>>
    BY <1>13, <2>2 DEF Decide, Typed
  <2>. QED
    BY <1>13, <2>1, <2>2 DEF Decide
<1>. QED
  BY StepsGrouped, <1>1, <1>2, <1>3, <1>4, <1>5, <1>6, <1>7, <1>8, <1>9, <1>11, <1>12, <1>13

(* A chain is on main, in the run or in a branch because it was in one of  *)
(* them before, or because the run has just extended its own.              *)
LEMMA ChainsStep ==
    ASSUME IInv, Next
    PROVE  ChainsTell'
<1>. USE DEF IInv
<1>1. Tells(<<>>, Len(upstream))
  BY DEF Tells
<1>2. ASSUME UNCHANGED upstream, main' = main \/ \E b \in DOMAIN branches : main' = branches[b],
             run'.chain \in {main, run.chain, <<>>},
             \A b \in DOMAIN branches' :
                \/ branches'[b] = run.chain
                \/ b \in DOMAIN branches /\ branches'[b] = branches[b]
      PROVE  ChainsTell'
  <2>1. Tells(main', Len(upstream)) /\ Tells(run'.chain, Len(upstream))
    BY <1>1, <1>2 DEF ChainsTell
  <2>2. \A b \in DOMAIN branches' : Tells(branches'[b], Len(upstream))
    BY <1>2 DEF ChainsTell
  <2>. QED
    BY <1>2, <2>1, <2>2 DEF ChainsTell, Tells, Before
<1>3. ASSUME NEW text \in Texts, Publish(text)
      PROVE  ChainsTell'
  <2>1. Len(upstream) \in Nat /\ Len(upstream') \in Nat /\ Len(upstream) <= Len(upstream')
    BY <1>3 DEF Publish, Typed
  <2>2. /\ main \in Seq(Version) /\ run.chain \in Seq(Version)
        /\ \A b \in DOMAIN branches : branches[b] \in Seq(Version)
    BY DEF Typed
  <2>3. /\ Tells(main, Len(upstream')) /\ Tells(run.chain, Len(upstream'))
        /\ \A b \in DOMAIN branches : Tells(branches[b], Len(upstream'))
    BY <2>1, <2>2, TellsLater DEF ChainsTell
  <2>. QED
    BY <1>3, <2>3 DEF Publish, ChainsTell, Tells, Before, github
<1>4. ASSUME NEW force \in BOOLEAN, Checkout(force)
      PROVE  ChainsTell'
  <2>1. run'.chain = main
    BY <1>4 DEF Checkout, NoRun
  <2>. QED
    BY <1>2, <1>4, <2>1 DEF Checkout, github
<1>5. CASE EndRun /\ StaysPut
  BY <1>2, <1>5 DEF EndRun, NoRun, StaysPut
<1>6. CASE Sync
  <2>. DEFINE version == [bundle |-> Pinned, severity |-> run'.severity]
  <2>1. /\ version \in Version /\ run'.chain = Append(run.chain, version)
        /\ version.severity = SeverityOf(Latest(run.chain), version.bundle.text)
        /\ version.bundle.pin = Len(upstream) /\ Len(upstream) \in Nat
        /\ run.chain \in Seq(Version)
    BY <1>6, SyncSigns, PinnedTyped DEF Typed
  <2>. HIDE DEF version
  <2>2. Tells(run'.chain, Len(upstream))
    BY <2>1, AppendTells DEF ChainsTell
  <2>. QED
    BY <1>6, <2>2 DEF Sync, ChainsTell, Tells, Before, github
<1>7. CASE Push
  <2>1. \A b \in DOMAIN branches' :
           \/ branches'[b] = run.chain
           \/ b \in DOMAIN branches /\ branches'[b] = branches[b]
    BY <1>7 DEF Push
  <2>. QED
    BY <1>2, <1>7, <2>1 DEF Push
<1>8. CASE OpenPull \/ Closed
  BY <1>2, <1>8 DEF OpenPull, Closed, github
<1>9. ASSUME NEW pull \in pulls, CloseSuperseded(pull)
      PROVE  ChainsTell'
  BY <1>2, <1>9 DEF CloseSuperseded, Removed
<1>10. CASE EnableAuto
  BY <1>2, <1>10 DEF EnableAuto, EndRun, NoRun
<1>11. ASSUME NEW pull \in pulls, NEW how, MergePull(pull, how), UNCHANGED upstream,
              EndRun \/ UNCHANGED run
       PROVE  ChainsTell'
  <2>1. run'.chain \in {run.chain, <<>>}
    BY <1>11 DEF EndRun, NoRun
  <2>. QED
    BY <1>2, <1>11, <2>1 DEF MergePull, Mergeable, Removed
<1>12. CASE MergeNow
  BY <1>11, <1>12 DEF MergeNow, Pull
<1>13. CASE AutoMerge
  BY <1>11, <1>13 DEF AutoMerge
<1>14. ASSUME NEW pull \in pulls, Decide(pull)
       PROVE  ChainsTell'
  <2>1. CASE MergePull(pull, "person")
    BY <1>11, <1>14, <2>1 DEF Decide
  <2>2. CASE pulls' = pulls \ {pull} /\ UNCHANGED <<branches, main, merged>>
    BY <1>2, <1>14, <2>2 DEF Decide
  <2>. QED
    BY <1>14, <2>1, <2>2 DEF Decide
<1>. QED
  BY StepsGrouped, <1>3, <1>4, <1>5, <1>6, <1>7, <1>8, <1>9, <1>10, <1>12, <1>13, <1>14

(* A branch that is there was there before, or is the run's own. *)
LEMMA BranchesChange ==
    ASSUME Next
    PROVE  \A b \in DOMAIN branches' :
              \/ b \in DOMAIN branches /\ branches'[b] = branches[b]
              \/ Push /\ b = BranchOf(run.chain) /\ branches'[b] = run.chain
<1>1. CASE Push
  BY <1>1 DEF Push
<1>2. ASSUME NEW gone, branches' = Removed(gone)
      PROVE  \A b \in DOMAIN branches' : b \in DOMAIN branches /\ branches'[b] = branches[b]
  BY <1>2 DEF Removed
<1>3. CASE UNCHANGED branches
  BY <1>3
<1>4. Push \/ (\E gone : branches' = Removed(gone)) \/ UNCHANGED branches
  BY StepsGrouped DEF Publish, Checkout, StaysPut, Sync, OpenPull, Closed, EnableAuto,
     CloseSuperseded, MergeNow, AutoMerge, MergePull, Decide, github
<1>. QED
  BY <1>1, <1>2, <1>3, <1>4

LEMMA NamedStep ==
    ASSUME IInv, Next
    PROVE  BranchesNamed'
<1>1. ASSUME Push
      PROVE  run.chain # <<>> /\ Tip(run.chain) = BranchOf(run.chain)
  BY <1>1 DEF Push, IInv, RunPushed, BranchOf
<1>. QED
  BY <1>1, BranchesChange DEF IInv, BranchesNamed, Tip

(* What a run does to itself. *)
LEMMA RunChanges ==
    ASSUME Next
    PROVE  \/ EndRun
           \/ \E force \in BOOLEAN : Checkout(force)
           \/ Sync \/ Push
           \/ /\ UNCHANGED run
              /\ pc' = pc \/ <<pc, pc'>> \in {<<"open", "close">>, <<"close", "merge">>}
  BY StepsGrouped DEF Publish, OpenPull, Closed, EnableAuto, CloseSuperseded, MergeNow,
     AutoMerge, Decide

LEMMA PushedStep ==
    ASSUME IInv, Next
    PROVE  RunPushed'
<1>. USE DEF IInv
<1>1. CASE EndRun \/ \E force \in BOOLEAN : Checkout(force)
  BY <1>1 DEF EndRun, Checkout, RunPushed
<1>2. CASE Sync
  <2>1. PICK version \in Version :
           run'.chain = Append(run.chain, version) /\ version.severity = run'.severity
    BY <1>2, SyncSigns
  <2>2. run'.chain # <<>> /\ run'.chain[Len(run'.chain)] = version
    BY <2>1 DEF Typed
  <2>. QED
    BY <1>2, <2>1, <2>2 DEF Sync, RunPushed
<1>3. CASE Push
  BY <1>3 DEF Push, RunPushed, BranchOf, Tip
<1>4. CASE /\ UNCHANGED run
           /\ pc' = pc \/ <<pc, pc'>> \in {<<"open", "close">>, <<"close", "merge">>}
  <2>1. CASE Push
    BY <1>3, <2>1
  <2>2. CASE ~Push
    BY <1>4, <2>2, BranchesChange DEF RunPushed, BranchOf, Tip
  <2>. QED
    BY <2>1, <2>2
<1>. QED
  BY RunChanges, <1>1, <1>2, <1>3, <1>4

(***************************************************************************)
(* Where main is not protected, only the run merges without a person, and  *)
(* what it merges is the routine change it signed.                         *)
(***************************************************************************)
LEMMA UnattendedStep ==
    ASSUME IInv, Next
    PROVE  NoneAuto' /\ LouderWaits'
<1>. USE DEF IInv
<1>0. UNCHANGED protected
  BY StepsGrouped DEF Publish, Checkout, StaysPut, Sync, Push, OpenPull, Closed, EnableAuto,
     CloseSuperseded, MergeNow, AutoMerge, Decide
<1>1. SUFFICES ASSUME ~protected
               PROVE  /\ \A pull \in pulls' : ~pull.auto
                      /\ \A n \in DOMAIN main' : merged'[n] = "job" => main'[n].severity = "routine"
  BY <1>0 DEF NoneAuto, LouderWaits, Unattended
<1>2. /\ \A pull \in pulls : ~pull.auto
      /\ \A n \in DOMAIN main : merged[n] = "job" => main[n].severity = "routine"
  BY <1>1 DEF NoneAuto, LouderWaits, Unattended
<1>3. ASSUME UNCHANGED <<main, merged>>,
             pulls' \subseteq pulls
               \cup {[branch |-> BranchOf(run.chain), label |-> run.severity, auto |-> FALSE]}
      PROVE  /\ \A pull \in pulls' : ~pull.auto
             /\ \A n \in DOMAIN main' : merged'[n] = "job" => main'[n].severity = "routine"
  BY <1>2, <1>3
<1>4. ASSUME NEW pull \in pulls, NEW how \in {"job", "person"}, MergePull(pull, how),
             how = "job" => /\ branches[pull.branch] = run.chain
                            /\ run.chain[Len(run.chain)].severity = "routine"
      PROVE  /\ \A q \in pulls' : ~q.auto
             /\ \A n \in DOMAIN main' : merged'[n] = "job" => main'[n].severity = "routine"
  <2>1. /\ main' = branches[pull.branch] /\ main' \in Seq(Version)
        /\ Len(main') = Len(main) + 1
        /\ \A n \in DOMAIN main : main'[n] = main[n]
        /\ merged' = Append(merged, how)
    BY <1>4, MergeAdds
  <2>2. /\ \A n \in DOMAIN main : merged'[n] = merged[n]
        /\ merged'[Len(main) + 1] = how
        /\ DOMAIN main' = DOMAIN main \cup {Len(main) + 1}
    BY <2>1 DEF Typed
  <2>3. how = "job" => main'[Len(main) + 1].severity = "routine"
    BY <1>4, <2>1
  <2>4. pulls' \subseteq pulls
    BY <1>4 DEF MergePull
  <2>. QED
    BY <1>2, <2>1, <2>2, <2>3, <2>4
<1>5. CASE MergeNow
  <2>1. PICK pull \in Pull(BranchOf(run.chain)) : MergePull(pull, "job")
    BY <1>5 DEF MergeNow
  <2>2. pull \in pulls /\ pull.branch = BranchOf(run.chain) /\ pull.branch \in DOMAIN branches
    BY <2>1 DEF Pull, MergePull, Mergeable
  <2>3. pc = "merge" /\ run.severity = "routine"
    BY <1>5 DEF MergeNow, IsRoutine
  <2>. QED
    BY <1>4, <2>1, <2>2, <2>3 DEF RunPushed
<1>6. CASE AutoMerge
  BY <1>2, <1>6 DEF AutoMerge
<1>7. ASSUME NEW pull \in pulls, Decide(pull)
      PROVE  /\ \A q \in pulls' : ~q.auto
             /\ \A n \in DOMAIN main' : merged'[n] = "job" => main'[n].severity = "routine"
  BY <1>3, <1>4, <1>7 DEF Decide
<1>8. CASE EnableAuto
  BY <1>1, <1>8 DEF EnableAuto
<1>9. ASSUME NEW pull \in pulls, CloseSuperseded(pull)
      PROVE  /\ \A q \in pulls' : ~q.auto
             /\ \A n \in DOMAIN main' : merged'[n] = "job" => main'[n].severity = "routine"
  BY <1>3, <1>9 DEF CloseSuperseded
<1>10. CASE OpenPull
  BY <1>3, <1>10 DEF OpenPull
<1>11. CASE UNCHANGED <<main, merged, pulls>>
  BY <1>3, <1>11
<1>12. \/ UNCHANGED <<main, merged, pulls>>
       \/ OpenPull \/ EnableAuto \/ MergeNow \/ AutoMerge
       \/ \E pull \in pulls : CloseSuperseded(pull) \/ Decide(pull)
  BY StepsGrouped DEF Publish, Checkout, StaysPut, Sync, Push, Closed, github
<1>. QED
  BY <1>5, <1>6, <1>7, <1>8, <1>9, <1>10, <1>11, <1>12

LEMMA IInvHolds == Spec => []IInv
<1>1. ASSUME Init
      PROVE  IInv
  <2>0. upstream \in Seq(Texts) /\ Len(upstream) = 1
    <3>1. PICK n \in Nat : n = 1 /\ upstream \in [1..n -> Texts]
      BY <1>1 DEF Init
    <3>2. upstream \in Seq(Texts)
      BY <3>1, SeqDef
    <3>. QED
      BY <3>1, <3>2, LenProperties
  <2>1. /\ upstream \in Seq(Texts) /\ Len(upstream) = 1
        /\ main = <<>> /\ merged = <<>> /\ pulls = {} /\ DOMAIN branches = {}
        /\ pc = "idle" /\ run = NoRun /\ protected \in BOOLEAN
    BY <1>1, <2>0 DEF Init
  <2>2. Typed
    BY <2>1, WatchAssumption DEF Typed, NoRun, Severities
  <2>3. ChainsTell
    BY <2>1 DEF ChainsTell, Tells, NoRun
  <2>. QED
    BY <2>1, <2>2, <2>3 DEF IInv, BranchesNamed, RunPushed, NoneAuto, LouderWaits, Unattended
<1>2. ASSUME IInv, [Next]_vars
      PROVE  IInv'
  <2>1. CASE Next
    BY <1>2, <2>1, TypeStep, ChainsStep, NamedStep, PushedStep, UnattendedStep DEF IInv
  <2>2. CASE UNCHANGED vars
    BY <1>2, <2>2 DEF vars, github, IInv, Typed, ChainsTell, Tells, Before, BranchesNamed, Tip,
       RunPushed, BranchOf, NoneAuto, LouderWaits, Unattended
  <2>. QED
    BY <1>2, <2>1, <2>2
<1>. QED
  BY <1>1, <1>2, PTL DEF Spec

(***************************************************************************)
(* Every version on main, every branch and every pull request is of its    *)
(* type, and each version on main has a note of how it came there.         *)
(***************************************************************************)
THEOREM Types == Spec => []TypeOK
<1>1. ASSUME Typed
      PROVE  TypeOK
  <2>1. \A n \in DOMAIN main : main[n] \in Version
    BY <1>1 DEF Typed
  <2>. QED
    BY <1>1, <2>1 DEF Typed, TypeOK, Version, PullRequest
<1>2. IInv => Typed
  BY DEF IInv
<1>. QED
  BY <1>1, <1>2, IInvHolds, PTL

(***************************************************************************)
(* Each version on main is signed as the change it is from the version     *)
(* before it there and pins no earlier commit, whatever was merged, closed *)
(* and pushed over in between.                                             *)
(***************************************************************************)
THEOREM MainIsTruthful == Spec => []MainTellsItsChanges
<1>1. IInv => MainTellsItsChanges
  BY DEF IInv, ChainsTell, Tells, MainTellsItsChanges
<1>. QED
  BY <1>1, IInvHolds, PTL

(***************************************************************************)
(* Where main is not protected, what comes to it without a person is a     *)
(* routine change of the main it comes to.                                 *)
(***************************************************************************)
THEOREM LouderChangesWait == Spec => []LouderWaits
<1>1. IInv => LouderWaits
  BY DEF IInv
<1>. QED
  BY <1>1, IInvHolds, PTL

-----------------------------------------------------------------------------
(***************************************************************************)
(* Pull requests are counted.  A run opens at most one, and gets past the  *)
(* loop that closes the others only when every one that is left is its     *)
(* own; a run that does not get there has failed.                          *)
(***************************************************************************)
OnePerBranch == \A p, q \in pulls : p.branch = q.branch => p = q

Allowed == (IF pc = "close" THEN 2 ELSE 1) + failures

Queue ==
    /\ IsFiniteSet(pulls) /\ failures \in Nat
    /\ OnePerBranch
    /\ Cardinality(pulls) <= Allowed

LEMMA AllowedTyped ==
    /\ failures \in Nat => Allowed \in Nat
    /\ failures' \in Nat => Allowed' \in Nat
BY DEF Allowed

LEMMA QueueStep ==
    ASSUME Queue, Next
    PROVE  Queue'
<1>. USE DEF Queue
<1>0. Cardinality(pulls) \in Nat
  BY FS_CardinalityType
<1>1. ASSUME pulls' \subseteq pulls, failures' \in Nat, Allowed <= Allowed'
      PROVE  Queue'
  <2>1. IsFiniteSet(pulls') /\ Cardinality(pulls') \in Nat /\ Cardinality(pulls') <= Cardinality(pulls)
    BY <1>1, FS_Subset, FS_CardinalityType
  <2>. QED
    <3>1. OnePerBranch'
      BY <1>1 DEF OnePerBranch
    <3>2. Allowed \in Nat /\ Allowed' \in Nat
      BY <1>1, AllowedTyped
    <3>3. Cardinality(pulls') <= Allowed'
      BY <1>0, <1>1, <2>1, <3>2
    <3>. QED
      BY <1>1, <2>1, <3>1, <3>3
<1>2. CASE OpenPull
  <2>. DEFINE new == [branch |-> BranchOf(run.chain), label |-> run.severity, auto |-> FALSE]
  <2>1. UNCHANGED failures /\ pc = "open" /\ pc' = "close"
    BY <1>2 DEF OpenPull, people
  <2>2. CASE pulls' = pulls
    BY <1>1, <2>1, <2>2 DEF Allowed
  <2>3. CASE pulls' = pulls \cup {new} /\ Pull(BranchOf(run.chain)) = {}
    <3>1. new.branch = BranchOf(run.chain) /\ \A p \in pulls : p.branch # new.branch
      BY <2>3 DEF Pull
    <3>. HIDE DEF new
    <3>2. OnePerBranch'
      BY <2>3, <3>1 DEF OnePerBranch
    <3>3. IsFiniteSet(pulls') /\ Cardinality(pulls') <= Cardinality(pulls) + 1
      BY <1>0, <2>3, FS_AddElement
    <3>4. Cardinality(pulls') \in Nat
      BY <3>3, FS_CardinalityType
    <3>. QED
      BY <1>0, <2>1, <3>2, <3>3, <3>4 DEF Allowed
  <2>. QED
    BY <1>2, <2>2, <2>3 DEF OpenPull
<1>3. CASE Closed
  <2>1. UNCHANGED <<pulls, failures>> /\ pc' = "merge" /\ Superseded = {}
    BY <1>3 DEF Closed, AllClosed, github, people
  <2>2. \A p, q \in pulls : p = q
    BY <2>1 DEF Superseded, OnePerBranch
  <2>3. Cardinality(pulls) <= 1
    <3>1. CASE pulls = {}
      BY <3>1, FS_EmptySet
    <3>2. CASE pulls # {}
      <4>1. PICK p : pulls = {p}
        BY <2>2, <3>2
      <4>. QED
        BY <4>1, FS_Singleton
    <3>. QED
      BY <3>1, <3>2
  <2>. QED
    BY <1>0, <2>1, <2>3 DEF OnePerBranch, Allowed
<1>4. CASE EnableAuto
  <2>1. UNCHANGED failures /\ pc = "merge" /\ pc' = "idle"
    BY <1>4 DEF EnableAuto, EndRun, people
  <2>2. PICK pull \in Pull(BranchOf(run.chain)) :
           pulls' = (pulls \ {pull}) \cup {[pull EXCEPT !.auto = TRUE]}
    BY <1>4 DEF EnableAuto
  <2>. DEFINE new == [pull EXCEPT !.auto = TRUE]
  <2>3. pull \in pulls /\ new.branch = pull.branch
    BY <2>2 DEF Pull
  <2>. HIDE DEF new
  <2>4. OnePerBranch'
    BY <2>2, <2>3 DEF OnePerBranch, new
  <2>5. IsFiniteSet(pulls') /\ Cardinality(pulls') <= Cardinality(pulls)
    <3>1. /\ IsFiniteSet(pulls \ {pull})
          /\ Cardinality(pulls \ {pull}) = Cardinality(pulls) - 1
      BY <2>3, FS_RemoveElement
    <3>2. /\ IsFiniteSet((pulls \ {pull}) \cup {new})
          /\ Cardinality((pulls \ {pull}) \cup {new}) <= Cardinality(pulls)
      <4>1. /\ IsFiniteSet((pulls \ {pull}) \cup {new})
            /\ Cardinality((pulls \ {pull}) \cup {new}) =
                  IF new \in pulls \ {pull} THEN Cardinality(pulls \ {pull})
                  ELSE Cardinality(pulls \ {pull}) + 1
        BY <3>1, FS_AddElement
      <4>. QED
        BY <1>0, <3>1, <4>1
    <3>. QED
      BY <2>2, <3>2 DEF new
  <2>6. Cardinality(pulls') \in Nat
    BY <2>5, FS_CardinalityType
  <2>. QED
    BY <1>0, <2>1, <2>4, <2>5, <2>6 DEF Allowed
<1>5. CASE Fail
  BY <1>1, <1>5 DEF Fail, EndRun, github, Allowed
<1>6. ASSUME NEW pull \in pulls, CloseSuperseded(pull) \/ Decide(pull)
      PROVE  Queue'
  BY <1>1, <1>6 DEF CloseSuperseded, Decide, MergePull, people, Allowed
<1>7. CASE MergeNow \/ AutoMerge
  BY <1>1, <1>7 DEF MergeNow, AutoMerge, MergePull, EndRun, people, Allowed
<1>8. CASE /\ UNCHANGED <<pulls, failures>>
           /\ pc' = pc \/ pc # "close"
  BY <1>1, <1>8 DEF Allowed
<1>9. \/ UNCHANGED <<pulls, failures>> /\ (pc' = pc \/ pc # "close")
      \/ OpenPull \/ Closed \/ EnableAuto \/ Fail \/ MergeNow \/ AutoMerge
      \/ \E pull \in pulls : CloseSuperseded(pull) \/ Decide(pull)
  BY DEF Next, Step, Publish, Scheduled, Dispatched, Checkout, SyncUnchanged, Sync, Push,
     FailOpen, LeaveOpen, FailMerge, github, people
<1>. QED
  BY <1>2, <1>3, <1>4, <1>5, <1>6, <1>7, <1>8, <1>9

(***************************************************************************)
(* Pull requests do not queue up: while no run is closing them there is at *)
(* most one more than runs that failed.                                    *)
(***************************************************************************)
THEOREM PullsAreBounded == Spec => []PullsDoNotQueue
<1>1. ASSUME Init
      PROVE  Queue
  BY <1>1, FS_EmptySet DEF Init, Queue, OnePerBranch, Allowed
<1>2. ASSUME Queue, [Next]_vars
      PROVE  Queue'
  <2>1. CASE UNCHANGED vars
    BY <1>2, <2>1 DEF vars, github, people, Queue, OnePerBranch, Allowed
  <2>. QED
    BY <1>2, <2>1, QueueStep
<1>3. Queue => PullsDoNotQueue
  BY DEF Queue, Allowed, PullsDoNotQueue
<1>. QED
  BY <1>1, <1>2, <1>3, PTL DEF Spec
=============================================================================
