-------------------------------- MODULE Watch --------------------------------
(***************************************************************************)
(* The scheduled job that turns syncs into pull requests                   *)
(* (src/.github/workflows/watch.yml), beside the people who merge and      *)
(* close pull requests and the upstream that moves.                        *)
(*                                                                         *)
(* Runs never overlap (the concurrency group).  A run checks out main,     *)
(* syncs, pushes a branch named by the digest of the bundle, opens a pull  *)
(* request unless the branch has one, closes the others one by one, and    *)
(* merges what is routine.  It may fail before any step.  A sync here is   *)
(* one step: Pipeline has its parts.                                       *)
(*                                                                         *)
(* GitHub is external: a pull request whose branch was not made on what is *)
(* main now conflicts (the chain is one binary file), merging removes the  *)
(* branch, a pushed branch keeps the title, the label and the automatic    *)
(* merge of its pull request, and `--auto` is possible when main is        *)
(* protected.  Changes of main that leave the chain alone are left out.    *)
(***************************************************************************)
EXTENDS Naturals, Sequences, FiniteSets

CONSTANTS
    Texts, Genesis,   \* what upstream may say, and what stands for no version
    SeverityOf(_, _), \* plan::compare: of what main says and upstream says
    MaxCommits, MaxFailures, MaxDecisions, MaxForced   \* bounds

ASSUME WatchAssumption ==
    MaxCommits \in Nat \ {0} /\ {MaxFailures, MaxDecisions, MaxForced} \subseteq Nat

VARIABLES
    protected,  \* main has branch protection; it stays as it is
    upstream,   \* the commits upstream has had, newest last
    main,       \* the versions of the chain on main
    branches,   \* the pushed branches: each the chain it holds
    pulls,      \* the open pull requests
    pc,         \* the run's next step
    run,        \* what the run has made: the chain it signed, its severity
    merged,     \* how each version of main was merged
    failures,   \* how many runs failed
    decisions,  \* how many pull requests people merged or closed
    forced      \* how many runs people started with --force

github == <<branches, pulls>>
people == <<failures, decisions, forced>>
vars == <<protected, upstream, main, github, pc, run, merged, people>>

-----------------------------------------------------------------------------
NoRun == [chain |-> <<>>, severity |-> "none", force |-> FALSE]

Latest(chain) == IF chain = <<>> THEN Genesis ELSE chain[Len(chain)].bundle.text

(* What upstream says now, pinned to its commit: equal bundles are equal   *)
(* digests.                                                                *)
Pinned == [pin |-> Len(upstream), text |-> upstream[Len(upstream)]]

Tip(chain) == chain[Len(chain)].bundle

(* Mutant of BranchOf: the branch is named by what upstream says. *)
BranchByText(chain) == Tip(chain).text

(* The branch fedramp-sync/<digest>. *)
BranchOf(chain) == Tip(chain)

Mergeable(branch) ==
    /\ branch \in DOMAIN branches
    /\ main = SubSeq(branches[branch], 1, Len(branches[branch]) - 1)

Pull(branch) == {pull \in pulls : pull.branch = branch}

(* Upstream gets a commit. *)
Publish(text) ==
    /\ Len(upstream) < MaxCommits
    /\ upstream' = Append(upstream, text)
    /\ UNCHANGED <<protected, main, github, pc, run, merged, people>>

-----------------------------------------------------------------------------
(***************************************************************************)
(* The steps of a run.                                                     *)
(***************************************************************************)
Checkout(force) ==
    /\ pc = "idle"
    /\ pc' = "sync"
    /\ run' = [NoRun EXCEPT !.chain = main, !.force = force]
    /\ UNCHANGED <<protected, upstream, main, github, merged, failures, decisions>>

(* The schedule and a push to main, and a person who may ask for --force. *)
Scheduled == Checkout(FALSE) /\ UNCHANGED forced

Dispatched == forced < MaxForced /\ Checkout(TRUE) /\ forced' = forced + 1

EndRun == pc' = "idle" /\ run' = NoRun

(* Nothing moved: committed is false and every other step is skipped. *)
SyncUnchanged ==
    /\ pc = "sync"
    /\ SeverityOf(Latest(run.chain), Pinned.text) = "none" /\ ~run.force
    /\ EndRun
    /\ UNCHANGED <<protected, upstream, main, github, merged, people>>

(* Mutant of Base: the sync goes on from the newest branch. *)
BranchAsBase ==
    IF pulls = {} THEN run.chain
    ELSE LET newest == CHOOSE pull \in pulls : \A q \in pulls : q.branch.pin <= pull.branch.pin
         IN  branches[newest.branch]

(* What the sync compares with and signs on: the main it checked out. *)
Base == run.chain

(* sync signs a version and verifies the chain. *)
Sync ==
    /\ pc = "sync"
    /\ SeverityOf(Latest(run.chain), Pinned.text) # "none" \/ run.force
    /\ LET severity == SeverityOf(Latest(Base), Pinned.text)
       IN  run' = [run EXCEPT !.chain = Append(@, [bundle |-> Pinned, severity |-> severity]),
                              !.severity = severity]
    /\ pc' = "push"
    /\ UNCHANGED <<protected, upstream, main, github, merged, people>>

(* Mutant of Push: without --force a branch that is there is not replaced. *)
PushFastForward ==
    /\ pc = "push"
    /\ BranchOf(run.chain) \in DOMAIN branches => branches[BranchOf(run.chain)] = run.chain
    /\ branches' = [b \in DOMAIN branches \cup {BranchOf(run.chain)} |->
                       IF b = BranchOf(run.chain) THEN run.chain ELSE branches[b]]
    /\ pc' = "open"
    /\ UNCHANGED <<protected, upstream, main, pulls, run, merged, people>>

(* git push --force *)
Push ==
    /\ pc = "push"
    /\ branches' = [b \in DOMAIN branches \cup {BranchOf(run.chain)} |->
                       IF b = BranchOf(run.chain) THEN run.chain ELSE branches[b]]
    /\ pc' = "open"
    /\ UNCHANGED <<protected, upstream, main, pulls, run, merged, people>>

(* gh pr list --head, and gh pr create when there is none. *)
OpenPull ==
    /\ pc = "open"
    /\ BranchOf(run.chain) \in DOMAIN branches
    /\ pulls' = IF Pull(BranchOf(run.chain)) # {} THEN pulls
                ELSE pulls \cup {[branch |-> BranchOf(run.chain),
                                  label  |-> run.severity, auto |-> FALSE]}
    /\ pc' = "close"
    /\ UNCHANGED <<protected, upstream, main, branches, run, merged, people>>

(* The pull request of the branch was merged meanwhile. *)
FailOpen ==
    /\ pc = "open"
    /\ BranchOf(run.chain) \notin DOMAIN branches
    /\ EndRun
    /\ UNCHANGED <<protected, upstream, main, github, merged, people>>

Superseded == {pull \in pulls : pull.branch # BranchOf(run.chain)}

Removed(branch) == [b \in DOMAIN branches \ {branch} |-> branches[b]]

(* gh pr close --delete-branch, one at a time. *)
CloseSuperseded(pull) ==
    /\ pc = "close"
    /\ pull \in Superseded
    /\ pulls' = pulls \ {pull}
    /\ branches' = Removed(pull.branch)
    /\ UNCHANGED <<protected, upstream, main, pc, run, merged, people>>

(* Mutant of AllClosed: the loop is left after the first. *)
AnyClosed == Cardinality(Superseded) <= 1

AllClosed == Superseded = {}

Closed ==
    /\ pc = "close"
    /\ AllClosed
    /\ pc' = "merge"
    /\ UNCHANGED <<protected, upstream, main, github, run, merged, people>>

(* Mutant of IsRoutine: minor changes are not worth a look either. *)
IsQuiet == run.severity # "major"

IsRoutine == run.severity = "routine"

LeaveOpen ==
    /\ pc = "merge" /\ ~IsRoutine
    /\ EndRun
    /\ UNCHANGED <<protected, upstream, main, github, merged, people>>

(* gh pr merge --squash --delete-branch --auto *)
EnableAuto ==
    /\ pc = "merge" /\ IsRoutine /\ protected
    /\ \E pull \in Pull(BranchOf(run.chain)) :
          pulls' = (pulls \ {pull}) \cup {[pull EXCEPT !.auto = TRUE]}
    /\ EndRun
    /\ UNCHANGED <<protected, upstream, main, branches, merged, people>>

MergePull(pull, how) ==
    /\ Mergeable(pull.branch)
    /\ main' = branches[pull.branch]
    /\ merged' = Append(merged, how)
    /\ pulls' = pulls \ {pull}
    /\ branches' = Removed(pull.branch)

(* Without protection `--auto` fails and the pull request is merged now. *)
MergeNow ==
    /\ pc = "merge" /\ IsRoutine /\ ~protected
    /\ \E pull \in Pull(BranchOf(run.chain)) : MergePull(pull, "job")
    /\ EndRun
    /\ UNCHANGED <<protected, upstream, people>>

(* Somebody closed or merged what the step is about, or it conflicts. *)
FailMerge ==
    /\ pc = "merge" /\ IsRoutine
    /\ \A pull \in Pull(BranchOf(run.chain)) : ~protected /\ ~Mergeable(pull.branch)
    /\ EndRun
    /\ UNCHANGED <<protected, upstream, main, github, merged, people>>

(* Any step fails: HTTP, build, permissions. *)
Fail ==
    /\ pc # "idle" /\ failures < MaxFailures
    /\ failures' = failures + 1
    /\ EndRun
    /\ UNCHANGED <<protected, upstream, main, github, merged, decisions, forced>>

-----------------------------------------------------------------------------
(* GitHub merges once the checks of the branch pass. *)
AutoMerge ==
    /\ \E pull \in pulls : pull.auto /\ MergePull(pull, "job")
    /\ UNCHANGED <<protected, upstream, pc, run, people>>

Decide(pull) ==
    /\ decisions < MaxDecisions
    /\ decisions' = decisions + 1
    /\ \/ MergePull(pull, "person")
       \/ /\ pulls' = pulls \ {pull}
          /\ UNCHANGED <<branches, main, merged>>
    /\ UNCHANGED <<protected, upstream, pc, run, failures, forced>>

Init ==
    /\ protected \in BOOLEAN
    /\ upstream \in [{1} -> Texts]
    /\ main = <<>> /\ merged = <<>>
    /\ branches = [b \in {} |-> <<>>] /\ pulls = {}
    /\ pc = "idle" /\ run = NoRun
    /\ failures = 0 /\ decisions = 0 /\ forced = 0

Step ==
    \/ SyncUnchanged \/ Sync \/ Push \/ OpenPull \/ FailOpen
    \/ \E pull \in pulls : CloseSuperseded(pull)
    \/ Closed \/ LeaveOpen \/ EnableAuto \/ MergeNow \/ FailMerge

Next ==
    \/ \E text \in Texts : Publish(text)
    \/ Scheduled \/ Dispatched \/ Step \/ Fail
    \/ AutoMerge
    \/ \E pull \in pulls : Decide(pull)

Spec == Init /\ [][Next]_vars

(***************************************************************************)
(* Fairness: the cron line starts a run every day, a run goes on until it  *)
(* ends or fails, and GitHub merges what it was told to merge.  Nothing is *)
(* assumed of people.                                                      *)
(***************************************************************************)
FairSpec == Spec /\ WF_vars(Scheduled) /\ WF_vars(Step) /\ WF_vars(AutoMerge)

-----------------------------------------------------------------------------
(***************************************************************************)
(* Properties.                                                             *)
(***************************************************************************)
Bundle == [pin : 1..MaxCommits, text : Texts]

(* Every variable has its type. *)
TypeOK ==
    /\ \A n \in DOMAIN main : main[n].bundle \in Bundle
    /\ Len(merged) = Len(main)
    /\ DOMAIN branches \subseteq Bundle
    /\ \A pull \in pulls : pull.branch \in Bundle /\ pull.auto \in BOOLEAN
    /\ pc \in {"idle", "sync", "push", "open", "close", "merge"}

Before(chain, n) == IF n = 1 THEN Genesis ELSE chain[n - 1].bundle.text

(***************************************************************************)
(* Whatever is merged, closed, force-pushed or left behind by runs that    *)
(* failed, each version on main is signed as the change it is from the     *)
(* version before it on main, and is pinned to no earlier commit (DESIGN.md *)
(* 8: each pull request is a snapshot diffed against merged main).         *)
(***************************************************************************)
MainTellsItsChanges ==
    \A n \in DOMAIN main :
        /\ main[n].severity = SeverityOf(Before(main, n), main[n].bundle.text)
        /\ n > 1 => main[n - 1].bundle.pin <= main[n].bundle.pin

(***************************************************************************)
(* Pull requests do not queue up: besides the one of the newest run there  *)
(* is at most one for each run that failed before it could close what it   *)
(* superseded, while no run is closing them (watch.yml 122).               *)
(***************************************************************************)
PullsDoNotQueue == pc # "close" => Cardinality(pulls) <= 1 + failures

(* The versions that came to main without a person. *)
Unattended == {n \in DOMAIN main : merged[n] = "job"}

(***************************************************************************)
(* What is merged without a person is a routine change of the main it is   *)
(* merged into.  DESIGN.md 8 says that `minor`, `major`, `metadata` and    *)
(* genesis wait for a human.  It holds where main is not protected.  Where *)
(* it is, the automatic merge that was set up for one comparison stays     *)
(* with the branch when it is pushed again after main has moved.           *)
(***************************************************************************)
LouderWaits == ~protected => \A n \in Unattended : main[n].severity = "routine"

(***************************************************************************)
(* Once upstream has stopped moving, main does not stay behind by a change *)
(* that is routine: runs go on until it is merged, through failed runs,    *)
(* branches left behind and pull requests that people closed or merged.    *)
(***************************************************************************)
RoutineArrives == <>[](SeverityOf(Latest(main), Pinned.text) # "routine")
=============================================================================
