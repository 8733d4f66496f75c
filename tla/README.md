# A verification project for fedramp-aion

fedramp-aion watches five upstream sources (the FedRAMP rules, the submission
schemas, the marketplace, NIST 800-53 in OSCAL and CISA's KEV catalog), decides
whether what they *say* moved, and if so appends a signed version to the chain
file `fedramp.aion`. Other commands read the chain: they list obligations, sign
and verify receipts, validate packages, serve agents over MCP.

This directory holds TLA+ models of that program, TLC runs that check them on
small instances, and proofs that TLAPS checks for every instance. Paths below
are relative to the repository root.

## 1. Inventory

| component | code | state | operations | status |
|---|---|---|---|---|
| change gate | `src/plan.rs`, `src/severity.rs` | none | `compare`, `delta_for`, `headline`, `should_fail` | modelled: `Gate`, `Severities` |
| sync pipeline | `src/lib.rs` `run_sync`, `run_plan` | a run's memory; `data/`, `data/provenance.json`, the outputs | read chain, resolve, fetch, gate, write, sign, verify, cross-check, report | modelled: `Pipeline` |
| signed chain | `src/chain.rs` | `fedramp.aion` | `commit`, `verify`, `previous_bundle`, `digests_match` | partly: `Ledger`, `Pipeline`, `Readers`; the file format is external |
| upstream access, capture | `src/sources.rs`, `src/lib.rs` `run_capture` | the capture directory | `resolve_commit`, `http_snapshot`, `http_dir_snapshot`, `dir_snapshot`, `run_capture` | modelled: `Capture`; one step of `Pipeline` each |
| canonical form, bundle | `src/canon.rs`, `src/bundle.rs` | none | projection, digests, `pinned_timestamp` | partly: abstracted in `Gate` |
| semantic diffs | `src/diff/*.rs` | none | five strategies | modelled: `Diff`, `RulesDiff`, `OscalDiff`, `KevDiff`, `MarketplaceDiff`, `SchemasDiff`, `SemanticDiff` |
| obligations | `src/obligations.rs`, the impact table of `src/report.rs` | none | `select`, `delta`, who is affected | modelled: `Obligations` |
| receipts | `src/receipt.rs` | receipt files | `create`, `verify` | modelled: `Receipts`, `Readers` |
| commands that read the chain | `src/lib.rs` | what they loaded | load, verify, answer | partly: `Pipeline`, `Readers`, `Validator`, `Lookups` |
| MCP server | `src/mcp.rs` | the bundle it loaded | `load`, the tools | modelled: `Readers` (loading), `Lookups` (tools) |
| control and kev look-ups | `src/lib.rs` `run_control`, `run_kev`, `src/diff/kev.rs` | none | `run_control`, `run_kev`, `governing_rules` | modelled: `Lookups` |
| package validation | `src/validate.rs`, `src/lib.rs` `run_validate` | none | retrieve a schema, validate, binding rules, receipt | modelled: `Validator`, `Readers` |
| keys | `src/chain.rs` `keygen`, `reveal_secret` | keystore, `registry.json` | create, append, reveal | modelled: `Keys` |
| watch workflow | `.github/workflows/watch.yml`, `verify.yml` | branches, pull requests, main | sync, push, open, supersede, merge | modelled: `Watch` |
| reports, command line | `src/report.rs`, `src/cli.rs`, `src/main.rs` | none | wording, arguments | partly: outputs, exit status, impact |
| release workflow | `.github/workflows/release.yml` | none | package | not modelled: no program logic |

**How they interact.** `run_sync` calls the chain (`previous_bundle`), the
fetcher, the gate, the disk (`write_snapshots`), the chain again (`commit`,
which verifies) and the disk again (`digests_match`). All sharing goes through
files in one working directory: no lock is taken, and only the concurrency group
of `watch.yml` keeps two runs apart. The readers open the same chain file twice,
once for the payload and once to verify. The workflow turns a committed version
into a pull request, and its severity decides whether a person sees it.

**What is hard.** The chain is read at the start of a run and written at its
end; upstream moves while five sources are resolved and fetched one after the
other; files are written before the version is signed and nothing is rolled
back; genesis and later versions take different paths through the signing
library; the gate must ignore what churns daily and never miss what moved; a
run that dies leaves whatever it had written; a receipt is computed from two
readings of a file; a pull request outlives the run that classified it; ids that
are assumed unique key every map of the diffs. `PROJECT.json` lists each of
these hazards at its line with the properties that cover it, or with the reason
why none does.

## 2. Plan

| module | builds on | what it adds | state of the work |
|---|---|---|---|
| `Ledger`, `Gate`, `Pipeline`, `PipelineProofs` | `Severities` | the abstract specification, the decision, the sync and its proofs | done |
| `Diff`, `Trees`, five `*Diff`, `Obligations`, `SemanticDiff`, `SemanticDiffProofs` | `Gate` | what each diff says; discharges the parameter of `Gate` | done |
| `Receipts`, `Readers`, `ReadersProofs` | | the seal and its binding; the readers while the file moves | done |
| `Watch`, `WatchProofs` | `Severities` by `SeverityOf` | pull requests, superseding, automatic merge against people | done |
| `Validator`, `Keys`, `Capture`, `Lookups`, each with its `*Proofs` | the diffs | the other commands | done |

Every invariant and action property that a passing run checks is proved; the two
liveness properties are model-checked only (section 5).

## 3. The modules

### Gate

Documents are records of a `substance` (what is left after `canon::without_all`)
and a `volatile` part (what it strips). A digest is the value it is taken of:
JCS and sha256 are assumed injective. A bundle maps each source to a snapshot
(`pin`, the position of an upstream commit, and `doc`) or to `Absent`.

`Severities` has the order of `severity.rs`. `DeltaSeverity`, `DeltaChanged` translate `delta_for`; `Plan` translates
`compare`; `Headline` translates `headline` and `headline_subject` as a set of
announcements (the wording is left out, what is announced of which source is
kept); `Trips` is `should_fail`. What a semantic diff says is the constant
`DiffSeverity`, so every result about `Pipeline` holds for any diff;
`SemanticDiff` gives it the value of the code. `compare` hands the diffs the
rules of the same fetch (`RulesInScope`; the constant `Rules` names that source),
because the 800-53 diff grades a control by whether FedRAMP references it, so a
source's severity may depend on another source's document.

### Pipeline

One action per step of `run_sync`, in its order:

| step (`pc`) | actions | code |
|---|---|---|
| idle | `Start` | `previous_bundle` (lib.rs:64, chain.rs:147) |
| fetch | `Resolve`, `Fetch`, one source at a time | sources.rs:155, :178 |
| fetch | `StopUnchanged`, `StopDryRun`, `Proceed` | lib.rs:67-80 |
| write | `WriteSnapshot` per file, `WriteProvenance` | lib.rs:613-626 |
| sign | `OpenChain`: the test for the file, and what it holds | chain.rs:168 |
| append | `InitFile`, `CommitVersion`, `RejectCommit` | chain.rs:169-200 |
| verify | `Verify`, `FailVerify` | chain.rs:202-208 |
| check | `CrossCheck`, `FailCrossCheck` | lib.rs:96-102, chain.rs:219 |
| report | `Report` | lib.rs:104-110 |
| any | `Interrupt` | any `?` of run_sync, or a kill |

The environment publishes upstream commits (`Publish`) and installs builds that
watch more sources (`Upgrade`). `run_plan` is the dry run without `--force`.

What is abstracted: the order of the files in `write_snapshots`, and of the
sources in `build`, is left open, which allows more behaviours than the code.
A directory source is one document read at its pin. `chain` keeps each version's
bundle; the file keeps the newest payload and a hash trail of the others. The
signing library (aion-context) is not in this repository: that `commit_version`
refuses an unpinned key and `verify_file` accepts exactly pinned keys is read off
how `chain.rs` uses them. `Serialized` stands for the concurrency group of
`watch.yml`; with `FALSE` the runs share the directory without it, as two
command lines can.

No lock spans the test for the chain file (chain.rs:168) and the write (`Replace`):
`init_file` puts a genesis where the test found no file, `commit_version` puts
back the versions it read and one more. What other runs signed in between is
gone, for `init_file` too: that it would refuse a file that has appeared is not
assumed (where it does, the run ends as in `Interrupt`). Each replacement is
itself one write. The test and the reading are one step because no step removes
the file, so that a run that finds it can read it at once. The history variable
`raced`, which nothing reads, says that a run replaced a chain that was not the
one it had read; it has no counterpart in the code.

The sources are fetched over HTTP. `sync --from-dir` is left out (section 6), so
what is said of pins and cuts of upstream is said of runs that fetch.

A version's `message` is the plan it was signed under, not its text. An
upstream history is a sequence, and `resolve_commit` returns its last position.

### Ledger

The abstract specification: upstream histories that grow, and a chain that
grows by `Sign`, which takes a pin for each source and appends what upstream has
there, under the message that comparing it with the latest version gives, with
no source lost and no pin gone back, and with a pinned key after genesis.
`Pipeline` implements it with the identity mapping on `upstream` and `chain`
(`ImplementsLedger`) when runs do not overlap.

### Diff, RulesDiff, OscalDiff, KevDiff, MarketplaceDiff, SchemasDiff

One module per file of `src/diff/`, without state. `Diff` has what `diff/mod.rs`
shares: a JSON object is a function from its keys, a delta keeps ids, names of
fields, highlights, drift notes and counts; rendered values are left out. Each
strategy has an operator `Compared` (`diff`, the delta) and `SeverityOf`
(`classify`). The documents are spelled out as deep as the strategy looks:

- `RulesDiff`: `flatten` of the four sections, with applicability in the path of
  a leaf; `highlight_force`, `highlight_per_class_force`; drift of `info`.
- `OscalDiff`: the recursion over groups and controls (`Collect`), the last
  control of an id staying in the map (`FlattenCatalog`), the two forms of an id
  and `normalise_id`, the set of referenced controls.
- `KevDiff`: the list keyed by `cveID`.
- `MarketplaceDiff`: collections that are keyed, unkeyed, or keyed by an id that
  repeats (`diff_multiset`), material fields against counters, opaque objects.
- `SchemasDiff`: `walk` to JSON pointers (`Walk`, `PointersOf`), the limit of pointers per file
  (`MaxPointers`, 3 instead of the code's, so that truncation happens), and the
  call-out of `required` and `properties`, matched by the segments of a pointer
  where the code looks for a substring.

`collect` and `walk` recurse into documents of any depth. `Trees` has that
recursion once, unfolded round by round without a recursive operator: each item
is replaced by what visiting it gives, until nothing is left to visit. The code
pushes onto one list, or inserts into one map, in depth first order; here what is
found is a set, and the order is that of the places in the document
(`Precedes`), which decides which control of a repeated id stays and which
pointers are the first `MaxPointers`. It ends after `MaxDepth` rounds; serde_json
reads no deeper than 128.

### Obligations

`select` and `delta` of `obligations.rs` and `obligation_impact` of `report.rs`:
which leaves apply to a profile, with the fallbacks of role, class, type and
path on the subset's applicability; the strictest variant when no class is
given (`Resolve`); the index by id; the fixed list of profiles of the report.
The empty statement is the constant `NoText`: an empty string, or no phrases.
An obligation is the place of its leaf and its terms. Letter case and display
names are left out.

### SemanticDiff

Composes the five strategies with the gate: `G == INSTANCE Gate WITH ...
DiffSeverity <- StrategySeverity`, which discharges the parameter that `Pipeline`
leaves open. The state is what the chain has signed and what upstream says; a
step publishes a document or syncs a changed plan whole. `Docs` is a set of
worlds (`docs` is picked at the start and never changes): in each world the
documents of one strategy move while the others rest, except that rules and
800-53 move together.

What the properties compare the strategies with is written without their
recursion: the nodes of a catalog or of a JSON value level by level
(`NodesBelow`, `HeldBelow`), the controls there are at any level (`ControlsIn`),
and what a value holds at a pointer (`HeldAt`).

### Receipts and Readers

`Receipts` has `create` and the checks of `verify` (`receipt.rs`): the signature
with the key of the epoch cited, the claim binding (`ClaimBound`), and the
comparison with a chain (`MatchesChain`). A signed statement cannot be edited, a
claim can.

`Readers` has the commands that use them, one action per step of `run_receipt`,
`run_validate`, `run_receipt_verify` and `run_mcp`:

| step (`pc`) | actions | code |
|---|---|---|
| idle | `Start`, `StartVerify` | lib.rs:231, :313; the operator is not the feed; `--no-chain` goes on to judge |
| read | `ReadPayload`, `NoChain` | `previous_bundle` |
| validate | `Validate` | reads the package |
| verify | `Verify`, `Refuse` | `load_registry`, `chain::verify` |
| seal | `Seal`, `RefuseToCite` | `create`, evidence read now |
| judge | `Judge` | `receipt::verify` |
| serve | `HangUp` | the session keeps what it loaded |

Around them `Sync` appends versions (one step: its parts are `Pipeline`'s),
`Save` writes evidence files, `Rotate` rotates a key, `StartOver` puts another
chain file in place, `Edit` changes a field of a receipt's claim. The commands
write nothing the others read but receipts, so one process stands for any number
of them: what several do is what one does again and again.

### Watch

The job of `watch.yml`, one action per step: check out, sync, push `--force` to
the branch of the bundle's digest, open a pull request unless the branch has
one, close the others one by one, merge what is routine (at once, or set up the
automatic merge when `protected`). A run may fail before any step (`Fail`);
people merge or close any pull request (`Decide`) and start runs with `--force`;
GitHub merges later (`AutoMerge`). A branch holds the chain a run signed on the
main it checked out and merges only if main is still that one: the chain is one
binary file. `SeverityOf` is the gate, as a parameter.

### Validator

`run_validate` and the retriever of `validate.rs`. The `jsonschema` library
follows the pending references in any order (`Follow`); `Retrieve` gives a file,
or for the path form the definition alone and a note of the repair. Whether a
package meets the constraints is open. What a schema leads to, which the
properties speak of, is the least set that has its root and is closed under
references (`Closure`); the retrieval arrives at it in whatever order it goes.

### Keys

`run_keygen` in its three writes (keystore, registration in memory, registry)
with a stop between any two, and `run_secret`. `Replaces` says what the external
keystore does with an id that is taken; `FALSE` is assumed, and `PinnedIsRecoverable`
needs it: with `TRUE`, a keygen that fails after generating leaves a pinned key
that no id holds.

### Capture

`Fetcher` and `run_capture` request by request: resolve, list, get each file at
the commit, write the content, write the provenance, while files change, appear
and go away; `Replayed` is what `dir_snapshot` and the offline pin make of the
directory. Each write of a file is atomic.

### Lookups

The tools of `mcp.rs`, `run_obligations`, `run_control` and `run_kev`, as
functions of one bundle. A text is the set of phrases in it. A search that stops
early may return any of its matches, because the order of leaves is left open.

## 4. The runs

| run | what it asks | bounds |
|---|---|---|
| `Pipeline_serial` | safety of the sync, and that it implements `Ledger` | 2 sources, 2 commits each, a build that gains a source, 1 forced version, 1 interruption |
| `Pipeline_race` | what survives without the concurrency group and with unpinned keys: reports, up to the first lost update | 1 source, 2 commits, all command lines, 1 interruption |
| `Pipeline_live` | the chain catches up | 1 source, 3 commits, 1 interruption |
| `Pipeline_unpinned` | **violated**: a genesis with an unpinned key is written (7) | 1 source, 2 commits |
| `Diff_strategies` | what the five diffs and the obligations must not miss | 5 worlds of small documents, every pair of them |
| `Readers_receipts` | receipts and sessions while the chain moves | 2 versions of 2 payloads, 1 receipt, 1 mishap (rotation, new chain file or edit) |
| `Readers_race` | **violated**: a receipt cites the version after its own (7) | 2 versions, no mishap |
| `Watch_merges` | pull requests and main | 3 commits of 4 texts, 1 failed run, 2 decisions, 1 forced run; main protected or not |
| `Validator_sets` | repairs and compilation | 2 signed files, 2 definitions, every set of references between them, to an absent file and outside |
| `Keys` | keygen and secret | 3 ids, 3 authors, 4 keys |
| `Capture` | captures and their replay | a file and a directory of 2, 3 commits, 2 captures |
| `Lookups_answers` | ids and searches | about 270 bundles, every call |

Every action and every disjunct of every next-state relation fires in one of
the passing runs; every property has a mutant in `PROJECT.json`, a plausible bug
defined next to the definition it replaces, that makes it fail in the same run.

### Pipeline

Two runners, `s1` diffed like the rules (whatever moves is major), `s2` like
800-53 (major when the rules of the same fetch speak of what it says, otherwise
routine or nothing the diff can name). Runners, substances and volatile values
are interchangeable; the liveness run uses no symmetry.

Two commits let upstream move between resolving and fetching, between two
sources and between two runs; a second volatile value makes a commit that must
not be signed; three commits (liveness) let upstream go back to an earlier text;
one interruption at any step followed by a full run shows what the next run
makes of the leftovers; two runners are what a race needs. `Pipeline_serial`
uses pinned keys and no dry runs; those are in `Pipeline_race`, which has one
volatile value because its properties do not look at the gate. That the
refinement also holds with unpinned keys is proved (section 5).

- `TypeOK`.
- `PinsExplainContent`: a version holds the bytes upstream has at its pins.
- `MessagesTruthful`: each message is the comparison with the version before.
- `PinsNeverRegress`: no source is lost and no pin goes back.
- `ReportedVersionIsSigned`: a reported version has the number and the content
  that were reported, in a chain that verifies from its genesis.
- `SignedUnlessRaced` (without the concurrency group): the same, until a run signs
  between another's test for the file and its write. Runs that overlap while they
  fetch, write `data/`, verify or report do each other no harm in this respect.
- `PublishedTreeAgrees`: at the report the version is the newest, `data/` and
  `provenance.json` are its documents and pins, whatever failed runs left.
- `NoIdleVersion` (action): only `--force` signs a version that says the same.
- `ImplementsLedger` (refinement) and `CatchesUp` (liveness).

Without the concurrency group `MessagesTruthful`, `PinsNeverRegress`,
`PublishedTreeAgrees` and `ReportedVersionIsSigned` fail: two runs that both test
before either writes sign one version over the other, two first runs as well as
two later ones, and the run whose version is gone may report its number. Nothing
in the code notices it. `PinsExplainContent` holds even then: `SignedBundlesReplay`
(section 5) does not ask that runs do not overlap.

**Fairness.** `Step(r)` is weakly fair: a started process is never blocked by
another one, it ends or is cut short. `Start` of a run that is not a dry run is
strongly fair: the cron line of `watch.yml` starts a run every day, and
`cancel-in-progress: false` means a queued run waits for the group and then
starts, so it may be disabled again and again but not overtaken for ever.
Publishing, upgrades and interruptions are not fair: they are bounded, and
`CatchesUp` speaks of what happens once they stop.

### The diffs and the obligations

The documents of `MCSemanticDiff` are the smallest in which the cases of the
code occur: a rule for all types beside one that varies by class and an id that
appears under two types; subsets that restrict classes; catalogs with an
enhancement and a nested group against rules that reference in both forms;
vulnerabilities without an id or reordered; products whose status or counters
move, mapping rows that repeat; schemas nested two deep with more differences
than the limit. Every pair of documents of a world is compared, because any can
be signed when any other is published.

- `ObligationMovesAreMajor`: whatever changes what a profile is obliged to is major.
- `ForceShiftsAreHighlighted`: also a force that moves in a variant alone, when
  both sides state one. That a rule's own force gives way to a variant that
  states none is not called out, and the property does not ask for it.
- `WideProfileMissesNothing`: leaving class, type or path out loses no obligation.
- `DeltaReplays`: the delta applied to the old obligations gives the new ones.
- `ImpactShowsBindingShifts`: when the set of rules that bind a provider moves,
  the report's table has a row for the provider's class and type, or for one of
  those it leaves out, in which something comes, goes or shifts. It is about
  profiles that name no path, as the rows do (a rule that only moves from one path
  to another has no row), about rules for the types and for some of the classes
  that have rows (`Charted`), and about ids that apply once.
- `ReferencedMovesAreMajor`, `MajorTouchesReferenced`: the 800-53 verdict in both
  directions, about the controls that came, went or differ at any depth, where no
  two controls of a catalog share an id. A control that contains the one that
  moved has moved as well (8).
- `ListMembershipIsMinor`, `ProductEventsAreMinor`: no automatic merge takes them.
  The due date of a CVE is compared where the id is unique in the catalog, as
  `kev.rs` says it is; products where both documents list them under ids of their
  own (otherwise they are rows of a multiset, 8).
- `EveryDifferenceIsPointedAt`: below the limit each scalar that only one of two
  versions of a file holds is under a listed pointer; at or above the limit too,
  the files differ at each listed pointer, and not just further down.

### Receipts and readers

Two versions are enough: a receipt is sealed over one payload and verified
beside the other, and a sync can come between the two readings. A third version
was tried and changes nothing but the number of states.

- `CitationNeverAhead`: the payload cited was signed at the cited version or
  before it, whatever comes between the readings.
- `IssuedOnValidChains`: what `run_receipt` cites is signed with pinned keys, and
  stays so after rotations.
- `HonestReceiptsPass`: an unedited receipt over the payload of its version keeps
  passing, after later versions and rotated keys.
- `SealedFieldsHold`: an edit of action, operator, obligations, rules or evidence
  never passes. Evidence means files of different names: of two files of one name
  only the first digest is compared (receipt.rs:267, :474).

### Watch

Three commits and one failed run leave a branch without a pull request, or a
pull request that a newer run did not close; two decisions let people merge one
pull request and close another.

- `PullsDoNotQueue`: at most one open pull request more than runs that failed.
- `LouderWaits`: without branch protection only routine changes of main reach it
  unattended.
- `MainTellsItsChanges`: each version on main is labelled as the change it is
  from the version before it there, and pins do not go back.
- `RoutineArrives` (liveness): main does not stay behind by a routine change.

**Fairness.** `WF(Scheduled)`: the cron line starts a run when none is under way;
`WF(Step)`: a run goes on until it ends or fails; `WF(AutoMerge)`: GitHub merges
what it was told to once that is possible. Nothing is assumed of people, and
failures are bounded.

### The others

- `ReportsEveryRepair`: in whatever order references are followed, a verdict is
  over signed schemas alone and lists each repair that was made.
  `SoundSchemasCompile`: a schema with an offline meaning compiles, unless it
  asks by path for a definition that refers to its neighbours (8).
- `ShownStaysPinned`: a seed that was printed stays the pinned key of its author.
  `PinnedIsRecoverable`: every pinned key stays in the keystore, for one author.
- `WholeCaptureIsExplained`: a capture that ended well replays as the trees of its
  pins, whatever earlier ones left. `ReplayIsHonest`: a first capture cut short
  anywhere never shows text under the pin of another commit.
- `CitedIdsAreFound`, `SearchMissesNothing`, `PlainKevRulesGovern`: ids that one
  tool hands out are found by another at the leaf they came from; a search that
  does not say it is truncated has every rule whose text matches; the rules that
  govern KEV are found.

`Capture` is the one run with `CHECK_DEADLOCK FALSE`: when the captures and the
commits are used up, nothing is left to do.

## 5. The proofs

Eight modules hold theorems. Each is about the specification a run checks, for
every value of its constants, from the assumptions that the module of the
specification names; TLC evaluates those on every run.

### Pipeline

`PipelineProofs` proves, for every finite or infinite set of sources,
documents, runners and keys, every diff and every bound, from
`GateAssumption` (the absent markers are no documents, snapshots or bundles;
diffs return severities) and `PipelineAssumption` (command lines use keys that
exist, there is a key, builds watch known sources):

| theorem | says | needs `Serialized` |
|---|---|---|
| `Types` | `Spec => []TypeOK` | no |
| `SignedBundlesReplay` | `Spec => []PinsExplainContent` | no |
| `MessagesAreTruthful` | `Spec => []MessagesTruthful` | yes |
| `PinsAdvance` | `Spec => []PinsNeverRegress` | yes |
| `RunsImplementLedger` | `Spec => ImplementsLedger` | yes |
| `ReportsAreSigned` | `Spec => []ReportedVersionIsSigned` | yes |
| `ReportsAreSignedUnlessRaced` | `Spec => []SignedUnlessRaced` | no |
| `TreesAgree` | `Spec => []PublishedTreeAgrees` | yes |
| `NoVersionIsIdle` | `Spec => NoIdleVersion` | yes |

None of the properties is inductive. `IInv` strengthens them in two layers:

- `Provenance`, which holds whatever overlaps: upstream histories are never
  empty; a snapshot pins a commit that exists and, once read, has its bytes
  (`SnapshotsGenuine`); an idle run holds nothing, and a run past the gate holds
  all the sources of its build (`SnapshotsComplete`, which is also why no
  partial bundle is signed). Appending a version copies these facts into the
  chain, and what a run found in the file has them too (`FoundGenuine`), so that
  putting it back does no harm to them.
- `Sequential`, which needs `Serialized`: at most one run is under way
  (`Alone`); it compares with the current version, watches all its sources and
  has resolved no commit older than that version's (`InStep`); the current
  version's sources are watched (`LatestIsWatched`); what it found in the file is
  still there when it writes (`FoundIsCurrent`). When such a run signs, the
  message and the pins are right, and the step is a `Sign` of `Ledger` with the
  pins of its snapshots as the witness (`SnapshotsAreACut`).

`IInv` was checked with TLC on the instances of `Pipeline_serial` and
`Pipeline_race` before it was proved.

`StepsGrouped` folds the twenty actions into eleven kinds of step (`Tick`), and
each preservation lemma goes through these. The last four theorems add to it:
`ReportInv` (what a run signed stays at its number, a run past `verify` stands on
a chain that verifies, and the report is what was signed), which is kept by every
step after which `raced` is still false, because such a step only appends to the
chain (`ChainGrows`); that gives `raced \/ ReportInv` of all runs, and of runs
that do not overlap `ReportInv` itself, as `FoundIsCurrent` excludes `raced`.
`TreeInv` says what `data/` and the provenance hold while a run writes, signs and
checks, and that the version it signed is still the newest: it needs the runs to
be one after the other. `GatePassed`: a run that writes had a changed plan or
`--force`. In `Ledger` the first conjunct of `Sign` follows from another one; it
lets TLC reject at once the steps that sign nothing.

### Keys

From `KeysAssumption`, for any ids, authors and number of keys:

| theorem | says | needs |
|---|---|---|
| `Types` | `Spec => []TypeOK` | |
| `PrintedSeedsStayPinned` | `Spec => []ShownStaysPinned` | |
| `PinnedKeysAreRecoverable` | `Spec => []PinnedIsRecoverable` | `~Replaces` |

The strengthening says what a keygen holds between its steps: before it
registers, a key that nobody is pinned to (`Fresh`); before it writes, the
registry of the disk with that key for an author who had none (`Pending`); and,
for the last theorem, that this key is in the keystore (`KeyStored`).

### Watch

From `WatchAssumption` (the bounds are numbers, and there is a commit), for any
texts, any comparison of them and both kinds of main:

| theorem | says |
|---|---|
| `Types` | `Spec => []TypeOK` |
| `MainIsTruthful` | `Spec => []MainTellsItsChanges` |
| `LouderChangesWait` | `Spec => []LouderWaits` |
| `PullsAreBounded` | `Spec => []PullsDoNotQueue` |

What is merged was in a branch, what is pushed was in a run, and what a run
extends was on main; so what is to be shown of main is shown of all three
(`ChainsTell`). A branch is named by its newest bundle (`BranchesNamed`), what a
run signed stays in its branch (`RunPushed`), and on an unprotected main no pull
request merges by itself (`NoneAuto`). The bound on pull requests has an
invariant of its own: one per branch, and while a run closes them one more than
after it (`Queue`).

### Capture

From `CaptureAssumption` (there are sources, their ids differ, each has a file):

| theorem | says |
|---|---|
| `CapturesAreExplained` | `Spec => []WholeCaptureIsExplained` |
| `ReplaysAreHonest` | `Spec => []ReplayIsHonest` |

A commit stays as it is, so what was got at a commit is of that commit whatever
is committed meanwhile (`Gathered`). A running capture has settled the sources it
is past (`InOrder`), each being content under the pin that explains it, and comes
back to none: this is where the ids must differ. The first capture finds no pin
where it is going to write (`FirstOne`); a second one does, and there the
property stops (8).

### Readers

From `ReadersAssumption` (the feed has a key, the commands are those of the
command line, the bounds are numbers), for any number of processes, which read
while versions are signed, keys rotate and another file is put in place:

| theorem | says |
|---|---|
| `Types` | `Spec => []TypeOK` |
| `CitationsAreNeverAhead` | `Spec => []CitationNeverAhead` |
| `ReceiptsAreOnValidChains` | `Spec => []IssuedOnValidChains` |
| `HonestReceiptsKeepPassing` | `Spec => []HonestReceiptsPass` |
| `EditsAreFound` | `Spec => []SealedFieldsHold` |

`Reading` says what a command knows between its two readings of the file: a
payload of it, or of an earlier file, and, once it verified, a length of it whose
versions have the keys of the registry. A receipt nobody edited is what its
command made of that (`Issued`), an edited one says another thing than what was
sealed (`Altered`), and a verdict that passed was bound to its claim (`Judged`).
Rotation leaves the keys of the versions there are as they were, because some
epoch has always begun (`LastStarts`).

### Validator

From `ValidatorAssumption` (schemas are documents with a root and references):

| theorem | says |
|---|---|
| `RepairsAreReported` | `Spec => []ReportsEveryRepair` |
| `SoundSchemasDoCompile` | `Spec => []SoundSchemasCompile` |

The places that are reached lie in every set closed under references, as each
was referred to (`Reached`); each reference of such a place is pending or was
followed, and noted if it had to be repaired (`Followed`). Once nothing is
pending they are closed themselves, so they are the least such set.

### SemanticDiff

From `SemanticDiffAssumption` (documents have the shape the strategies read them
by: variants keyed by class, vulnerabilities and products in lists; `Missing` is
no force; `MaxDepth` is a number) and `NothingAssumption` (the absent markers are
no documents, snapshots or bundles), for all documents of that shape and any
profile:

| theorem | says |
|---|---|
| `ObligationsMoveAsMajor` | `Spec => []ObligationMovesAreMajor` |
| `ForceShiftsAreCalledOut` | `Spec => []ForceShiftsAreHighlighted` |
| `WideProfilesMissNothing` | `Spec => []WideProfileMissesNothing` |
| `DeltasReplay` | `Spec => []DeltaReplays` |
| `MembershipsAreMinor` | `Spec => []ListMembershipIsMinor` |
| `ProductEventsAreAnnounced` | `Spec => []ProductEventsAreMinor` |
| `ImpactsShowBindingShifts` | `Spec => []ImpactShowsBindingShifts` |
| `ReferencedControlsMoveAsMajor` | `Spec => []ReferencedMovesAreMajor` |
| `MajorsAreForReferences` | `Spec => []MajorTouchesReferenced` |
| `DifferencesPointedAt` | `Spec => []EveryDifferenceIsPointedAt` |

The two about the catalog also need `ControlsAssumption` and the last one
`SchemasAssumption`. These say that documents nest less than `MaxDepth` deep,
which `serde_json` sees to; that the ids of a catalog are in OSCAL's own form
(`diff/oscal.rs:82`), the form references are normalised to; that a JSON value
holds something at each of its pointers; and that no KSI indicator is called
`info`, the name `flatten` gives the header of a family.

The invariant is that what is signed and what is served was published
(`Published`); the rest is about any two documents. `PlanIsLoudest`: the plan is
as loud as the loudest strategy of the sources whose substance moved. `FlattenTellsSelect`:
two rules documents with the same flattened leaves oblige every profile to the
same; it is why nothing the selection reads may be left out of `flatten`, and
rests on the paths of two leaves never being equal. `StrictestExists`: among the
variants of a rule there is one with the greatest force, and the last class of
those. `FlattenedEntry` and `KeyedRow`: an id that is unique keys the entry it is
the id of. `DifferenceReplays`: changes, additions and removals determine what is
afterwards.

`SomeRowSelects`: what a provider is obliged to, some row of the table that is no
wider than the provider is obliged to in the same terms. `NarrowerIsNotBound`: a
rule that does not bind the provider binds none of those rows. So in one of them
a rule that begins or ceases to bind comes, goes or shifts (`ShiftIsShown`).

The recursions of `collect` and `walk` are over numbers, not over documents, so
what they compute is within reach: `ByDepth` takes a set of depths that has 0 and
is closed under one level more, and rests on finite sets having a greatest
element. Each recursion is shown to exist and to follow its rule
(`RoundsExist`, `RoundsFollow`, and so for the other three), and then:

- `LevelsAreSound`: a pointer of n keys is at level n, and leads to one node.
  `SameBelow`: where two values hold the same at a pointer, they hold the same
  below it. So every item of a walk is a difference (`ItemsAreDifferences`), and
  every round still has an item that leads to each moved scalar (`ItemsCover`):
  a member that would have to be skipped holds the same on both sides.
- `AllIsFound`, `ReachesAll`: a visit of a catalog has at depth n what the catalog
  has at level n, and what was listed stays listed; in a catalog that ends above
  `MaxDepth` the listed controls are therefore the controls there are
  (`ControlsAreListed`, `ListedAreControls`), and with ids of their own the map is
  them (`CatalogFlattened`, `TouchedAreMoved`).
- `ReferencesKept`: two rules documents with the same flattened leaves reference
  the same controls. This is why dropping a reference in the sync that moves its
  control does not hide it: the 800-53 diff no longer sees the reference, but the
  rules diff is Major itself.

### Lookups

From `LookupsAssumption` (keys have an order, and variants are keyed by them):

| theorem | says |
|---|---|
| `CitedIdsCanBeLookedUp` | `Spec => []CitedIdsAreFound` |
| `SearchesAreComplete` | `Spec => []SearchMissesNothing` |
| `KevRulesGovern` | `Spec => []PlainKevRulesGovern` |

The invariant says what an answer stands for (`Sourced`): its list is a part of a
selection, its hits are leaves, all that have the phrase unless it says
otherwise, and its rules are those that name KEV. From there the three are about
one bundle: each place the selection finds is a flattened leaf under its own path
(`FlattenedRules`), and a variant's text is part of what a search reads.

### Model-checked only

- `CatchesUp` and `RoutineArrives`: liveness under fairness is beyond the prover.
- That a pointer left out by `MaxPointers` comes after those that are listed, and
  that the last control of a repeated id stays: the properties hold without it.

## 6. Bounds and abstractions by name

| name | where | what it bounds |
|---|---|---|
| `MaxCommits` | `Pipeline`, `Watch`, `Capture` | upstream commits |
| `MaxForced` | `Pipeline`, `Watch` | versions or runs that `--force` makes |
| `MaxInterrupts`, `MaxFailures` | `Pipeline`, `Watch` | runs that are cut short |
| `MaxDecisions` | `Watch` | what people merge and close |
| `MaxVersions`, `MaxReceipts`, `MaxMishaps` | `Readers` | versions, receipts, and rotations, new files and edits together |
| `MaxKeys`, `MaxCaptures` | `Keys`, `Capture` | keys made, captures started |
| `MaxPointers` | `SchemasDiff` | the code's own limit, made small |
| `MaxDepth` | `Trees`, `SemanticDiff`, `Lookups` | how deep documents nest, for which serde_json has a limit (128) |

All but the last two appear in guards only. Other abstractions: digests (sha256, BLAKE3, JCS)
are the values they are taken of; one write of a file is atomic; letter case is
folded beforehand; texts are sets of phrases; orders the code gets from maps and
libraries are left open. `report` and `verdicts` keep the last outcome only.
`Serialized` and `protected` are properties of the deployment, not of the code.
`raced` is a history variable of `Pipeline`; the code has nothing like it.

External, and modelled from how the code uses them: aion-context (chain file,
registry, keystore, DSSE), jsonschema, git and GitHub.

**Not modelled.** `sync`, `plan` and `capture` with `--from-dir` (cli.rs:260,
`dir_snapshot`, sources.rs:259) take the documents and their pins from a captured
directory instead of fetching: the pins are those of the capture, or `offline-`
pins, so a sync from an older capture makes them go back. `PinsExplainContent`,
`PinsNeverRegress`, `ImplementsLedger`, `CatchesUp` and their theorems are about
runs that fetch; what `dir_snapshot` makes of a directory is `Replayed` in
`Capture`. `release.yml` packages binaries. `run_verify` prints what
`chain::verify` and `digests_match` say. Markdown, JSON output and argument
parsing are wording; JSON-RPC framing and HTTP are I/O. Integers above 2^53 in
JCS and the bytes of the `.aion` format belong to the libraries. Nothing in the
program orders by `pinned_timestamp`.

## 7. Findings

- *A genesis with an unpinned key is written before it is refused.*
  `DESIGN.md:173` says that with a signing key that is not in the registry
  "commit refuses". `commit_version` does, but `init_file` (chain.rs:187) takes
  no registry: the file is written, the verification that follows fails the run,
  and the file stays. The next run finds a chain whose payload is current,
  reports "unchanged" and exits 0 (`Pipeline_unpinned`). No run *reports* such a
  version as committed (`ReportedVersionIsSigned`, and `SignedUnlessRaced` where
  runs overlap), so a workflow does not push it.
- *A receipt may cite the version after the one it was derived from.*
  `README.md:228` says a receipt is "signed by you, against that exact version".
  `run_receipt` reads the payload and then verifies the file again for the
  version (lib.rs:239-242); a sync in between makes it cite the next version
  with the obligations of the one before (`Readers_race`). It never cites an
  earlier version than its payload's (`CitationNeverAhead`).

## 8. Divergences without a run

These were met while modelling. The code does one thing and a document or a
comment says another; the properties above are stated with the restriction that
follows from them, and the hazards of `PROJECT.json` point here.

| code | what it does | what is said |
|---|---|---|
| `obligations.rs:325` | the delta compares force and statement, not time frame, class or schema | `obligations.rs:264` "What changed for one profile" |
| `obligations.rs:300` | the delta keys by rule id: one id under two types is one entry | `diff/rules.rs:138` "Applicability ... is part of leaf identity" |
| `diff/rules.rs:140` | a member of a family that `flatten_frr` does not visit moves unseen | DESIGN.md:140 `metadata`: "only `info.*` moved in rules" |
| `diff/oscal.rs:92` | an enhancement nobody references, inside a referenced control, makes the sync major | `diff/oscal.rs:5` "everything else is `routine`" |
| `sources.rs:68` | `catalogVersion` stays in the substance of KEV: alone it signs a version | DESIGN.md:46 "must never be the change key" |
| `diff/marketplace.rs:70` | products with a repeated id are rows of a multiset: one that goes is routine | DESIGN.md:138 `minor`: "marketplace product add/remove" |
| `diff/schemas.rs:48` | pointers are truncated before `required` is looked for | DESIGN.md:117 "`required` and `properties` changes called out" |
| `receipt.rs:433` | decision, profile and dropped evidence are not compared | `receipt.rs:95` "editing any of it invalidates the receipt" |
| `lib.rs:388` | the feed may issue validation receipts, on a chain that does not verify | README.md:269 "signed by the **operator**, never the feed" |
| `mcp.rs:40` | a chain that does not verify is served, marked so | DESIGN.md:235 "a tampered chain fails before any request is served" |
| `receipt.rs:344` | two evidence files of one name share a subject: such a receipt never passes | README.md:252 "no field was edited after sealing" |
| `lib.rs:443` | the package is read again for its digest after it was validated | README.md:320 "only its digest enters the receipt" |
| `watch.yml:149` | on a protected main the automatic merge stays with a branch that is pushed again and has become louder | DESIGN.md:191 "`minor`, `major` ... wait for a human" |
| `validate.rs:138` | a definition asked for by path is returned alone, without its neighbours | `validate.rs:121` "the fragment it evidently means" |
| `lib.rs:420` | the receipt of a validation has no repairs | DESIGN.md:251 "recorded in the report and the receipt" |
| `lib.rs:595` | a second capture cut short leaves the new text beside the old pin | `sources.rs:86` "exactly which upstream bytes produced a snapshot" |
| `diff/kev.rs:80` | rules whose text is in their variants are not found | `diff/kev.rs:59` "The FedRAMP rules that govern known-exploited vulnerabilities" |
