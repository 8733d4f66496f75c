---------------------------- MODULE ReadersProofs ----------------------------
(***************************************************************************)
(* Proofs about Readers, for every number of processes, every set of       *)
(* commands, authors, keys, payloads and files, and every bound.           *)
(*                                                                         *)
(* A citation is of the chain file there is or of an earlier one.  A chain *)
(* file only grows, and a rotation starts after its last version, so what  *)
(* was read of it stays true of it; and of an earlier file nothing is said *)
(* any more.                                                               *)
(***************************************************************************)
EXTENDS Readers, FiniteSetTheorems, SequenceTheorems, TLAPS

(***************************************************************************)
(* The inductive invariant.                                                *)
(***************************************************************************)
Step == {"idle", "read", "validate", "verify", "seal", "judge", "serve"}

Typed ==
    /\ file \in 1..(MaxMishaps + 1)
    /\ chain \in Seq([bundle : Bundles, key : Keys]) /\ Len(chain) <= MaxVersions
    /\ epochs \in [Authors -> Seq([key : Keys, from : 1..(MaxVersions + 1)])]
    /\ disk \in [Paths -> Contents]
    /\ IsFiniteSet(receipts)
    /\ pc \in [Processes -> Step] /\ args \in [Processes -> Commands]
    /\ DOMAIN held = Processes
    /\ \A p \in Processes : held[p] = [bundle  |-> held[p].bundle,  verified |-> held[p].verified,
                                       content |-> held[p].content, receipt  |-> held[p].receipt]
    /\ verdicts = {} \/ \E v : verdicts = {v}

(* The epochs of an author that start by a version, in a given registry,   *)
(* and that one of them is the last: ActiveKey takes its key.              *)
StartedIn(registry, author, version) ==
    {n \in DOMAIN registry[author] : registry[author][n].from <= version}

LastStarts(registry) ==
    \A author \in Authors, version \in Nat \ {0} :
        \E n \in StartedIn(registry, author, version) :
            \A m \in StartedIn(registry, author, version) : m <= n

(* What a command has read of the chain: a payload of it, a length of it,  *)
(* and that the versions up to that length have the keys of the registry.  *)
(* All of it is of the chain file there is or of an earlier one.           *)
PayloadOf(bundle, version, f, versions) ==
    f = 1 => \E v \in 1..version : versions[v].bundle = bundle

KnownIn(rules, f, versions) ==
    /\ rules.file \in 1..f /\ rules.version \in Nat
    /\ rules.file = f => rules.version <= Len(versions)
    /\ PayloadOf(rules.bundle, rules.version, f, versions)

ValidUpTo(rules, f, versions, registry) ==
    rules.file = f => \A v \in 1..rules.version : versions[v].key = ActiveKey(registry, Feed, v)

Reading(p) ==
    /\ pc[p] = "validate" => args[p].kind = "validate"
    /\ pc[p] = "seal" => args[p].kind \in {"receipt", "validate"}
    /\ pc[p] = "judge" => args[p].kind = "confirm"
    /\ pc[p] \in {"validate", "verify", "seal", "judge", "serve"} =>
          \/ pc[p] = "judge" /\ args[p].noChain
          \/ /\ held[p].bundle \in Bundles
             /\ PayloadOf(held[p].bundle, Len(chain), file, chain)
    /\ pc[p] \in {"seal", "serve"} => KnownIn(Cited(p), file, chain)
    /\ pc[p] = "seal" /\ args[p].kind = "receipt" => ValidUpTo(Cited(p), file, chain, epochs)
    /\ pc[p] \in {"read", "verify", "judge"} /\ args[p].kind = "confirm" =>
          held[p].receipt \in receipts

(* The fields of a claim. *)
IsClaim(claim) ==
    /\ claim = [action |-> claim.action, decision |-> claim.decision,
                operator |-> claim.operator, profile |-> claim.profile,
                obligations |-> claim.obligations, evidence |-> claim.evidence,
                rules |-> claim.rules]
    /\ claim.rules = [file |-> claim.rules.file, version |-> claim.rules.version,
                      bundle |-> claim.rules.bundle]
    /\ claim.evidence = [n \in DOMAIN claim.evidence |->
                            [name |-> claim.evidence[n].name, digest |-> claim.evidence[n].digest]]
    /\ DOMAIN claim.evidence \subseteq Nat

(* A receipt nobody edited is what its command made of what it had read. *)
Issued(entry) ==
    LET claim == entry.sealed.claim
    IN  /\ IsClaim(claim)
        /\ \E feed : entry.sealed = Create(claim, feed, entry.sealed.key)
        /\ claim.obligations \subseteq Select(claim.rules.bundle, claim.profile)
        /\ KnownIn(claim.rules, file, chain)
        /\ entry.by = "receipt" => ValidUpTo(claim.rules, file, chain, epochs)

(* An edited one says another thing than what was sealed. *)
Altered(entry) ==
    LET claim == entry.sealed.claim
        statement == entry.sealed.statement
    IN  /\ entry.by = "action" => claim.action # statement.action
        /\ entry.by = "operator" => claim.operator # statement.operator
        /\ entry.by = "obligations" => claim.obligations # statement.obligations
        /\ entry.by = "rules" => claim.rules # statement.rules
        /\ entry.by = "evidence" /\ UniqueNames(claim.evidence) =>
              \E n \in DOMAIN claim.evidence :
                  EvidenceDigest(statement, claim.evidence[n].name) # claim.evidence[n].digest

Judged(verdict) ==
    /\ verdict.entry \in receipts
    /\ verdict.valid => /\ ClaimBound(verdict.entry.sealed)
                        /\ verdict.entry.sealed.statement.operator = verdict.entry.sealed.claim.operator

IInv ==
    /\ Typed
    /\ LastStarts(epochs)
    /\ \A p \in Processes : Reading(p)
    /\ \A entry \in Unedited : Issued(entry)
    /\ \A entry \in receipts : Altered(entry)
    /\ \A verdict \in verdicts : Judged(verdict)

-----------------------------------------------------------------------------
(* What the world may do to the chain and to the registry. *)
WorldMoves ==
    \/ UNCHANGED <<file, chain, epochs>>
    \/ \E bundle \in Bundles, key \in Keys : Sync(bundle, key) \/ StartOver(bundle, key)
    \/ \E author \in Authors, key \in Keys : Rotate(author, key)

LEMMA FileTyped ==
    ASSUME Typed
    PROVE  file \in Nat \ {0} /\ Len(chain) \in Nat /\ chain \in Seq([bundle : Bundles, key : Keys])
BY ReadersAssumption DEF Typed

(* A sync adds a version and changes none. *)
LEMMA SyncAdds ==
    ASSUME Typed, NEW bundle \in Bundles, NEW key \in Keys, Sync(bundle, key)
    PROVE  /\ Len(chain') = Len(chain) + 1
           /\ \A v \in 1..Len(chain) : chain'[v] = chain[v]
           /\ UNCHANGED <<file, epochs>>
<1>. DEFINE new == [bundle |-> bundle, key |-> key]
<1>1. chain' = Append(chain, new) /\ UNCHANGED <<file, epochs>>
  BY DEF Sync
<1>2. new \in [bundle : Bundles, key : Keys]
  OBVIOUS
<1>. HIDE DEF new
<1>. QED
  BY <1>1, <1>2, FileTyped, AppendProperties

(* A rotation adds an epoch that starts after the versions there are. *)
LEMMA RotateAdds ==
    ASSUME Typed, NEW author \in Authors, NEW key \in Keys, Rotate(author, key),
           NEW a \in Authors
    PROVE  /\ UNCHANGED <<file, chain>>
           /\ Len(epochs[a]) \in Nat
           /\ DOMAIN epochs[a] = 1..Len(epochs[a])
           /\ \/ epochs'[a] = epochs[a]
              \/ /\ DOMAIN epochs'[a] = 1..(Len(epochs[a]) + 1)
                 /\ \A n \in 1..Len(epochs[a]) : epochs'[a][n] = epochs[a][n]
                 /\ epochs'[a][Len(epochs[a]) + 1].from = Len(chain) + 1
<1>. DEFINE new == [key |-> key, from |-> Len(chain) + 1]
<1>1. epochs' = [epochs EXCEPT ![author] = Append(@, new)] /\ UNCHANGED <<file, chain>>
  BY DEF Rotate
<1>2. new \in [key : Keys, from : 1..(MaxVersions + 1)] /\ new.from = Len(chain) + 1
  BY FileTyped, ReadersAssumption DEF Typed
<1>. HIDE DEF new
<1>3. a \in DOMAIN epochs /\ epochs[a] \in Seq([key : Keys, from : 1..(MaxVersions + 1)])
  BY DEF Typed
<1>4. /\ Len(epochs[a]) \in Nat
      /\ DOMAIN epochs[a] = 1..Len(epochs[a])
  BY <1>3, LenProperties
<1>5. CASE a = author
  <2>1. epochs'[a] = Append(epochs[a], new)
    BY <1>1, <1>3, <1>5
  <2>. DEFINE longer == Append(epochs[a], new)
  <2>2. /\ longer \in Seq([key : Keys, from : 1..(MaxVersions + 1)])
        /\ Len(longer) = Len(epochs[a]) + 1
        /\ \A n \in 1..Len(epochs[a]) : longer[n] = epochs[a][n]
        /\ longer[Len(epochs[a]) + 1] = new
    BY <1>2, <1>3, AppendProperties
  <2>3. DOMAIN longer = 1..(Len(epochs[a]) + 1)
    BY <2>2, LenProperties
  <2>. HIDE DEF longer
  <2>. QED
    BY <1>1, <1>2, <1>4, <2>1, <2>2, <2>3 DEF longer
<1>6. CASE a # author
  BY <1>1, <1>3, <1>4, <1>6
<1>. QED
  BY <1>5, <1>6

(* So at the versions there are, every author keeps its active key. *)
LEMMA KeyStays ==
    ASSUME Typed, LastStarts(epochs),
           NEW author \in Authors, NEW key \in Keys, Rotate(author, key),
           NEW a \in Authors, NEW v \in 1..Len(chain)
    PROVE  ActiveKey(epochs', a, v) = ActiveKey(epochs, a, v)
<1>1. v \in Nat \ {0} /\ v < Len(chain) + 1 /\ Len(chain) \in Nat
  BY FileTyped
<1>2. CASE epochs'[a] = epochs[a]
  BY <1>2 DEF ActiveKey
<1>3. CASE epochs'[a] # epochs[a]
  <2>. DEFINE count == Len(epochs[a])
  <2>0. /\ count \in Nat /\ DOMAIN epochs[a] = 1..count
        /\ DOMAIN epochs'[a] = 1..(count + 1)
        /\ \A i \in 1..count : epochs'[a][i] = epochs[a][i]
        /\ epochs'[a][count + 1].from = Len(chain) + 1
    BY <1>3, RotateAdds
  <2>1. StartedIn(epochs', a, v) = StartedIn(epochs, a, v)
    <3>. HIDE DEF count
    <3>1. ~(Len(chain) + 1 <= v)
      BY <1>1
    <3>2. 1..(count + 1) = 1..count \cup {count + 1} /\ count + 1 \notin 1..count
      BY <2>0
    <3>. QED
      BY <2>0, <3>1, <3>2 DEF StartedIn
  <2>2. PICK last \in StartedIn(epochs, a, v) : \A m \in StartedIn(epochs, a, v) : m <= last
    BY <1>1 DEF LastStarts
  <2>. DEFINE n == CHOOSE n \in StartedIn(epochs, a, v) : \A m \in StartedIn(epochs, a, v) : m <= n
  <2>3. n \in StartedIn(epochs, a, v)
    BY <2>2
  <2>4. ActiveKey(epochs, a, v) = epochs[a][n].key /\ ActiveKey(epochs', a, v) = epochs'[a][n].key
    BY <2>1 DEF ActiveKey, StartedIn
  <2>. HIDE DEF n
  <2>5. n \in 1..Len(epochs[a])
    BY <2>3, RotateAdds DEF StartedIn
  <2>6. epochs'[a][n] = epochs[a][n]
    BY <1>3, <2>5, RotateAdds
  <2>. QED
    BY <2>4, <2>6
<1>. QED
  BY <1>2, <1>3

(***************************************************************************)
(* What was read of the chain stays true while the world moves.            *)
(***************************************************************************)
LEMMA CitationsStay ==
    ASSUME Typed, LastStarts(epochs), WorldMoves
    PROVE  /\ \A rules : KnownIn(rules, file, chain) => KnownIn(rules, file', chain')
           /\ \A bundle : PayloadOf(bundle, Len(chain), file, chain)
                             => PayloadOf(bundle, Len(chain'), file', chain')
           /\ \A rules : KnownIn(rules, file, chain) /\ ValidUpTo(rules, file, chain, epochs)
                             => ValidUpTo(rules, file', chain', epochs')
<1>0. file \in Nat \ {0} /\ Len(chain) \in Nat
  BY FileTyped
<1>1. CASE UNCHANGED <<file, chain, epochs>>
  BY <1>1
<1>2. ASSUME NEW bundle \in Bundles, NEW key \in Keys, Sync(bundle, key)
      PROVE  /\ \A rules : KnownIn(rules, file, chain) => KnownIn(rules, file', chain')
             /\ \A b : PayloadOf(b, Len(chain), file, chain) => PayloadOf(b, Len(chain'), file', chain')
             /\ \A rules : KnownIn(rules, file, chain) /\ ValidUpTo(rules, file, chain, epochs)
                             => ValidUpTo(rules, file', chain', epochs')
  <2>1. /\ Len(chain') = Len(chain) + 1 /\ UNCHANGED <<file, epochs>>
        /\ \A v \in 1..Len(chain) : chain'[v] = chain[v]
    BY <1>2, SyncAdds
  <2>2. \A b : PayloadOf(b, Len(chain), file, chain) => PayloadOf(b, Len(chain'), file', chain')
    BY <1>0, <2>1 DEF PayloadOf
  <2>3. \A rules : KnownIn(rules, file, chain) => KnownIn(rules, file', chain')
    <3>. SUFFICES ASSUME NEW rules, KnownIn(rules, file, chain)
                  PROVE  KnownIn(rules, file', chain')
      OBVIOUS
    <3>1. rules.version \in Nat /\ rules.file \in 1..file /\ (rules.file = file => rules.version <= Len(chain))
      BY DEF KnownIn
    <3>2. PayloadOf(rules.bundle, rules.version, file, chain')
      <4>. SUFFICES ASSUME file = 1
                    PROVE  \E v \in 1..rules.version : chain'[v].bundle = rules.bundle
        BY DEF PayloadOf
      <4>1. PICK v \in 1..rules.version : chain[v].bundle = rules.bundle
        BY DEF KnownIn, PayloadOf
      <4>2. rules.version <= Len(chain)
        BY <3>1
      <4>. QED
        BY <1>0, <2>1, <3>1, <4>1, <4>2
    <3>. QED
      BY <1>0, <2>1, <3>1, <3>2 DEF KnownIn
  <2>4. \A rules : KnownIn(rules, file, chain) /\ ValidUpTo(rules, file, chain, epochs)
                      => ValidUpTo(rules, file', chain', epochs')
    BY <1>0, <2>1 DEF KnownIn, ValidUpTo
  <2>. QED
    BY <2>2, <2>3, <2>4
<1>3. ASSUME NEW bundle \in Bundles, NEW key \in Keys, StartOver(bundle, key)
      PROVE  /\ \A rules : KnownIn(rules, file, chain) => KnownIn(rules, file', chain')
             /\ \A b : PayloadOf(b, Len(chain), file, chain) => PayloadOf(b, Len(chain'), file', chain')
             /\ \A rules : KnownIn(rules, file, chain) /\ ValidUpTo(rules, file, chain, epochs)
                             => ValidUpTo(rules, file', chain', epochs')
  <2>1. file' = file + 1
    BY <1>3 DEF StartOver
  <2>. QED
    BY <1>0, <2>1 DEF KnownIn, PayloadOf, ValidUpTo
<1>4. ASSUME NEW author \in Authors, NEW key \in Keys, Rotate(author, key)
      PROVE  /\ \A rules : KnownIn(rules, file, chain) => KnownIn(rules, file', chain')
             /\ \A b : PayloadOf(b, Len(chain), file, chain) => PayloadOf(b, Len(chain'), file', chain')
             /\ \A rules : KnownIn(rules, file, chain) /\ ValidUpTo(rules, file, chain, epochs)
                             => ValidUpTo(rules, file', chain', epochs')
  <2>1. UNCHANGED <<file, chain>>
    BY <1>4 DEF Rotate
  <2>2. \A v \in 1..Len(chain) : ActiveKey(epochs', Feed, v) = ActiveKey(epochs, Feed, v)
    BY <1>4, KeyStays, ReadersAssumption
  <2>3. \A rules : KnownIn(rules, file, chain) /\ ValidUpTo(rules, file, chain, epochs)
                      => ValidUpTo(rules, file', chain', epochs')
    BY <1>0, <2>1, <2>2 DEF KnownIn, ValidUpTo
  <2>. QED
    BY <2>1, <2>3
<1>. QED
  BY <1>1, <1>2, <1>3, <1>4 DEF WorldMoves

-----------------------------------------------------------------------------
(* What a step of a command leaves alone. *)
CommandStep(p) ==
    \/ \E command \in Commands :
          \/ command.kind # "confirm" /\ Start(p, command)
          \/ \E entry \in receipts : StartVerify(p, command, entry)
    \/ ReadPayload(p) \/ NoChain(p) \/ Validate(p)
    \/ Verify(p) \/ Refuse(p)
    \/ Seal(p) \/ RefuseToCite(p) \/ Judge(p) \/ HangUp(p)

SomeEdit ==
    \E entry \in Unedited : \E edit \in Edits(entry.sealed.claim) : Edit(entry, edit)

SomeSave == \E path \in Paths, content \in Contents : Save(path, content)

LEMMA StepsGrouped ==
    ASSUME Next
    PROVE  \/ WorldMoves /\ UNCHANGED <<readers, disk, receipts, verdicts>>
           \/ SomeEdit
           \/ SomeSave
           \/ \E p \in Processes : CommandStep(p)
BY DEF Next, Environment, WorldMoves, SomeEdit, SomeSave, CommandStep, Sync, StartOver, Rotate

LEMMA CommandsKeepTheWorld ==
    ASSUME NEW p \in Processes, CommandStep(p)
    PROVE  UNCHANGED world /\ receipts \subseteq receipts'
BY DEF CommandStep, Start, StartVerify, ReadPayload, NoChain, Validate, Verify, Refuse, Seal,
       RefuseToCite, Judge, HangUp

(* A command is started or ends, or reads one thing. *)
LEMMA OneReader ==
    ASSUME Typed, NEW p \in Processes, CommandStep(p)
    PROVE  /\ pc' \in [Processes -> Step] /\ args' \in [Processes -> Commands]
           /\ DOMAIN held' = Processes
           /\ held'[p] = [bundle  |-> held'[p].bundle,  verified |-> held'[p].verified,
                          content |-> held'[p].content, receipt  |-> held'[p].receipt]
           /\ \A q \in Processes \ {p} : /\ pc'[q] = pc[q] /\ args'[q] = args[q]
                                         /\ held'[q] = held[q]
<1>1. NoArgs \in Commands
  BY ReadersAssumption DEF NoArgs
<1>2. /\ pc \in [Processes -> Step] /\ args \in [Processes -> Commands] /\ DOMAIN held = Processes
      /\ held[p] = [bundle  |-> held[p].bundle,  verified |-> held[p].verified,
                    content |-> held[p].content, receipt  |-> held[p].receipt]
      /\ args[p] \in Commands
  BY DEF Typed
<1>3. CASE End(p)
  BY <1>1, <1>2, <1>3 DEF End, Nothing, Step
<1>4. CASE \E command \in Commands : Start(p, command)
  BY <1>2, <1>4 DEF Start, Goto, Step
<1>5. CASE \E command \in Commands : \E entry \in receipts : StartVerify(p, command, entry)
  BY <1>2, <1>5 DEF StartVerify, Goto, Step
<1>6. CASE ReadPayload(p)
  BY <1>2, <1>6 DEF ReadPayload, Goto, Step
<1>7. CASE Validate(p)
  BY <1>2, <1>7 DEF Validate, Goto, Step
<1>8. CASE Verify(p)
  <2>1. AfterVerify(args[p].kind) \in Step
    BY <1>2, ReadersAssumption DEF AfterVerify, Step
  <2>. QED
    BY <1>2, <1>8, <2>1 DEF Verify, Goto
<1>. QED
  BY <1>3, <1>4, <1>5, <1>6, <1>7, <1>8
  DEF CommandStep, NoChain, Refuse, Seal, RefuseToCite, Judge, HangUp

LEMMA TypeStep ==
    ASSUME Typed, Next
    PROVE  Typed'
<1>0. file \in 1..(MaxMishaps + 1) /\ MaxMishaps \in Nat /\ MaxVersions \in Nat /\ Len(chain) \in Nat
  BY FileTyped, ReadersAssumption DEF Typed
<1>1. CASE WorldMoves /\ UNCHANGED <<readers, disk, receipts, verdicts>>
  <2>1. UNCHANGED <<pc, args, held, disk, receipts, verdicts>>
    BY <1>1 DEF readers
  <2>2. ASSUME NEW bundle \in Bundles, NEW key \in Keys, Sync(bundle, key)
        PROVE  Typed'
    <3>. DEFINE new == [bundle |-> bundle, key |-> key]
    <3>1. chain' = Append(chain, new) /\ Len(chain) < MaxVersions /\ UNCHANGED <<file, epochs>>
      BY <2>2 DEF Sync
    <3>2. new \in [bundle : Bundles, key : Keys]
      OBVIOUS
    <3>. HIDE DEF new
    <3>3. chain' \in Seq([bundle : Bundles, key : Keys]) /\ Len(chain') <= MaxVersions
      BY <1>0, <3>1, <3>2, FileTyped, AppendProperties
    <3>. QED
      BY <2>1, <3>1, <3>3 DEF Typed
  <2>3. ASSUME NEW bundle \in Bundles, NEW key \in Keys, StartOver(bundle, key)
        PROVE  Typed'
    <3>. DEFINE new == [bundle |-> bundle, key |-> key]
    <3>1. /\ chain' = <<new>> /\ file' = file + 1 /\ chain # <<>> /\ UNCHANGED epochs
          /\ (file - 1) + Cardinality(Rotations) + Cardinality(receipts \ Unedited) < MaxMishaps
      BY <2>3 DEF StartOver, Mishaps
    <3>2. new \in [bundle : Bundles, key : Keys]
      OBVIOUS
    <3>. HIDE DEF new
    <3>3. Cardinality(receipts \ Unedited) \in Nat
      BY FS_Subset, FS_CardinalityType DEF Typed
    <3>4. Cardinality(Rotations) \in Nat
      <4>1. IsFiniteSet(2..(MaxMishaps + 1))
        BY <1>0, FS_Interval
      <4>2. IsFiniteSet(Authors \X (2..(MaxMishaps + 1)))
        BY <4>1, FS_Product, ReadersAssumption
      <4>3. Rotations \subseteq Authors \X (2..(MaxMishaps + 1))
        BY DEF Rotations
      <4>. QED
        BY <4>2, <4>3, FS_Subset, FS_CardinalityType
    <3>5. file' \in 1..(MaxMishaps + 1)
      BY <1>0, <3>1, <3>3, <3>4
    <3>6. chain' \in Seq([bundle : Bundles, key : Keys]) /\ Len(chain') = 1
      BY <3>1, <3>2
    <3>7. Len(chain') <= MaxVersions
      BY <1>0, <3>1, <3>6, FileTyped, EmptySeq DEF Typed
    <3>. QED
      BY <2>1, <3>1, <3>5, <3>6, <3>7 DEF Typed
  <2>4. ASSUME NEW author \in Authors, NEW key \in Keys, Rotate(author, key)
        PROVE  Typed'
    <3>. DEFINE new == [key |-> key, from |-> Len(chain) + 1]
                epoch == [key : Keys, from : 1..(MaxVersions + 1)]
    <3>1. epochs' = [epochs EXCEPT ![author] = Append(@, new)] /\ UNCHANGED <<file, chain>>
      BY <2>4 DEF Rotate
    <3>2. new \in epoch
      BY <1>0 DEF Typed
    <3>3. epochs \in [Authors -> Seq(epoch)]
      BY DEF Typed
    <3>. HIDE DEF new, epoch
    <3>4. epochs' \in [Authors -> Seq(epoch)]
      BY <3>1, <3>2, <3>3, AppendProperties
    <3>. QED
      BY <2>1, <3>1, <3>4 DEF Typed, epoch
  <2>5. CASE UNCHANGED <<file, chain, epochs>>
    BY <2>1, <2>5 DEF Typed
  <2>. QED
    BY <1>1, <2>2, <2>3, <2>4, <2>5 DEF WorldMoves
<1>2. CASE SomeEdit
  <2>1. PICK new : receipts' = receipts \cup {new} /\ UNCHANGED <<readers, world, verdicts>>
    BY <1>2 DEF SomeEdit, Edit
  <2>2. IsFiniteSet(receipts')
    BY <2>1, FS_AddElement DEF Typed
  <2>. QED
    BY <2>1, <2>2 DEF Typed, readers, world
<1>3. CASE SomeSave
  BY <1>3 DEF SomeSave, Save, Typed, readers
<1>4. ASSUME NEW p \in Processes, CommandStep(p)
      PROVE  Typed'
  <2>1. UNCHANGED <<file, chain, epochs, disk>>
    BY <1>4, CommandsKeepTheWorld DEF world
  <2>2. \/ UNCHANGED receipts
        \/ \E new : receipts' = receipts \cup {new}
    BY <1>4 DEF CommandStep, Start, StartVerify, ReadPayload, NoChain, Validate, Verify, Refuse,
                Seal, RefuseToCite, Judge, HangUp
  <2>3. IsFiniteSet(receipts')
    <3>1. \A new : IsFiniteSet(receipts \cup {new})
      BY FS_AddElement DEF Typed
    <3>. QED
      BY <2>2, <3>1 DEF Typed
  <2>4. \/ UNCHANGED verdicts
        \/ \E v : verdicts' = {v}
    BY <1>4 DEF CommandStep, Start, StartVerify, ReadPayload, NoChain, Validate, Verify, Refuse,
                Seal, RefuseToCite, Judge, HangUp
  <2>5. \A q \in Processes :
           held'[q] = [bundle  |-> held'[q].bundle,  verified |-> held'[q].verified,
                       content |-> held'[q].content, receipt  |-> held'[q].receipt]
    BY <1>4, OneReader DEF Typed
  <2>6. pc' \in [Processes -> Step] /\ args' \in [Processes -> Commands] /\ DOMAIN held' = Processes
    BY <1>4, OneReader
  <2>. QED
    BY <2>1, <2>3, <2>4, <2>5, <2>6 DEF Typed
<1>. QED
  BY <1>1, <1>2, <1>3, <1>4, StepsGrouped

LEMMA EpochsStep ==
    ASSUME Typed, LastStarts(epochs), Next
    PROVE  LastStarts(epochs')
<1>1. ASSUME NEW author \in Authors, NEW key \in Keys, Rotate(author, key),
             NEW a \in Authors, NEW version \in Nat \ {0}
      PROVE  \E n \in StartedIn(epochs', a, version) :
                \A m \in StartedIn(epochs', a, version) : m <= n
  <2>. DEFINE count == Len(epochs[a])
  <2>1. count \in Nat /\ DOMAIN epochs[a] = 1..count
    BY <1>1, RotateAdds
  <2>2. PICK last \in StartedIn(epochs, a, version) :
           \A m \in StartedIn(epochs, a, version) : m <= last
    BY DEF LastStarts
  <2>3. CASE epochs'[a] = epochs[a]
    BY <2>2, <2>3 DEF StartedIn
  <2>4. CASE epochs'[a] # epochs[a]
    <3>1. /\ DOMAIN epochs'[a] = 1..(count + 1)
          /\ \A n \in 1..count : epochs'[a][n] = epochs[a][n]
      BY <1>1, <2>4, RotateAdds
    <3>. HIDE DEF count
    <3>2. CASE count + 1 \in StartedIn(epochs', a, version)
      <4>1. \A m \in StartedIn(epochs', a, version) : m \in 1..(count + 1)
        BY <3>1 DEF StartedIn
      <4>2. \A m \in 1..(count + 1) : m <= count + 1
        BY <2>1
      <4>. QED
        BY <3>2, <4>1, <4>2
    <3>3. CASE count + 1 \notin StartedIn(epochs', a, version)
      <4>1. StartedIn(epochs', a, version) = StartedIn(epochs, a, version)
        BY <2>1, <3>1, <3>3 DEF StartedIn
      <4>. QED
        BY <2>2, <4>1
    <3>. QED
      BY <3>2, <3>3
  <2>. QED
    BY <2>3, <2>4
<1>2. CASE UNCHANGED epochs
  BY <1>2
<1>3. \/ UNCHANGED epochs
      \/ \E author \in Authors, key \in Keys : Rotate(author, key)
  BY StepsGrouped, CommandsKeepTheWorld
  DEF WorldMoves, Sync, StartOver, SomeEdit, Edit, SomeSave, Save, world
<1>. QED
  BY <1>1, <1>2, <1>3 DEF LastStarts

-----------------------------------------------------------------------------
(* A command that does not move keeps what it has read. *)
LEMMA ReadingStays ==
    ASSUME Typed, LastStarts(epochs), WorldMoves, receipts \subseteq receipts',
           NEW q \in Processes, Reading(q),
           pc'[q] = pc[q], args'[q] = args[q], held'[q] = held[q]
    PROVE  Reading(q)'
<1>1. Cited(q)' = Cited(q)
  BY DEF Cited
<1>2. PayloadOf(held[q].bundle, Len(chain), file, chain)
         => PayloadOf(held'[q].bundle, Len(chain'), file', chain')
  BY CitationsStay
<1>3. KnownIn(Cited(q), file, chain) => KnownIn(Cited(q)', file', chain')
  BY <1>1, CitationsStay
<1>4. KnownIn(Cited(q), file, chain) /\ ValidUpTo(Cited(q), file, chain, epochs)
         => ValidUpTo(Cited(q)', file', chain', epochs')
  BY <1>1, CitationsStay
<1>. QED
  BY <1>2, <1>3, <1>4 DEF Reading

(* And one that does has read what it says it has. *)
LEMMA ReadingMoves ==
    ASSUME Typed, NEW p \in Processes, Reading(p), CommandStep(p)
    PROVE  Reading(p)'
<1>0. /\ p \in DOMAIN pc /\ p \in DOMAIN args /\ p \in DOMAIN held
      /\ held[p] = [bundle  |-> held[p].bundle,  verified |-> held[p].verified,
                    content |-> held[p].content, receipt  |-> held[p].receipt]
      /\ args[p] \in Commands
      /\ file \in Nat \ {0} /\ Len(chain) \in Nat /\ chain \in Seq([bundle : Bundles, key : Keys])
  BY FileTyped DEF Typed
<1>1. CASE End(p)
  <2>1. pc'[p] = "idle"
    BY <1>0, <1>1 DEF End
  <2>. QED
    BY <2>1 DEF Reading
<1>2. ASSUME NEW command \in Commands, command.kind # "confirm", Start(p, command)
      PROVE  Reading(p)'
  <2>1. pc'[p] = "read" /\ args'[p] = command
    BY <1>0, <1>2 DEF Start, Goto
  <2>. QED
    BY <1>2, <2>1 DEF Reading
<1>3. ASSUME NEW command \in Commands, NEW entry \in receipts, StartVerify(p, command, entry)
      PROVE  Reading(p)'
  <2>1. /\ pc'[p] = IF command.noChain THEN "judge" ELSE "read"
        /\ args'[p] = command /\ command.kind = "confirm"
        /\ held'[p].receipt = entry /\ UNCHANGED receipts
    BY <1>0, <1>3 DEF StartVerify, Goto
  <2>. QED
    BY <2>1 DEF Reading
<1>4. CASE ReadPayload(p)
  <2>1. /\ pc[p] = "read" /\ pc'[p] = IF args[p].kind = "validate" THEN "validate" ELSE "verify"
        /\ UNCHANGED <<args, file, chain, receipts>> /\ chain # <<>>
        /\ held'[p].bundle = chain[Len(chain)].bundle /\ held'[p].receipt = held[p].receipt
    BY <1>0, <1>4 DEF ReadPayload, Goto, world, Current
  <2>2. Len(chain) \in 1..Len(chain)
    BY <1>0, <2>1, EmptySeq
  <2>3. chain[Len(chain)].bundle \in Bundles
    <3>1. chain[Len(chain)] \in [bundle : Bundles, key : Keys]
      BY <1>0, <2>2, ElementOfSeq
    <3>. QED
      BY <3>1
  <2>4. PayloadOf(held'[p].bundle, Len(chain'), file', chain')
    BY <2>1, <2>2 DEF PayloadOf
  <2>. QED
    BY <2>1, <2>3, <2>4 DEF Reading
<1>5. CASE Validate(p)
  <2>1. /\ pc[p] = "validate" /\ pc'[p] = "verify"
        /\ UNCHANGED <<args, file, chain, receipts>>
        /\ held'[p].bundle = held[p].bundle
    BY <1>0, <1>5 DEF Validate, Goto, world
  <2>. QED
    BY <2>1 DEF Reading
<1>6. CASE Verify(p)
  <2>1. /\ pc[p] = "verify" /\ pc'[p] = AfterVerify(args[p].kind)
        /\ UNCHANGED <<args, file, chain, epochs, receipts>>
        /\ args[p].kind = "receipt" => Valid
        /\ held'[p].bundle = held[p].bundle /\ held'[p].receipt = held[p].receipt
        /\ held'[p].verified.file = file /\ held'[p].verified.version = Len(chain)
    BY <1>0, <1>6 DEF Verify, Goto, world
  <2>2. held[p].bundle \in Bundles /\ PayloadOf(held[p].bundle, Len(chain), file, chain)
    BY <2>1 DEF Reading
  <2>3. /\ Cited(p)'.file = file /\ Cited(p)'.version = Len(chain)
        /\ Cited(p)'.bundle = held[p].bundle
    BY <2>1 DEF Cited
  <2>4. KnownIn(Cited(p)', file', chain')
    BY <1>0, <2>1, <2>2, <2>3 DEF KnownIn
  <2>5. args[p].kind = "receipt" => ValidUpTo(Cited(p)', file', chain', epochs')
    BY <1>0, <2>1, <2>3 DEF ValidUpTo, Valid
  <2>6. /\ pc'[p] \in {"seal", "judge", "serve"}
        /\ pc'[p] = "seal" => args[p].kind \in {"receipt", "validate"}
        /\ pc'[p] = "judge" => args[p].kind = "confirm"
    BY <1>0, <2>1, ReadersAssumption DEF AfterVerify
  <2>7. args[p].kind = "confirm" => held[p].receipt \in receipts
    BY <2>1 DEF Reading
  <2>. QED
    BY <2>1, <2>2, <2>4, <2>5, <2>6, <2>7 DEF Reading
<1>. QED
  BY <1>1, <1>2, <1>3, <1>4, <1>5, <1>6
  DEF CommandStep, NoChain, Refuse, Seal, RefuseToCite, Judge, HangUp

LEMMA ReadingStep ==
    ASSUME Typed, LastStarts(epochs), Next, \A p \in Processes : Reading(p)
    PROVE  (\A p \in Processes : Reading(p))'
<1>1. ASSUME NEW p \in Processes, CommandStep(p), NEW q \in Processes
      PROVE  Reading(q)'
  <2>1. WorldMoves /\ receipts \subseteq receipts'
    BY <1>1, CommandsKeepTheWorld DEF WorldMoves, world
  <2>2. CASE q = p
    BY <1>1, <2>2, ReadingMoves
  <2>3. CASE q # p
    BY <1>1, <2>1, <2>3, OneReader, ReadingStays
  <2>. QED
    BY <2>2, <2>3
<1>2. ASSUME WorldMoves, receipts \subseteq receipts', UNCHANGED readers, NEW q \in Processes
      PROVE  Reading(q)'
  BY <1>2, ReadingStays DEF readers
<1>3. CASE SomeEdit \/ SomeSave
  <2>1. WorldMoves /\ receipts \subseteq receipts' /\ UNCHANGED readers
    BY <1>3 DEF SomeEdit, Edit, SomeSave, Save, WorldMoves, world
  <2>. QED
    BY <1>2, <2>1
<1>. QED
  BY <1>1, <1>2, <1>3, StepsGrouped
-----------------------------------------------------------------------------
(* A receipt that says what is known goes on doing so. *)
LEMMA IssuedStays ==
    ASSUME Typed, LastStarts(epochs), WorldMoves, NEW entry, Issued(entry)
    PROVE  Issued(entry)'
<1>. DEFINE rules == entry.sealed.claim.rules
<1>1. KnownIn(rules, file, chain) => KnownIn(rules, file', chain')
  BY CitationsStay
<1>2. KnownIn(rules, file, chain) /\ ValidUpTo(rules, file, chain, epochs)
         => ValidUpTo(rules, file', chain', epochs')
  BY CitationsStay
<1>. QED
  BY <1>1, <1>2 DEF Issued

(* What is sealed is what was read. *)
LEMMA SealIssues ==
    ASSUME NEW p \in Processes, Typed, Reading(p), pc[p] = "seal", NEW entry,
           entry = [sealed |-> Create(ClaimOf(p), args[p].feed, args[p].key), by |-> args[p].kind]
    PROVE  Issued(entry)
<1>. DEFINE claim == ClaimOf(p)
<1>1. /\ entry.by = args[p].kind
      /\ entry.sealed.claim = claim /\ entry.sealed.key = args[p].key
      /\ entry.sealed = Create(claim, args[p].feed, entry.sealed.key)
  BY DEF Create
<1>2. /\ claim.profile = args[p].profile
      /\ claim.obligations = Selected(p)
      /\ claim.evidence = EvidenceRefs(p)
      /\ claim.rules = Cited(p)
      /\ claim = [action |-> claim.action, decision |-> claim.decision,
                  operator |-> claim.operator, profile |-> claim.profile,
                  obligations |-> claim.obligations, evidence |-> claim.evidence,
                  rules |-> claim.rules]
  BY DEF ClaimOf
<1>. HIDE DEF claim
<1>3. IsClaim(claim)
  <2>1. args[p].paths \in Seq(Paths)
    BY ReadersAssumption DEF Typed
  <2>2. DOMAIN args[p].paths \subseteq Nat
    BY <2>1, LenProperties
  <2>. QED
    BY <1>2, <2>2 DEF IsClaim, EvidenceRefs, Cited
<1>4. claim.obligations \subseteq Select(claim.rules.bundle, claim.profile)
  BY <1>2 DEF Selected, Cited
<1>5. /\ KnownIn(claim.rules, file, chain)
      /\ args[p].kind = "receipt" => ValidUpTo(claim.rules, file, chain, epochs)
  BY <1>2 DEF Reading
<1>. QED
  BY <1>1, <1>3, <1>4, <1>5 DEF Issued

(* Among evidence of different names each is the first of its name. *)
LEMMA FirstOfItsName ==
    ASSUME NEW statement, UniqueNames(statement.evidence),
           DOMAIN statement.evidence \subseteq Nat, NEW n \in DOMAIN statement.evidence
    PROVE  EvidenceDigest(statement, statement.evidence[n].name) = statement.evidence[n].digest
<1>. DEFINE named == {m \in DOMAIN statement.evidence :
                         statement.evidence[m].name = statement.evidence[n].name}
<1>1. named = {n}
  BY DEF UniqueNames
<1>2. (CHOOSE i \in named : \A m \in named : i <= m) = n
  <2>1. \A m \in named : n <= m
    BY <1>1
  <2>2. \E i \in named : \A m \in named : i <= m
    BY <1>1, <2>1
  <2>. HIDE DEF named
  <2>3. (CHOOSE i \in named : \A m \in named : i <= m) \in named
    BY <2>2
  <2>. QED
    BY <1>1, <2>3
<1>. QED
  BY <1>1, <1>2 DEF EvidenceDigest

(* An edited field is not the one that was sealed. *)
LEMMA EditAlters ==
    ASSUME NEW entry, Issued(entry),
           NEW edit \in Edits(entry.sealed.claim), edit[2] # entry.sealed.claim, NEW new,
           new = [sealed |-> [entry.sealed EXCEPT !.claim = edit[2]], by |-> edit[1]]
    PROVE  Altered(new) /\ new.by \notin {"receipt", "validate"}
<1>. DEFINE claim == entry.sealed.claim
            statement == entry.sealed.statement
<1>1. /\ IsClaim(claim)
      /\ statement.action = claim.action /\ statement.operator = claim.operator
      /\ statement.obligations = claim.obligations /\ statement.rules = claim.rules
      /\ statement.evidence = claim.evidence
      /\ new.sealed.claim = edit[2] /\ new.sealed.statement = statement /\ new.by = edit[1]
  <2>1. PICK feed : entry.sealed = Create(entry.sealed.claim, feed, entry.sealed.key)
    BY DEF Issued
  <2>2. new.sealed.claim = edit[2] /\ new.sealed.statement = statement /\ new.by = edit[1]
    BY <2>1 DEF Create
  <2>. QED
    BY <2>1, <2>2 DEF Issued, Create
<1>2. edit \in Edits(claim) /\ edit[2] # claim
  OBVIOUS
<1>. HIDE DEF claim, statement
<1>3. CASE edit = <<"action", [claim EXCEPT !.action = "edited"]>>
  <2>1. edit[2].action # claim.action
    BY <1>1, <1>2, <1>3 DEF IsClaim
  <2>. QED
    BY <1>1, <1>3, <2>1 DEF Altered
<1>4. CASE \/ edit = <<"decision", [claim EXCEPT !.decision = "edited"]>>
           \/ edit = <<"dropped evidence", [claim EXCEPT !.evidence = <<>>]>>
           \/ \E q \in Profiles : edit = <<"profile", [claim EXCEPT !.profile = q]>>
  <2>1. edit[1] \in {"decision", "dropped evidence", "profile"}
    <3>1. ASSUME NEW after, NEW what \in {"decision", "dropped evidence", "profile"},
                 edit = <<what, after>>
          PROVE  edit[1] \in {"decision", "dropped evidence", "profile"}
      BY <3>1
    <3>. QED
      BY <1>4, <3>1, Zenon
  <2>2. new.by \in {"decision", "dropped evidence", "profile"}
    BY <1>1, <2>1
  <2>. QED
    BY <2>2 DEF Altered
<1>5. ASSUME NEW a \in Authors \ {claim.operator},
             edit = <<"operator", [claim EXCEPT !.operator = a]>>
      PROVE  Altered(new) /\ new.by \notin {"receipt", "validate"}
  <2>1. edit[2].operator = a
    BY <1>1, <1>5 DEF IsClaim
  <2>. QED
    BY <1>1, <1>5, <2>1 DEF Altered
<1>6. ASSUME NEW o \in claim.obligations,
             edit = <<"obligations", [claim EXCEPT !.obligations = @ \ {o}]>>
      PROVE  Altered(new) /\ new.by \notin {"receipt", "validate"}
  <2>1. edit[2].obligations = claim.obligations \ {o}
    BY <1>1, <1>6 DEF IsClaim
  <2>. QED
    BY <1>1, <1>6, <2>1 DEF Altered
<1>7. ASSUME NEW b \in Bundles \ {claim.rules.bundle},
             edit = <<"rules", [claim EXCEPT !.rules.bundle = b]>>
      PROVE  Altered(new) /\ new.by \notin {"receipt", "validate"}
  <2>1. edit[2].rules.bundle = b
    BY <1>1, <1>7 DEF IsClaim
  <2>. QED
    BY <1>1, <1>7, <2>1 DEF Altered
<1>8. ASSUME NEW n \in DOMAIN claim.evidence, NEW c \in Contents,
             edit = <<"evidence", [claim EXCEPT !.evidence[n].digest = c]>>
      PROVE  Altered(new) /\ new.by \notin {"receipt", "validate"}
  <2>. DEFINE after == edit[2].evidence
  <2>1. /\ DOMAIN after = DOMAIN claim.evidence
        /\ \A m \in DOMAIN after : after[m].name = claim.evidence[m].name
        /\ after[n].digest = c
    BY <1>1, <1>8 DEF IsClaim
  <2>2. c # claim.evidence[n].digest
    <3>. SUFFICES ASSUME c = claim.evidence[n].digest
                  PROVE  FALSE
      OBVIOUS
    <3>1. after = claim.evidence
      BY <1>1, <1>8 DEF IsClaim
    <3>2. edit[2] = claim
      BY <1>1, <1>8, <3>1 DEF IsClaim
    <3>. QED
      BY <1>2, <3>2
  <2>. HIDE DEF after
  <2>3. ASSUME UniqueNames(after)
        PROVE  EvidenceDigest(statement, after[n].name) # after[n].digest
    <3>1. UniqueNames(statement.evidence) /\ DOMAIN statement.evidence \subseteq Nat
      BY <1>1, <2>1, <2>3 DEF UniqueNames, IsClaim
    <3>2. EvidenceDigest(statement, statement.evidence[n].name) = statement.evidence[n].digest
      BY <1>1, <1>8, <3>1, FirstOfItsName
    <3>. QED
      BY <1>1, <1>8, <2>1, <2>2, <3>2
  <2>. QED
    BY <1>1, <1>8, <2>1, <2>3 DEF Altered, after
<1>9. \/ edit = <<"action", [claim EXCEPT !.action = "edited"]>>
      \/ edit = <<"decision", [claim EXCEPT !.decision = "edited"]>>
      \/ edit = <<"dropped evidence", [claim EXCEPT !.evidence = <<>>]>>
      \/ \E q \in Profiles : edit = <<"profile", [claim EXCEPT !.profile = q]>>
      \/ \E a \in Authors \ {claim.operator} : edit = <<"operator", [claim EXCEPT !.operator = a]>>
      \/ \E o \in claim.obligations : edit = <<"obligations", [claim EXCEPT !.obligations = @ \ {o}]>>
      \/ \E b \in Bundles \ {claim.rules.bundle} :
            edit = <<"rules", [claim EXCEPT !.rules.bundle = b]>>
      \/ \E n \in DOMAIN claim.evidence, c \in Contents :
            edit = <<"evidence", [claim EXCEPT !.evidence[n].digest = c]>>
  <2>1. edit \in EvidenceEdits(claim) => \E n \in DOMAIN claim.evidence, c \in Contents :
           edit = <<"evidence", [claim EXCEPT !.evidence[n].digest = c]>>
    BY DEF EvidenceEdits
  <2>. QED
    BY <1>2, <2>1, Zenon DEF Edits
<1>. QED
  BY <1>3, <1>4, <1>5, <1>6, <1>7, <1>8, <1>9

(* The receipts that come to be. *)
LEMMA ReceiptsAdded ==
    ASSUME Typed, \A p \in Processes : Reading(p), \A entry \in Unedited : Issued(entry), Next
    PROVE  \/ UNCHANGED receipts
           \/ \E new : receipts' = receipts \cup {new} /\ WorldMoves
                 /\ \/ Altered(new) /\ new.by \notin {"receipt", "validate"}
                    \/ Issued(new) /\ new.by \in {"receipt", "validate"}
<1>1. ASSUME NEW p \in Processes, Seal(p)
      PROVE  \E new : receipts' = receipts \cup {new} /\ WorldMoves
                         /\ Issued(new) /\ new.by \in {"receipt", "validate"}
  <2>1. PICK new :
           new = [sealed |-> Create(ClaimOf(p), args[p].feed, args[p].key), by |-> args[p].kind]
    OBVIOUS
  <2>2. receipts' = receipts \cup {new} /\ pc[p] = "seal" /\ UNCHANGED world
    BY <1>1, <2>1 DEF Seal
  <2>3. new.by \in {"receipt", "validate"}
    BY <2>1, <2>2 DEF Reading
  <2>. QED
    BY <2>1, <2>2, <2>3, SealIssues DEF WorldMoves, world
<1>2. ASSUME NEW entry \in Unedited, NEW edit \in Edits(entry.sealed.claim), Edit(entry, edit)
      PROVE  \E new : receipts' = receipts \cup {new} /\ WorldMoves
                         /\ Altered(new) /\ new.by \notin {"receipt", "validate"}
  <2>1. PICK new : new = [sealed |-> [entry.sealed EXCEPT !.claim = edit[2]], by |-> edit[1]]
    OBVIOUS
  <2>2. receipts' = receipts \cup {new} /\ edit[2] # entry.sealed.claim /\ UNCHANGED world
    BY <1>2, <2>1 DEF Edit
  <2>. QED
    BY <2>1, <2>2, EditAlters DEF WorldMoves, world
<1>3. \/ UNCHANGED receipts
      \/ \E p \in Processes : Seal(p)
      \/ SomeEdit
  BY StepsGrouped DEF SomeSave, Save, CommandStep, Start, StartVerify, ReadPayload, NoChain,
     Validate, Verify, Refuse, RefuseToCite, Judge, HangUp
<1>. QED
  BY <1>1, <1>2, <1>3 DEF SomeEdit

LEMMA ReceiptsStep ==
    ASSUME Typed, LastStarts(epochs), \A p \in Processes : Reading(p), Next,
           \A entry \in Unedited : Issued(entry), \A entry \in receipts : Altered(entry)
    PROVE  /\ (\A entry \in Unedited : Issued(entry))'
           /\ (\A entry \in receipts : Altered(entry))'
<1>1. WorldMoves
  BY StepsGrouped, CommandsKeepTheWorld
  DEF WorldMoves, SomeEdit, Edit, SomeSave, Save, world
<1>2. \A entry : Issued(entry) => Issued(entry)'
  BY <1>1, IssuedStays
<1>3. \A entry : Altered(entry) => Altered(entry)'
  BY DEF Altered, UniqueNames, EvidenceDigest
<1>4. \A entry : Issued(entry) /\ entry.by \in {"receipt", "validate"} => Altered(entry)
  BY DEF Altered
<1>5. CASE UNCHANGED receipts
  BY <1>2, <1>3, <1>5 DEF Unedited
<1>6. ASSUME NEW new, receipts' = receipts \cup {new},
             \/ Altered(new) /\ new.by \notin {"receipt", "validate"}
             \/ Issued(new) /\ new.by \in {"receipt", "validate"}
      PROVE  /\ (\A entry \in Unedited : Issued(entry))'
             /\ (\A entry \in receipts : Altered(entry))'
  <2>1. (\A entry \in Unedited : Issued(entry))'
    BY <1>2, <1>6 DEF Unedited
  <2>2. (\A entry \in receipts : Altered(entry))'
    BY <1>3, <1>4, <1>6
  <2>. QED
    BY <2>1, <2>2
<1>. QED
  BY <1>5, <1>6, ReceiptsAdded

LEMMA VerdictsStep ==
    ASSUME Typed, \A p \in Processes : Reading(p), Next, \A verdict \in verdicts : Judged(verdict)
    PROVE  (\A verdict \in verdicts : Judged(verdict))'
<1>1. receipts \subseteq receipts'
  BY StepsGrouped, CommandsKeepTheWorld DEF SomeEdit, Edit, SomeSave, Save
<1>2. CASE UNCHANGED verdicts
  BY <1>1, <1>2 DEF Judged
<1>3. ASSUME NEW p \in Processes, Judge(p)
      PROVE  (\A verdict \in verdicts : Judged(verdict))'
  <2>1. PICK verdict :
           verdict = [entry   |-> held[p].receipt,
                      context |-> Context(p),
                      valid   |-> Accepts(held[p].receipt.sealed, epochs, Context(p))]
    OBVIOUS
  <2>2. verdicts' = {verdict} /\ pc[p] = "judge"
    BY <1>3, <2>1 DEF Judge
  <2>3. held[p].receipt \in receipts
    BY <2>2 DEF Reading
  <2>4. Judged(verdict)'
    BY <1>1, <2>1, <2>3 DEF Judged, Accepts
  <2>. QED
    BY <2>2, <2>4
<1>4. \/ UNCHANGED verdicts
      \/ \E p \in Processes : Judge(p)
  BY StepsGrouped DEF SomeEdit, Edit, SomeSave, Save, CommandStep, Start, StartVerify, ReadPayload,
     NoChain, Validate, Verify, Refuse, Seal, RefuseToCite, HangUp
<1>. QED
  BY <1>2, <1>3, <1>4

LEMMA IInvHolds == Spec => []IInv
<1>1. ASSUME Init
      PROVE  IInv
  <2>1. Typed
    <3>1. file \in 1..(MaxMishaps + 1) /\ MaxVersions \in Nat
      BY <1>1, ReadersAssumption DEF Init
    <3>2. chain \in Seq([bundle : Bundles, key : Keys]) /\ Len(chain) = 0
      BY <1>1 DEF Init
    <3>3. epochs \in [Authors -> Seq([key : Keys, from : 1..(MaxVersions + 1)])]
      <4>1. ASSUME NEW a \in Authors
            PROVE  <<[key |-> FirstKey[a], from |-> 1]>>
                      \in Seq([key : Keys, from : 1..(MaxVersions + 1)])
        <5>1. [key |-> FirstKey[a], from |-> 1] \in [key : Keys, from : 1..(MaxVersions + 1)]
          BY <3>1, ReadersAssumption
        <5>. QED
          BY <5>1
      <4>. QED
        BY <1>1, <4>1 DEF Init
    <3>4. NoArgs \in Commands
      BY ReadersAssumption DEF NoArgs
    <3>5. IsFiniteSet(receipts)
      BY <1>1, FS_EmptySet DEF Init
    <3>. QED
      BY <1>1, <3>1, <3>2, <3>3, <3>4, <3>5 DEF Init, Typed, Step, Nothing
  <2>2. LastStarts(epochs)
    <3>. SUFFICES ASSUME NEW a \in Authors, NEW version \in Nat \ {0}
                  PROVE  \E n \in StartedIn(epochs, a, version) :
                            \A m \in StartedIn(epochs, a, version) : m <= n
      BY DEF LastStarts
    <3>1. epochs[a] = <<[key |-> FirstKey[a], from |-> 1]>>
      BY <1>1 DEF Init
    <3>2. DOMAIN epochs[a] = {1} /\ epochs[a][1].from = 1
      BY <3>1
    <3>3. StartedIn(epochs, a, version) = {1}
      BY <3>2 DEF StartedIn
    <3>. QED
      BY <3>3
  <2>3. \A p \in Processes : Reading(p)
    BY <1>1 DEF Init, Reading
  <2>. QED
    BY <1>1, <2>1, <2>2, <2>3 DEF Init, IInv, Unedited
<1>2. ASSUME IInv, [Next]_vars
      PROVE  IInv'
  <2>1. CASE Next
    BY <1>2, <2>1, TypeStep, EpochsStep, ReadingStep, ReceiptsStep, VerdictsStep DEF IInv
  <2>2. CASE UNCHANGED vars
    <3>1. /\ UNCHANGED <<file, chain, epochs, disk, receipts, pc, args, held, verdicts>>
          /\ UNCHANGED readers
      BY <2>2 DEF vars, readers, world
    <3>2. Typed' /\ LastStarts(epochs')
      BY <1>2, <3>1 DEF IInv, Typed
    <3>3. \A p \in Processes : Reading(p)'
      BY <1>2, <3>1, ReadingStays DEF IInv, WorldMoves
    <3>4. \A entry : /\ Issued(entry) => Issued(entry)'
                     /\ Altered(entry) => Altered(entry)'
                     /\ Judged(entry) => Judged(entry)'
      BY <1>2, <3>1, IssuedStays
      DEF IInv, WorldMoves, Altered, UniqueNames, EvidenceDigest, Judged
    <3>. QED
      BY <1>2, <3>1, <3>2, <3>3, <3>4 DEF IInv, Unedited
  <2>. QED
    BY <1>2, <2>1, <2>2
<1>. QED
  BY <1>1, <1>2, PTL DEF Spec

-----------------------------------------------------------------------------
(***************************************************************************)
(* Every variable has its type: in the commands under way, among them, what *)
(* has been read is a payload of a chain.                                  *)
(***************************************************************************)
THEOREM Types == Spec => []TypeOK
<1>1. ASSUME IInv
      PROVE  TypeOK
  <2>1. \A v \in DOMAIN chain : chain[v].bundle \in Bundles /\ chain[v].key \in Keys
    <3>1. \A v \in DOMAIN chain : chain[v] \in [bundle : Bundles, key : Keys]
      BY <1>1, LenProperties, ElementOfSeq DEF IInv, Typed
    <3>. QED
      BY <3>1
  <2>2. \A p \in Processes :
           pc[p] \in {"verify", "seal", "judge", "serve"} /\ ~args[p].noChain
             => held[p].bundle \in Bundles
    BY <1>1 DEF IInv, Reading
  <2>3. Cardinality(verdicts) <= 1
    <3>1. CASE verdicts = {}
      BY <3>1, FS_EmptySet
    <3>2. CASE \E v : verdicts = {v}
      <4>1. PICK v : verdicts = {v}
        BY <3>2
      <4>2. Cardinality({v}) = 1
        BY FS_Singleton
      <4>. QED
        BY <4>1, <4>2
    <3>. QED
      BY <1>1, <3>1, <3>2 DEF IInv, Typed
  <2>. QED
    BY <1>1, <2>1, <2>2, <2>3 DEF IInv, Typed, TypeOK, Step
<1>. QED
  BY <1>1, IInvHolds, PTL

(***************************************************************************)
(* What a receipt or an MCP session cites is never from a version later    *)
(* than the one it names.                                                  *)
(***************************************************************************)
THEOREM CitationsAreNeverAhead == Spec => []CitationNeverAhead
<1>1. ASSUME IInv
      PROVE  CitationNeverAhead
  BY <1>1 DEF IInv, Issued, Reading, KnownIn, PayloadOf, CitationNeverAhead, SignedBy
<1>. QED
  BY <1>1, IInvHolds, PTL

(***************************************************************************)
(* What run_receipt seals cites versions signed with the keys the registry *)
(* pins, whatever is rotated later.                                        *)
(***************************************************************************)
THEOREM ReceiptsAreOnValidChains == Spec => []IssuedOnValidChains
<1>1. ASSUME IInv
      PROVE  IssuedOnValidChains
  BY <1>1 DEF IInv, Issued, ValidUpTo, IssuedOnValidChains
<1>. QED
  BY <1>1, IInvHolds, PTL

(***************************************************************************)
(* A receipt nobody edited, over the payload of the version it cites and   *)
(* with the key its operator had then, passes whenever it is verified.     *)
(***************************************************************************)
THEOREM HonestReceiptsKeepPassing == Spec => []HonestReceiptsPass
<1>1. ASSUME IInv
      PROVE  HonestReceiptsPass
  <2>. SUFFICES ASSUME NEW entry \in Unedited,
                       entry.sealed.claim.rules.file = file,
                       Exact(entry.sealed.claim.rules),
                       UniqueNames(entry.sealed.claim.evidence),
                       entry.sealed.key = ActiveKey(epochs, entry.sealed.claim.operator,
                                                    entry.sealed.claim.rules.version)
                PROVE  Accepts(entry.sealed, epochs,
                               [bundle |-> Current, file |-> file, version |-> Len(chain)])
    BY DEF HonestReceiptsPass
  <2>. DEFINE sealed == entry.sealed
              claim == sealed.claim
              context == [bundle |-> Current, file |-> file, version |-> Len(chain)]
  <2>1. Issued(entry)
    BY <1>1 DEF IInv
  <2>2. PICK feed : sealed = Create(claim, feed, sealed.key)
    BY <2>1 DEF Issued
  <2>3. IsClaim(claim) /\ claim.obligations \subseteq Select(claim.rules.bundle, claim.profile)
    BY <2>1 DEF Issued
  <2>4. /\ sealed.signer = claim.operator /\ sealed.statement.operator = claim.operator
        /\ sealed.statement.action = claim.action
        /\ sealed.statement.obligations = claim.obligations
        /\ sealed.statement.rules = claim.rules
        /\ sealed.statement.evidence = claim.evidence
        /\ sealed.statement.policy.file = claim.rules.file
        /\ sealed.statement.policy.version = claim.rules.version
    BY <2>2 DEF Create
  <2>5. context.bundle = Current /\ context.file = file /\ context.version = Len(chain)
    OBVIOUS
  <2>6. /\ claim.rules.file = file /\ chain[claim.rules.version].bundle = claim.rules.bundle
        /\ UniqueNames(claim.evidence)
        /\ sealed.key = ActiveKey(epochs, claim.operator, claim.rules.version)
    BY DEF Exact
  <2>. HIDE DEF sealed, claim, context
  <2>7. SignatureValid(sealed, epochs)
    BY <2>4, <2>6 DEF SignatureValid
  <2>8. ClaimBound(sealed)
    <3>1. \A n \in DOMAIN claim.evidence :
             EvidenceDigest(sealed.statement, claim.evidence[n].name) = claim.evidence[n].digest
      BY <2>3, <2>4, <2>6, FirstOfItsName DEF IsClaim
    <3>. QED
      BY <2>4, <3>1 DEF ClaimBound, claim
  <2>9. MatchesChain(sealed, context)
    BY <2>3, <2>4, <2>5, <2>6 DEF MatchesChain, SamePolicy, Reproduced, Current, claim
  <2>10. Accepts(sealed, epochs, context)
    BY <2>4, <2>7, <2>8, <2>9 DEF Accepts, claim
  <2>. QED
    BY <2>10 DEF sealed, context
<1>. QED
  BY <1>1, IInvHolds, PTL

(***************************************************************************)
(* receipt-verify passes no claim whose action, operator, obligations,     *)
(* rules or evidence digest was edited.                                    *)
(***************************************************************************)
THEOREM EditsAreFound == Spec => []SealedFieldsHold
<1>1. ASSUME IInv
      PROVE  SealedFieldsHold
  BY <1>1 DEF IInv, Judged, Altered, ClaimBound, SealedFieldsHold
<1>. QED
  BY <1>1, IInvHolds, PTL
=============================================================================
