------------------------------- MODULE Readers -------------------------------
(***************************************************************************)
(* The commands that read the chain file while syncs go on appending to it *)
(* (src/src/lib.rs run_receipt, run_receipt_verify, run_validate, run_mcp  *)
(* and src/src/mcp.rs load).                                               *)
(*                                                                         *)
(* Each of them takes the payload with one read of the file and its length *)
(* and validity with another, and a receipt reads the evidence later       *)
(* still.  Syncs, key rotations and edits of files come in between.  How a *)
(* sync makes a version is Pipeline's matter; here it is one step.         *)
(*                                                                         *)
(* A command may stop before any step, as any command can: stopping writes *)
(* nothing, so it is the same as never taking the step.  The registry is   *)
(* read in the step that verifies.  run_receipt_verify reads it first, but *)
(* a rotation starts after the newest version, later than what a receipt   *)
(* cites that exists by then.                                              *)
(***************************************************************************)
EXTENDS Receipts, FiniteSets

CONSTANTS
    Processes, Authors, Feed, Keys, FirstKey, Profiles, Commands,
    Bundles,            \* payloads: each has a rules and a schemas section
    Contents,           \* what a file on disk may hold
    Paths, NameOf,      \* the files given as evidence and their file names
    Conforms(_, _),     \* validate: content against the schema of a bundle
    RequiredBy(_),      \* validate: ids of the rules that require the artifact
    MaxVersions, MaxReceipts,
    MaxMishaps          \* bounds; a mishap is a new file, a rotation or an edit

ASSUME ReadersAssumption ==
    /\ IsFiniteSet(Authors) /\ Feed \in Authors /\ FirstKey \in [Authors -> Keys]
    /\ Commands # {}
    /\ \A command \in Commands :
          /\ command.kind \in {"receipt", "validate", "confirm", "serve"}
          /\ command.paths \in Seq(Paths) /\ command.noChain \in BOOLEAN
    /\ {MaxVersions, MaxReceipts, MaxMishaps} \subseteq Nat

VARIABLES
    file,      \* which chain file it is: a new one gets a new file id
    chain,     \* its versions, oldest first
    epochs,    \* the registry: per author, the keys and when they start
    disk,      \* what the evidence files and the package hold
    receipts,  \* the receipts there are, each with the command that left it
    pc,        \* per process, its next step
    args,      \* per process, its command line
    held,      \* per process, what it has read so far
    verdicts   \* what receipt-verify said

readers == <<pc, args, held>>
world == <<file, chain, epochs, disk>>
vars == <<readers, world, receipts, verdicts>>

Current == chain[Len(chain)].bundle

(* verify_file: every version has the feed's key of its epoch. *)
Valid == \A v \in DOMAIN chain : chain[v].key = ActiveKey(epochs, Feed, v)

NoArgs == CHOOSE command \in Commands : TRUE
Nothing == [bundle |-> "none", verified |-> "none", content |-> "none", receipt |-> "none"]

-----------------------------------------------------------------------------
(***************************************************************************)
(* What goes on around the readers.                                        *)
(***************************************************************************)

Rotations == {r \in Authors \X (2..(MaxMishaps + 1)) : r[2] \in DOMAIN epochs[r[1]]}

Unedited == {entry \in receipts : entry.by \in {"receipt", "validate"}}

Mishaps == (file - 1) + Cardinality(Rotations) + Cardinality(receipts \ Unedited)

(* A sync signs a version; only the first is not checked for its key. *)
Sync(bundle, key) ==
    /\ Len(chain) < MaxVersions
    /\ chain # <<>> => key = ActiveKey(epochs, Feed, Len(chain) + 1)
    /\ chain' = Append(chain, [bundle |-> bundle, key |-> key])
    /\ UNCHANGED <<readers, file, epochs, disk, receipts, verdicts>>

(* The chain file is removed and a sync starts another. *)
StartOver(bundle, key) ==
    /\ chain # <<>> /\ Mishaps < MaxMishaps
    /\ file' = file + 1
    /\ chain' = <<[bundle |-> bundle, key |-> key]>>
    /\ UNCHANGED <<readers, epochs, disk, receipts, verdicts>>

(* An author rotates to a new key, from the next version on. *)
Rotate(author, key) ==
    /\ Mishaps < MaxMishaps
    /\ \A a \in Authors : \A n \in DOMAIN epochs[a] : epochs[a][n].key # key
    /\ epochs' = [epochs EXCEPT ![author] = Append(@, [key |-> key, from |-> Len(chain) + 1])]
    /\ UNCHANGED <<readers, file, chain, disk, receipts, verdicts>>

(* Somebody saves one of the evidence files. *)
Save(path, content) ==
    /\ disk[path] # content
    /\ disk' = [disk EXCEPT ![path] = content]
    /\ UNCHANGED <<readers, file, chain, epochs, receipts, verdicts>>

(* A claim with one of its fields changed by hand. *)
EvidenceEdits(claim) ==
    {<<"evidence", [claim EXCEPT !.evidence[n].digest = c]>> :
        n \in DOMAIN claim.evidence, c \in Contents}

Edits(claim) ==
    {<<"action", [claim EXCEPT !.action = "edited"]>>,
     <<"decision", [claim EXCEPT !.decision = "edited"]>>,
     <<"dropped evidence", [claim EXCEPT !.evidence = <<>>]>>}
    \cup {<<"operator", [claim EXCEPT !.operator = a]>> : a \in Authors \ {claim.operator}}
    \cup {<<"profile", [claim EXCEPT !.profile = q]>> : q \in Profiles \ {claim.profile}}
    \cup {<<"obligations", [claim EXCEPT !.obligations = @ \ {o}]>> : o \in claim.obligations}
    \cup {<<"rules", [claim EXCEPT !.rules.bundle = b]>> : b \in Bundles \ {claim.rules.bundle}}
    \cup EvidenceEdits(claim)

Edit(entry, edit) ==
    /\ Mishaps < MaxMishaps
    /\ edit[2] # entry.sealed.claim
    /\ receipts' = receipts \cup
          {[sealed |-> [entry.sealed EXCEPT !.claim = edit[2]], by |-> edit[1]]}
    /\ UNCHANGED <<readers, world, verdicts>>

-----------------------------------------------------------------------------
(***************************************************************************)
(* The steps of a command.                                                 *)
(***************************************************************************)
Goto(p, from, to) == pc[p] = from /\ pc' = [pc EXCEPT ![p] = to]

End(p) ==
    /\ pc' = [pc EXCEPT ![p] = "idle"]
    /\ args' = [args EXCEPT ![p] = NoArgs]
    /\ held' = [held EXCEPT ![p] = Nothing]

(* run_receipt asks for an operator who is not the feed, as it is told. *)
Start(p, command) ==
    /\ command.kind = "receipt" => command.operator # command.feed
    /\ command.kind \in {"receipt", "validate"} => Cardinality(receipts) < MaxReceipts
    /\ Goto(p, "idle", "read")
    /\ args' = [args EXCEPT ![p] = command]
    /\ UNCHANGED <<held, world, receipts, verdicts>>

(* receipt-verify is given a receipt; with --no-chain it reads no chain.   *)
StartVerify(p, command, entry) ==
    /\ command.kind = "confirm"
    /\ Goto(p, "idle", IF command.noChain THEN "judge" ELSE "read")
    /\ args' = [args EXCEPT ![p] = command]
    /\ held' = [held EXCEPT ![p].receipt = entry]
    /\ UNCHANGED <<world, receipts, verdicts>>

(* Mutant of ReadPayload: what does not verify has no payload. *)
ReadPayloadIfValid(p) ==
    /\ chain # <<>>
    /\ Goto(p, "read", IF args[p].kind = "validate" THEN "validate" ELSE "verify")
    /\ held' = [held EXCEPT ![p].bundle = IF Valid THEN Current ELSE "none"]
    /\ UNCHANGED <<args, world, receipts, verdicts>>

(* previous_bundle, which verifies nothing; no chain file, no answer. *)
ReadPayload(p) ==
    /\ chain # <<>>
    /\ Goto(p, "read", IF args[p].kind = "validate" THEN "validate" ELSE "verify")
    /\ held' = [held EXCEPT ![p].bundle = Current]
    /\ UNCHANGED <<args, world, receipts, verdicts>>

NoChain(p) ==
    /\ pc[p] = "read" /\ chain = <<>>
    /\ End(p)
    /\ UNCHANGED <<world, receipts, verdicts>>

(* run_validate reads the package and validates what it read. *)
Validate(p) ==
    /\ Goto(p, "validate", "verify")
    /\ held' = [held EXCEPT ![p].content = disk[args[p].paths[1]]]
    /\ UNCHANGED <<args, world, receipts, verdicts>>

AfterVerify(kind) ==
    CASE kind \in {"receipt", "validate"} -> "seal"
      [] kind = "confirm" -> "judge"
      [] kind = "serve" -> "serve"

(* Mutant of Verify: run_receipt goes on with a chain that is not valid. *)
VerifyUnheeded(p) ==
    /\ Goto(p, "verify", AfterVerify(args[p].kind))
    /\ held' = [held EXCEPT ![p].verified =
                   [file |-> file, version |-> Len(chain), valid |-> Valid]]
    /\ UNCHANGED <<args, world, receipts, verdicts>>

(* load_registry and chain::verify: only run_receipt looks at the result. *)
Verify(p) ==
    /\ args[p].kind = "receipt" => Valid
    /\ Goto(p, "verify", AfterVerify(args[p].kind))
    /\ held' = [held EXCEPT ![p].verified =
                   [file |-> file, version |-> Len(chain), valid |-> Valid]]
    /\ UNCHANGED <<args, world, receipts, verdicts>>

(* "refusing to issue a receipt against an invalid chain" *)
Refuse(p) ==
    /\ pc[p] = "verify" /\ args[p].kind = "receipt" /\ ~Valid
    /\ End(p)
    /\ UNCHANGED <<world, receipts, verdicts>>

(* Mutant of Cited: the payload is read again when the receipt is sealed. *)
CitedNow(p) ==
    [file |-> held[p].verified.file, version |-> held[p].verified.version, bundle |-> Current]

(* RulesRef: the file and the length verified, the payload read before. *)
Cited(p) ==
    [file    |-> held[p].verified.file,
     version |-> held[p].verified.version,
     bundle  |-> held[p].bundle]

Ids(obligations) == {o.id : o \in obligations}

(* The obligations of the profile that are asked for, all when none is;   *)
(* for validate, those that require the artifact.                         *)
Selected(p) ==
    LET all == Select(held[p].bundle, args[p].profile)
        wanted == IF args[p].kind = "validate" THEN RequiredBy(held[p].bundle) ELSE args[p].wanted
    IN  IF args[p].kind = "receipt" /\ wanted = {} THEN all
        ELSE {o \in all : o.id \in wanted}

(* "is not an obligation for": run_receipt cites no rule that is not there. *)
AllApply(p) ==
    args[p].kind = "receipt" =>
        args[p].wanted \subseteq Ids(Select(held[p].bundle, args[p].profile))

(* evidence_ref: the name of the file and the digest of what it holds now. *)
EvidenceRefs(p) ==
    [n \in DOMAIN args[p].paths |->
        [name |-> NameOf[args[p].paths[n]], digest |-> disk[args[p].paths[n]]]]

(* What the command says was done: for validate, its verdict. *)
Conformant(p) == Conforms(held[p].bundle, held[p].content)

ClaimOf(p) ==
    [action      |-> IF args[p].kind = "receipt" THEN "as told"
                     ELSE IF Conformant(p) THEN "conformant" ELSE "non-conformant",
     decision    |-> IF args[p].kind = "receipt" THEN args[p].decision
                     ELSE IF Conformant(p) THEN "satisfied" ELSE "not-satisfied",
     operator    |-> args[p].operator,
     profile     |-> args[p].profile,
     obligations |-> Selected(p),
     evidence    |-> EvidenceRefs(p),
     rules       |-> Cited(p)]

(* The receipt is written.  issue_validation_receipt makes no check. *)
Seal(p) ==
    /\ pc[p] = "seal"
    /\ AllApply(p)
    /\ receipts' = receipts \cup
          {[sealed |-> Create(ClaimOf(p), args[p].feed, args[p].key), by |-> args[p].kind]}
    /\ End(p)
    /\ UNCHANGED <<world, verdicts>>

RefuseToCite(p) ==
    /\ pc[p] = "seal" /\ ~AllApply(p)
    /\ End(p)
    /\ UNCHANGED <<world, receipts, verdicts>>

(* What receipt-verify compares with. *)
Context(p) ==
    IF args[p].noChain THEN NoContext
    ELSE [bundle  |-> held[p].bundle,
          file    |-> held[p].verified.file,
          version |-> held[p].verified.version]

Judge(p) ==
    /\ pc[p] = "judge"
    /\ verdicts' = {[entry   |-> held[p].receipt,
                     context |-> Context(p),
                     valid   |-> Accepts(held[p].receipt.sealed, epochs, Context(p))]}
    /\ End(p)
    /\ UNCHANGED <<world, receipts>>

(* The server answers until its client hangs up. *)
HangUp(p) ==
    /\ pc[p] = "serve"
    /\ End(p)
    /\ UNCHANGED <<world, receipts, verdicts>>

-----------------------------------------------------------------------------
Init ==
    /\ file = 1
    /\ chain = <<>>
    /\ epochs = [a \in Authors |-> <<[key |-> FirstKey[a], from |-> 1]>>]
    /\ disk \in [Paths -> Contents]
    /\ receipts = {}
    /\ pc = [p \in Processes |-> "idle"]
    /\ args = [p \in Processes |-> NoArgs]
    /\ held = [p \in Processes |-> Nothing]
    /\ verdicts = {}

Environment ==
    \/ \E bundle \in Bundles, key \in Keys : Sync(bundle, key) \/ StartOver(bundle, key)
    \/ \E author \in Authors, key \in Keys : Rotate(author, key)
    \/ \E path \in Paths, content \in Contents : Save(path, content)
    \/ \E entry \in Unedited : \E edit \in Edits(entry.sealed.claim) : Edit(entry, edit)

Next ==
    \/ Environment
    \/ \E p \in Processes :
          \/ \E command \in Commands :
                \/ command.kind # "confirm" /\ Start(p, command)
                \/ \E entry \in receipts : StartVerify(p, command, entry)
          \/ ReadPayload(p) \/ NoChain(p) \/ Validate(p)
          \/ Verify(p) \/ Refuse(p)
          \/ Seal(p) \/ RefuseToCite(p) \/ Judge(p) \/ HangUp(p)

Spec == Init /\ [][Next]_vars

-----------------------------------------------------------------------------
(***************************************************************************)
(* Properties.                                                             *)
(***************************************************************************)

(* Every variable has its type. *)
TypeOK ==
    /\ file \in 1..(MaxMishaps + 1)
    /\ \A v \in DOMAIN chain : chain[v].bundle \in Bundles /\ chain[v].key \in Keys
    /\ \A a \in Authors : epochs[a] \in Seq([key : Keys, from : 1..(MaxVersions + 1)])
    /\ disk \in [Paths -> Contents]
    /\ pc \in [Processes -> {"idle", "read", "validate", "verify", "seal", "judge", "serve"}]
    /\ args \in [Processes -> Commands]
    /\ \A p \in Processes :
          pc[p] \in {"verify", "seal", "judge", "serve"} /\ ~args[p].noChain
            => held[p].bundle \in Bundles
    /\ Cardinality(verdicts) <= 1

(***************************************************************************)
(* What a receipt or an MCP session cites is never from a version later    *)
(* than the version number it cites: whatever syncs come between the two   *)
(* reads, the payload was signed at that version or before it (lib.rs      *)
(* run_receipt, mcp.rs load: the payload is read first), unless the chain  *)
(* file was replaced by another in between.                                *)
(***************************************************************************)
SignedBy(rules) == \E v \in 1..rules.version : chain[v].bundle = rules.bundle

CitationNeverAhead ==
    file = 1 =>
        /\ \A entry \in Unedited : SignedBy(entry.sealed.claim.rules)
        /\ \A p \in Processes : pc[p] = "serve" => SignedBy(Cited(p))

(***************************************************************************)
(* What run_receipt seals cites versions that are all signed with keys the *)
(* registry pins, and still are after any later rotation.                  *)
(***************************************************************************)
IssuedOnValidChains ==
    \A entry \in Unedited : entry.by = "receipt" /\ entry.sealed.claim.rules.file = file =>
        \A v \in 1..entry.sealed.claim.rules.version : chain[v].key = ActiveKey(epochs, Feed, v)

(* The payload cited is that of the version cited. *)
Exact(rules) == chain[rules.version].bundle = rules.bundle

UniqueNames(evidence) ==
    \A m, n \in DOMAIN evidence : evidence[m].name = evidence[n].name => m = n

(***************************************************************************)
(* A receipt nobody edited, sealed with the key its operator had at the    *)
(* version it cites, over the payload of that version, keeps passing       *)
(* receipt-verify: after later versions with other obligations, and after  *)
(* the operator or the feed rotates its key (receipt.rs verify: the epoch  *)
(* is resolved at the version cited; check_chain: only the current version *)
(* is derived again).                                                      *)
(***************************************************************************)
HonestReceiptsPass ==
    \A entry \in Unedited :
        LET sealed == entry.sealed
        IN  /\ sealed.claim.rules.file = file
            /\ Exact(sealed.claim.rules)
            /\ UniqueNames(sealed.claim.evidence)
            /\ sealed.key = ActiveKey(epochs, sealed.claim.operator, sealed.claim.rules.version)
            => Accepts(sealed, epochs,
                       [bundle |-> Current, file |-> file, version |-> Len(chain)])

(***************************************************************************)
(* Whatever chain a receipt is verified against, and however that chain    *)
(* moves meanwhile, receipt-verify never passes a claim whose action,      *)
(* operator, obligations, rules or evidence digest was edited.  Of two     *)
(* files of one name only the first is compared with what was sealed       *)
(* (receipt.rs 267, 474), so the evidence is of different names.           *)
(***************************************************************************)
SealedFieldsHold ==
    \A v \in verdicts :
        LET entry == v.entry
        IN  \/ entry.by \in {"action", "operator", "obligations", "rules"}
            \/ entry.by = "evidence" /\ UniqueNames(entry.sealed.claim.evidence)
            => ~v.valid

(***************************************************************************)
(* A receipt cites the version whose rules it was derived from.  README.md *)
(* line 228 says it is "signed by you, against that exact version"; a sync *)
(* between the two reads of the chain file makes it cite the version after *)
(* it.                                                                     *)
(***************************************************************************)
CitesExactVersion ==
    \A entry \in Unedited : entry.by = "receipt" => Exact(entry.sealed.claim.rules)
=============================================================================
