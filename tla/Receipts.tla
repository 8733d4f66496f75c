------------------------------- MODULE Receipts -------------------------------
(***************************************************************************)
(* What a receipt seals and what verifying it compares (src/src/receipt.rs *)
(* create and verify).                                                     *)
(*                                                                         *)
(* A receipt is a plaintext claim beside a signed statement that commits   *)
(* digests of parts of the claim.  A digest is the value it is taken of:   *)
(* only equal values have equal digests.  The statement cannot be edited,  *)
(* the signature would break; the claim can.                               *)
(***************************************************************************)
EXTENDS Naturals, Sequences

CONSTANTS
    Select(_, _)   \* obligations::select: a set of [id, force] for bundle, profile

(* The epoch of an author at a version: the last that starts by then. *)
ActiveKey(epochs, author, version) ==
    LET started == {n \in DOMAIN epochs[author] : epochs[author][n].from <= version}
    IN  epochs[author][CHOOSE n \in started : \A m \in started : m <= n].key

(* create: the claim, the statement that commits it, and the signature. *)
Create(claim, feed, key) ==
    [claim     |-> claim,
     statement |-> [action      |-> claim.action,
                    obligations |-> claim.obligations,
                    rules       |-> claim.rules,
                    evidence    |-> claim.evidence,
                    policy      |-> [file    |-> claim.rules.file,
                                     version |-> claim.rules.version,
                                     feed    |-> feed],
                    decision    |-> claim.decision,
                    operator    |-> claim.operator],
     signer    |-> claim.operator,
     key       |-> key]

(* verify_envelope, with the epoch of the version the statement cites. *)
SignatureValid(receipt, epochs) ==
    receipt.key = ActiveKey(epochs, receipt.signer, receipt.statement.policy.version)

(* The digest the statement commits under evidence/<name>: the first one. *)
EvidenceDigest(statement, name) ==
    LET named == {n \in DOMAIN statement.evidence : statement.evidence[n].name = name}
    IN  IF named = {} THEN "none"
        ELSE statement.evidence[CHOOSE n \in named : \A m \in named : n <= m].digest

(* Mutant of ClaimBound: the citation of the rules is not compared. *)
ClaimBoundSansRules(receipt) ==
    LET claim == receipt.claim  statement == receipt.statement
    IN  /\ statement.action = claim.action
        /\ statement.obligations = claim.obligations
        /\ \A n \in DOMAIN claim.evidence :
              EvidenceDigest(statement, claim.evidence[n].name) = claim.evidence[n].digest

(* check_claim_binding: what is recomputed from the claim and compared. *)
ClaimBound(receipt) ==
    LET claim == receipt.claim  statement == receipt.statement
    IN  /\ statement.action = claim.action
        /\ statement.obligations = claim.obligations
        /\ statement.rules = claim.rules
        /\ \A n \in DOMAIN claim.evidence :
              EvidenceDigest(statement, claim.evidence[n].name) = claim.evidence[n].digest

(* What a verifier knows of the chain: its payload, file id and length. *)
SamePolicy(receipt, context) ==
    LET rules == receipt.claim.rules  policy == receipt.statement.policy
    IN  /\ policy.file = context.file
        /\ rules.file = context.file
        /\ rules.version = policy.version

(* Every claimed obligation is derived from the rules for that profile. *)
Reproduced(receipt, context) ==
    receipt.claim.obligations \subseteq Select(context.bundle, receipt.claim.profile)

(* Mutant of MatchesChain: any version is compared with the payload. *)
MatchesPayload(receipt, context) ==
    /\ SamePolicy(receipt, context)
    /\ context.bundle = receipt.claim.rules.bundle
    /\ Reproduced(receipt, context)

(* check_chain finds no problem.  Only the version the chain holds now is  *)
(* compared with its payload.                                              *)
MatchesChain(receipt, context) ==
    /\ SamePolicy(receipt, context)
    /\ receipt.claim.rules.version = context.version =>
          /\ context.bundle = receipt.claim.rules.bundle
          /\ Reproduced(receipt, context)

(* What is known with --no-chain. *)
NoContext == [bundle |-> "none", file |-> 0, version |-> 0]

(* verify reports no problem. *)
Accepts(receipt, epochs, context) ==
    /\ SignatureValid(receipt, epochs)
    /\ receipt.signer = receipt.statement.operator
    /\ ClaimBound(receipt)
    /\ receipt.statement.operator = receipt.claim.operator
    /\ context # NoContext => MatchesChain(receipt, context)
=============================================================================
