------------------------------ MODULE MCReaders ------------------------------
(***************************************************************************)
(* Finite instances of Readers for TLC.  There are two payloads: the first *)
(* obliges providers to R1, the second weakens R1 and adds R2.  Agencies   *)
(* are obliged to nothing in the first.  Only the content "good" conforms. *)
(***************************************************************************)
EXTENDS Readers

CONSTANTS p, feedKey, opKey, spareKey

MCFirstKey == [a \in Authors |-> IF a = Feed THEN feedKey ELSE opKey]

MCSelect(bundle, profile) ==
    CASE profile = "Providers" /\ bundle = "b1" -> {[id |-> "R1", force |-> "MUST"]}
      [] profile = "Providers" /\ bundle = "b2" ->
            {[id |-> "R1", force |-> "SHOULD"], [id |-> "R2", force |-> "MUST"]}
      [] OTHER -> {[id |-> "R1", force |-> "MUST"] : b \in {bundle} \cap {"b2"}}

MCConforms(bundle, content) == content = "good"
MCRequiredBy(bundle) == {"R1"}
MCNameOf == [path \in Paths |-> path]

Told(kind, operator, key, wanted, paths) ==
    [kind |-> kind, operator |-> operator, feed |-> Feed, key |-> key, wanted |-> wanted,
     profile |-> "Providers", decision |-> "satisfied", paths |-> paths,
     noChain |-> FALSE]

Receipt  == Told("receipt", "op", opKey, {}, <<"package">>)
Renewed  == Told("receipt", "op", spareKey, {"R2"}, <<>>)
Package  == Told("validate", "op", opKey, {}, <<"package">>)
Confirm  == Told("confirm", "op", opKey, {}, <<>>)
Offline  == [Confirm EXCEPT !.noChain = TRUE]
Serve    == Told("serve", "op", opKey, {}, <<>>)

AllCommands     == {Receipt, Renewed, Package, Serve, Confirm, Offline}
ReceiptCommands == {Receipt, Confirm}
=============================================================================
