-------------------------------- MODULE Ledger --------------------------------
(***************************************************************************)
(* What the sync pipeline promises, with its steps and failures left out:  *)
(* a log of signed versions beside upstream repositories that move.        *)
(*                                                                         *)
(* A version is appended in one step.  It is a cut of upstream: for each   *)
(* of its sources a commit that exists, with the bytes of that commit, no  *)
(* older than the one the version before it pins, and no source of that    *)
(* version is missing.  It is signed under the message that comparing it   *)
(* with that version gives.  Pipeline is shown to implement this module.   *)
(***************************************************************************)
EXTENDS Gate, Sequences

CONSTANTS Keys, Registered

VARIABLES upstream, chain

vars == <<upstream, chain>>

(* What the next version is compared with. *)
Latest == IF chain = <<>> THEN NoBundle ELSE chain[Len(chain)].bundle

NotBehind(bundle, older) ==
    older # NoBundle =>
        \A s \in Carried(older) :
            s \in Carried(bundle) /\ older[s].pin <= bundle[s].pin

Init ==
    /\ upstream \in [Sources -> Seq(Doc)]
    /\ \A s \in Sources : upstream[s] # <<>>
    /\ chain = <<>>

Publish(s, doc) ==
    /\ upstream' = [upstream EXCEPT ![s] = Append(@, doc)]
    /\ UNCHANGED chain

(* A choice of a commit for each source, 0 for a source left out. *)
Pinnings ==
    {pins \in [Sources -> UNION {0..Len(upstream[s]) : s \in Sources}] :
        \A s \in Sources : pins[s] <= Len(upstream[s])}

(* What upstream holds at these commits. *)
CutAt(pins) ==
    [s \in Sources |->
        IF pins[s] = 0 THEN Absent ELSE [pin |-> pins[s], doc |-> upstream[s][pins[s]]]]

(* The first version is not checked against the registry, later ones are.  *)
(* (The first conjunct follows from the last but one; TLC is quick to see  *)
(* with it that a step signs nothing.)                                     *)
Sign(pins, key) ==
    /\ Len(chain') = Len(chain) + 1
    /\ NotBehind(CutAt(pins), Latest)
    /\ chain # <<>> => key \in Registered
    /\ chain' = Append(chain, [bundle  |-> CutAt(pins),
                               key     |-> key,
                               message |-> Plan(Latest, CutAt(pins))])
    /\ UNCHANGED upstream

Next ==
    \/ \E s \in Sources, doc \in Doc : Publish(s, doc)
    \/ \E pins \in Pinnings, key \in Keys : Sign(pins, key)

Spec == Init /\ [][Next]_vars
=============================================================================
