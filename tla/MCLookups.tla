------------------------------- MODULE MCLookups -------------------------------
(***************************************************************************)
(* Bundles for Lookups: a rule for all types, one that varies by class for *)
(* 20x, a term that lists aliases or does not, overlays and references in  *)
(* both forms, and bundles signed before oscal and kev were sources.       *)
(***************************************************************************)
EXTENDS Lookups, TLC

MCKeyOrder == <<"20x", "CCM", "CSX", "OCR", "R1", "R2", "all", "b", "c">>

MCProfiles ==
    [role : {"Providers"}, class : {"b", "c", Missing}, certType : {"20x"}, path : {Missing}]

Ctl(c, e)        == [form |-> "ctl", control |-> c, enhancement |-> e]
Catalogued(c, e) == [form |-> "oscal", control |-> c, enhancement |-> e]

MCControls == {Ctl(1, 0), Ctl(1, 1), Catalogued(1, 0), Catalogued(1, 1), Catalogued(2, 0)}

Texts == SUBSET {"kev", "known exploited vulnerabilit"}

Term(alts) == "all" :> ("FRD-KEV" :> (IF alts = Missing THEN [term |-> "KEV"] ELSE [alts |-> alts]))

RulesDoc(alts, own, b, c, ctl, ksi) ==
    [substance |-> [version |-> "v1", sections |->
        [FRD |-> [data |-> Term(alts)],
         FRR |-> [CCM |-> [info |-> [status |-> "live"],
            data |->
                ("all" :> [OCR |-> "R1" :> [affects |-> {"Providers"}, force |-> "MUST", schema |-> "s",
                                            statement |-> own]]) @@
                ("20x" :> [CSX |-> "R2" :> [varies_by_class |->
                              ("b" :> [force |-> "MUST", statement |-> b]) @@
                              ("c" :> [force |-> "SHOULD", statement |-> c])]])]],
         KSI |-> [AFR |-> [indicators |-> [I1 |-> [controls |-> ksi, statement |-> {"kev"}]]]],
         CTL |-> [AC |-> [id \in ctl |-> [guidance |-> "g"]]]]],
     volatile |-> "mon"]

Control1(e, inner) == [id |-> Catalogued(1, e), title |-> "t", controls |-> inner]

Catalog ==
    [substance |-> [version |-> "5.2", catalog |->
        [controls |-> <<Control1(0, <<Control1(1, <<>>)>>)>>]], volatile |-> "uuid"]

KevDoc(list) == [substance |-> [catalogVersion |-> "v1", vulnerabilities |-> list], volatile |-> "mon"]

Overlays == {{}, {Ctl(1, 1)}, {Ctl(1, 0), Catalogued(1, 1)}}

(* Texts move, or what is overlaid and referenced does. *)
Rules ==
    {RulesDoc(alts, own, b, c, {Ctl(1, 1)}, {}) :
        alts \in {Missing, {"kev", "kevs"}}, own, b, c \in Texts}
    \cup {RulesDoc(Missing, {"kev"}, {}, {}, ctl, ksi) : ctl \in Overlays, ksi \in {{}, {Ctl(1, 0)}}}

(* Bundles of the rules alone, and whole ones. *)
MCBundles ==
    {"rules" :> r : r \in Rules} \cup
    {("rules" :> r) @@ ("oscal" :> Catalog) @@ ("kev" :> KevDoc(list)) :
        r \in Rules, list \in {<<[cveID |-> "c1", dueDate |-> "jan"]>>}}
=============================================================================
