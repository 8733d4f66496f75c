----------------------------- MODULE MCValidator -----------------------------
(***************************************************************************)
(* Finite instances of Validator for TLC: a report schema that refers to a *)
(* file of common definitions in both forms, definitions that refer to     *)
(* each other, also in a circle, to a file that is not signed and outside. *)
(***************************************************************************)
EXTENDS Validator

RootName == "(root)"

Fragment(file, def) == [form |-> "fragment", file |-> file, def |-> def]
Path(file, def)     == [form |-> "path", file |-> file, def |-> def]
Inner(def)          == [form |-> "local", def |-> def]
Outside             == [form |-> "outside"]

Common(a, b) == [d \in {RootName, "a", "b"} |->
                    CASE d = "a" -> a [] d = "b" -> b [] OTHER -> {}]

MCSchemaSets ==
    {[f \in {"common", "report"} |->
        IF f = "common" THEN Common(a, b) ELSE [d \in {RootName} |-> refs]] :
        a \in SUBSET {Inner("b"), Path("common", "b"), Outside},
        b \in SUBSET {Fragment("common", "a"), Path("common", "a")},
        refs \in SUBSET {Fragment("common", "a"), Path("common", "a"), Path("common", "b"),
                         Path("absent", "a"), Inner("a")}}

MCRules == {[id |-> "R1", schema |-> "report"], [id |-> "R2", schema |-> "common"]}
=============================================================================
