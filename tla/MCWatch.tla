------------------------------- MODULE MCWatch -------------------------------
(***************************************************************************)
(* Finite instances of Watch for TLC.  A text is what the rules say and    *)
(* what the marketplace says: the first is a major matter, the second a    *)
(* routine one, unless a product comes or goes, which is minor.            *)
(***************************************************************************)
EXTENDS Watch

MCTexts == [rules : {1}, market : {"a", "b", "product"}] \cup [rules : {2}, market : {"a"}]

MCGenesis == [rules |-> 0, market |-> "none"]

MCSeverityOf(old, new) ==
    CASE old = new -> "none"
      [] old = MCGenesis -> "major"
      [] OTHER ->
            CASE old.rules # new.rules -> "major"
              [] {old.market, new.market} = {"a", "b"} -> "routine"
              [] OTHER -> "minor"
=============================================================================
