------------------------------ MODULE Severities ------------------------------
(***************************************************************************)
(* severity.rs: how loud a change is.  The derived order of the enum is    *)
(* the order of these numbers.                                             *)
(***************************************************************************)
EXTENDS Integers

None     == 0
Metadata == 1
Routine  == 2
Minor    == 3
Major    == 4

Severity == None..Major
=============================================================================
