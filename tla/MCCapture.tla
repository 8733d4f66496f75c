----------------------------- MODULE MCCapture ------------------------------
(* Capture with a source of one file and a directory of two. *)
EXTENDS Capture

MCSources == <<"rules", "schemas">>
MCFilesOf == [s \in {"rules", "schemas"} |-> IF s = "rules" THEN {"r"} ELSE {"f", "g"}]
=============================================================================
