------------------------------ MODULE Validator ------------------------------
(***************************************************************************)
(* Validating a package against the signed schemas (src/src/validate.rs    *)
(* and src/src/lib.rs run_validate).                                       *)
(*                                                                         *)
(* The jsonschema library is external: to compile a schema it follows the  *)
(* references the schema reaches, in an order of its own, and asks the     *)
(* retriever for each URI it does not hold; one that does not resolve      *)
(* fails the compilation.  A reference inside a document is looked up in   *)
(* that document, and a document is whatever the retriever returned for    *)
(* its URI.                                                                *)
(*                                                                         *)
(* A schema is the references of its root and of each of its $defs.  Root  *)
(* stands for the name of no definition.  Constraints are left out:        *)
(* whether a package meets them is open.                                   *)
(***************************************************************************)
EXTENDS Naturals, FiniteSets

CONSTANTS
    Files,       \* names of schema files
    Defs, Root,  \* names of definitions, and of none
    Rules,       \* the rule leaves: [id, schema] with the file of schema.url
    SchemaSets   \* bundles: a function from some of Files to schemas

Refs ==
    [form : {"local"}, def : Defs]
    \cup [form : {"fragment", "path"}, file : Files, def : Defs]
    \cup [form : {"outside"}]

ASSUME ValidatorAssumption ==
    \A schemas \in SchemaSets :
        /\ DOMAIN schemas \subseteq Files
        /\ \A f \in DOMAIN schemas :
              /\ Root \in DOMAIN schemas[f] /\ DOMAIN schemas[f] \subseteq Defs \cup {Root}
              /\ \A d \in DOMAIN schemas[f] : schemas[f][d] \subseteq Refs

VARIABLES
    schemas,   \* the signed schemas section
    schema,    \* the schema resolve_name found
    pending,   \* references to follow, each with the place it is found in
    reached,   \* the places compiled so far
    repairs,   \* what the retriever recorded
    status,    \* "naming", "compiling", "failed" or "reported"
    report     \* the report, once there is one

vars == <<schemas, schema, pending, reached, repairs, status, report>>

(* A place is a definition of a file or its root, in a document that is    *)
(* the file, or the definition alone when it was retrieved by its path.    *)
Place(file, def, alone) == [file |-> file, def |-> def, alone |-> alone]

Contents(place) == {[at |-> place, ref |-> r] : r \in schemas[place.file][place.def]}

Enter(place, followed, notes) ==
    /\ reached' = reached \cup {place}
    /\ pending' = (pending \ {followed}) \cup (IF place \in reached THEN {} ELSE Contents(place))
    /\ repairs' = repairs \cup notes
    /\ UNCHANGED <<schemas, schema, status, report>>

(* resolve_name: the schema asked for, or the one the package declares. *)
ResolveName(named) ==
    /\ status = "naming"
    /\ named \in DOMAIN schemas
    /\ schema' = named
    /\ status' = "compiling"
    /\ reached' = {Place(named, Root, FALSE)}
    /\ pending' = Contents(Place(named, Root, FALSE))
    /\ UNCHANGED <<schemas, repairs, report>>

Failure ==
    /\ status' = "failed"
    /\ UNCHANGED <<schemas, schema, pending, reached, repairs, report>>

UnknownName(named) ==
    /\ status = "naming"
    /\ named \notin DOMAIN schemas
    /\ Failure

(* `#/$defs/name`, in the document it is written in. *)
Local(p) ==
    /\ p.ref.form = "local"
    /\ ~p.at.alone /\ p.ref.def \in DOMAIN schemas[p.at.file]
    /\ Enter(Place(p.at.file, p.ref.def, FALSE), p, {})

Holds(ref) == ref.file \in DOMAIN schemas /\ ref.def \in DOMAIN schemas[ref.file]

(* Mutant of Retrieve: a repair is noted once for a file. *)
RetrieveOnce(ref) ==
    [alone |-> ref.form = "path",
     notes |-> IF ref.form = "path" /\ \A note \in repairs : note.file # ref.file
               THEN {[file |-> ref.file, def |-> ref.def]} ELSE {}]

(* Mutant of Retrieve: a fragment is a document of its own, too. *)
RetrieveAlone(ref) ==
    [alone |-> TRUE,
     notes |-> IF ref.form = "path" THEN {[file |-> ref.file, def |-> ref.def]} ELSE {}]

(* retrieve: the whole file, or for the path form the definition alone,    *)
(* under the URI it was asked for, and a note of the repair.               *)
Retrieve(ref) ==
    [alone |-> ref.form = "path",
     notes |-> IF ref.form = "path" THEN {[file |-> ref.file, def |-> ref.def]} ELSE {}]

Remote(p) ==
    /\ p.ref.form \in {"fragment", "path"}
    /\ Holds(p.ref)
    /\ Enter(Place(p.ref.file, p.ref.def, Retrieve(p.ref).alone), p, Retrieve(p.ref).notes)

Unresolved(p) ==
    \/ p.ref.form = "outside"
    \/ p.ref.form \in {"fragment", "path"} /\ ~Holds(p.ref)
    \/ p.ref.form = "local" /\ (p.at.alone \/ p.ref.def \notin DOMAIN schemas[p.at.file])

Unresolvable(p) == Unresolved(p) /\ Failure

(* Follow one of the pending references. *)
Follow ==
    /\ status = "compiling"
    /\ \E p \in pending : Local(p) \/ Remote(p) \/ Unresolvable(p)

(* binding_rules: the rules whose schema.url ends in the file's name. *)
BindingRules == {rule.id : rule \in {r \in Rules : r.schema = schema}}

(* validate: the findings are whatever the package gives. *)
Report(valid) ==
    /\ status = "compiling" /\ pending = {}
    /\ report' = {[schema |-> schema, valid |-> valid, repairs |-> repairs,
                   requiredBy |-> BindingRules]}
    /\ status' = "reported"
    /\ UNCHANGED <<schemas, schema, pending, reached, repairs>>

(* Left alone when it has reported or failed. *)
Ended == status \in {"reported", "failed"} /\ UNCHANGED vars

Init ==
    /\ schemas \in SchemaSets
    /\ schema \in Files
    /\ pending = {} /\ reached = {} /\ repairs = {}
    /\ status = "naming" /\ report = {}

Next ==
    \/ ResolveName(schema) \/ UnknownName(schema)
    \/ Follow
    \/ \E valid \in BOOLEAN : Report(valid)
    \/ Ended

Spec == Init /\ [][Next]_vars

-----------------------------------------------------------------------------
(***************************************************************************)
(* Properties.                                                             *)
(***************************************************************************)

(* What the published schemas evidently mean: the path form is a fragment. *)
Means(place, ref) ==
    [file |-> IF ref.form = "local" THEN place.file ELSE ref.file, def |-> ref.def]

Exists(place) == place.file \in DOMAIN schemas /\ place.def \in DOMAIN schemas[place.file]

RefsOf(place) == IF Exists(place) THEN schemas[place.file][place.def] ELSE {}

LedTo(place) == {Means(place, ref) : ref \in {r \in RefsOf(place) : r.form # "outside"}}

Places == [file : Files, def : Defs \cup {Root}]

(* A set of places with the root, and with all that its places lead to. *)
Closed(places) ==
    /\ [file |-> schema, def |-> Root] \in places
    /\ \A place \in places : LedTo(place) \subseteq places

(* The places the schema leads to: those in every such set. *)
Closure ==
    LET closed == {places \in SUBSET Places : Closed(places)}
    IN  {place \in Places : \A places \in closed : place \in places}

(* Everything it leads to is there, and in the signed set. *)
Sound ==
    \A place \in Closure :
        Exists(place) /\ \A ref \in RefsOf(place) : ref.form # "outside"

(***************************************************************************)
(* In whatever order references are followed, a verdict is over signed     *)
(* schemas alone, with nothing the schema leads to left out, and the       *)
(* report lists exactly the references in path form that were followed,    *)
(* each once (validate.rs 3-15, the retriever).                            *)
(***************************************************************************)
ReportsEveryRepair ==
    \A r \in report :
        /\ Sound
        /\ r.repairs = UNION {{[file |-> ref.file, def |-> ref.def] :
                                  ref \in {f \in RefsOf(place) : f.form = "path"}} : place \in Closure}

(* A definition asked for by its path that refers to its neighbours.       *)
CutOff ==
    \E place \in Closure : \E r \in RefsOf(place) :
        r.form = "path" /\ \E inner \in RefsOf(Means(place, r)) : inner.form = "local"

(***************************************************************************)
(* A schema that has a meaning offline compiles, whatever refers to what   *)
(* and in whatever order it is followed: validate.rs 121 treats a path "as *)
(* the fragment it evidently means".  Only a definition asked for by its   *)
(* path that refers to its neighbours does not: it is returned without     *)
(* the `$defs` around it.                                                  *)
(***************************************************************************)
SoundSchemasCompile ==
    status = "failed" /\ schema \in DOMAIN schemas => ~Sound \/ CutOff
=============================================================================
