------------------------------ MODULE Obligations ------------------------------
(***************************************************************************)
(* obligations.rs: which rules of a rules document apply to a profile, and *)
(* what changed for it between two documents.  sections is the document's  *)
(* substance.sections of RulesDiff.  The case of roles, classes, types and *)
(* paths is folded by the code when it compares them; here they are        *)
(* written alike.  A profile's class, certType or path is Missing when it  *)
(* is not given.  Names are left out of an obligation.                     *)
(***************************************************************************)
EXTENDS Diff

CONSTANTS
    KeyOrder,  \* the keys of all objects, in the order they are iterated
    NoText     \* the empty statement

Place(key) == CHOOSE i \in DOMAIN KeyOrder : KeyOrder[i] = key

Binding == {"MUST", "MUST NOT"}

ForceRank(force) ==
    CASE force \in Binding                   -> 4
      [] force \in {"SHOULD", "SHOULD NOT"}  -> 3
      [] force = "MAY"                       -> 2
      [] force = Missing                     -> 0
      [] OTHER                               -> 1

(* What is not said does not constrain: an absent list admits everything. *)
Admits(body, list, wanted) ==
    wanted = Missing \/ list \notin DOMAIN body \/ wanted \in body[list]

TypeMatches(certType, profile) == profile.certType \in {Missing, certType} \/ certType = "all"

(* The rule's own affects wins over that of its subset. *)
RoleMatches(leaf, applicability, role) ==
    IF "affects" \in DOMAIN leaf THEN Admits(leaf, "affects", role)
    ELSE Admits(applicability, "affects", role)

(* The terms of an obligation, from the rule or from one of its variants. *)
Fill(source, class) ==
    [force     |-> IF "force" \in DOMAIN source THEN source["force"] ELSE "UNSPECIFIED",
     statement |-> IF "statement" \in DOMAIN source THEN source["statement"] ELSE NoText,
     class     |-> class,
     timeframe |-> Get(source, "timeframe")]

(* Mutant of Strictest: the first class that has a variant stands for all. *)
FirstVariant(variants) ==
    CHOOSE c \in DOMAIN variants : \A d \in DOMAIN variants : Place(c) <= Place(d)

(* max_by_key: of the variants with the greatest force, the last class. *)
Strictest(variants) ==
    LET rank(c) == ForceRank(Get(variants[c], "force"))
    IN  CHOOSE c \in DOMAIN variants :
            \A d \in DOMAIN variants :
                rank(d) < rank(c) \/ (rank(d) = rank(c) /\ Place(d) <= Place(c))

(***************************************************************************)
(* resolve: the variant of the class is authoritative; without a class,    *)
(* the strictest variant; without variants, the subset's classes decide.   *)
(* The set of terms is empty or a singleton.                               *)
(***************************************************************************)
Resolve(leaf, applicability, profile) ==
    IF "varies_by_class" \in DOMAIN leaf
    THEN LET variants == leaf["varies_by_class"]
             classes  == IF profile.class # Missing THEN {profile.class} \cap DOMAIN variants
                         ELSE IF DOMAIN variants = {} THEN {} ELSE {Strictest(variants)}
         IN  {Fill(variants[c], c) : c \in classes}
    ELSE IF Admits(applicability, "classes", profile.class) THEN {Fill(leaf, Missing)}
    ELSE {}

Applicability(family, subset) ==
    Child(Child(Child(Child(family, "info"), "subsets"), subset), "applicability")

(* The places of the FRR section: <<family, type, subset, id>>. *)
Rules(sections) ==
    LET frr     == Child(sections, "FRR")
        data(f) == Child(frr[f], "data")
    IN  UNION {UNION {UNION {{<<f, t, s, id>> : id \in DOMAIN data(f)[t][s]}
                                : s \in DOMAIN data(f)[t]}
                         : t \in DOMAIN data(f)}
                  : f \in DOMAIN frr}

Leaf(sections, at) == sections["FRR"][at[1]]["data"][at[2]][at[3]][at[4]]

(* select: what each place obliges the profile to, where it does. *)
Select(sections, profile) ==
    UNION {LET leaf    == Leaf(sections, at)
               applies == Applicability(sections["FRR"][at[1]], at[3])
           IN  IF /\ TypeMatches(at[2], profile)
                  /\ Admits(applies, "paths", profile.path)
                  /\ RoleMatches(leaf, applies, profile.role)
               THEN {[at |-> at, schema |-> Get(leaf, "schema"), terms |-> terms] :
                        terms \in Resolve(leaf, applies, profile)}
               ELSE {}
           : at \in Rules(sections)}

-----------------------------------------------------------------------------
(***************************************************************************)
(* delta: both selections indexed by rule id, then compared.               *)
(***************************************************************************)
Id(obligation) == obligation.at[4]

Later(o, p) ==
    \E i \in 1..3 : /\ Place(o.at[i]) > Place(p.at[i])
                    /\ \A j \in 1..(i - 1) : o.at[j] = p.at[j]

(* collect() into a map by id keeps the last one selected. *)
Index(sections, profile) ==
    LET selected == Select(sections, profile)
        Same(id) == {o \in selected : Id(o) = id}
    IN  [id \in {Id(o) : o \in selected} |->
            CHOOSE o \in Same(id) : \A p \in Same(id) \ {o} : Later(o, p)]

(* Mutant of Changes: a reworded rule is not a change. *)
ForceChanges(old, new) ==
    {[id |-> id, field |-> "force", from |-> old[id].terms.force, to |-> new[id].terms.force]
        : id \in {i \in DOMAIN old \cap DOMAIN new : old[i].terms.force # new[i].terms.force}}

Changes(old, new) ==
    {c \in {[id |-> id, field |-> field, from |-> old[id].terms[field], to |-> new[id].terms[field]]
              : id \in DOMAIN old \cap DOMAIN new, field \in {"force", "statement"}} :
        c.from # c.to}

Delta(before, after, profile) ==
    LET old == Index(before, profile)
        new == Index(after, profile)
    IN  [added   |-> {new[id] : id \in DOMAIN new \ DOMAIN old},
         removed |-> {old[id] : id \in DOMAIN old \ DOMAIN new},
         changed |-> Changes(old, new)]

DeltaIsEmpty(delta) == delta.added = {} /\ delta.removed = {} /\ delta.changed = {}

(* binding_shifts: changes of force that make a rule binding or stop it. *)
BindingShifts(delta) ==
    {c \in delta.changed : c.field = "force" /\ (c.from \in Binding) # (c.to \in Binding)}

-----------------------------------------------------------------------------
(***************************************************************************)
(* report.rs: whom a change of the rules lands on.                         *)
(***************************************************************************)
Anyone(roles) ==
    [role : roles, class : {Missing}, certType : {Missing}, path : {Missing}]

Classes == {"a", "b", "c", "d"}

Providers(types) ==
    [role : {"Providers"}, class : Classes, certType : types, path : {Missing}]

(* Mutant of DefaultProfiles: providers of one certification type. *)
Rev5Profiles == Providers({"rev5"}) \cup Anyone({"Agencies", "Assessors", "Advisors"})

DefaultProfiles ==
    Providers({"20x", "rev5"}) \cup Anyone({"Agencies", "Assessors", "Advisors"})

(* obligation_impact: a row for each profile whose delta is not empty, with *)
(* what it counts in place of the counts.                                  *)
Impact(before, after) ==
    {[profile |-> p, delta |-> Delta(before, after, p),
      shifts  |-> BindingShifts(Delta(before, after, p))]
       : p \in {q \in DefaultProfiles : ~DeltaIsEmpty(Delta(before, after, q))}}
=============================================================================
