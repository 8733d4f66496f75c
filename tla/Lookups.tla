-------------------------------- MODULE Lookups --------------------------------
(***************************************************************************)
(* What a session answers from one signed bundle (src/src/mcp.rs call and  *)
(* its tools, src/src/lib.rs run_control and run_kev, src/src/diff/kev.rs  *)
(* governing_rules).  How the bundle is loaded is in Readers.              *)
(*                                                                         *)
(* A text is the set of phrases in it, written alike; an answer keeps the  *)
(* paths, leaves and ids it hands out.  The order of the leaves is left    *)
(* open, so a search that stops early may give any of its matches.         *)
(***************************************************************************)
EXTENDS Naturals, Sequences, FiniteSets

CONSTANTS
    Bundles,         \* bundles that may be signed: rules, oscal and kev, or some of them
    Profiles, Forces, Phrases, Limits, AskedControls, Cves,  \* what is asked for
    MaxDepth,        \* how deep the catalog nests
    KeyOrder,        \* the keys of all objects, in the order they are iterated
    Missing          \* a key an object does not have, an option not given

RD == INSTANCE RulesDiff
OB == INSTANCE Obligations WITH NoText <- {}
OD == INSTANCE OscalDiff
KD == INSTANCE KevDiff

(* The variants of a rule are keyed by class, and Missing is no key. *)
ASSUME LookupsAssumption ==
    LET Keys == {KeyOrder[i] : i \in DOMAIN KeyOrder}
        Within(sections) ==
            \A at \in OB!Rules(sections) :
                "varies_by_class" \in DOMAIN OB!Leaf(sections, at)
                  => DOMAIN OB!Leaf(sections, at)["varies_by_class"] \subseteq Keys
    IN  /\ KeyOrder \in Seq(Keys) /\ Missing \notin Keys
        /\ \A b \in Bundles : Within(b["rules"].substance.sections)

VARIABLES
    bundle,  \* the bundle of the session
    answer   \* the last answer

vars == <<bundle, answer>>

Error == [tool |-> "error"]

Sections == bundle["rules"].substance.sections
Leaves   == RD!Flatten(Sections)

(* The last segment of a path; a control's id is never that of a rule. *)
IdOf(path) == <<path[1] = "CTL", path[Len(path)]>>
RuleId(id) == <<FALSE, id>>

-----------------------------------------------------------------------------
Selected(profile, force) ==
    {o \in OB!Select(Sections, profile) : force \in {Missing, o.terms.force}}

(* fedramp_obligations: a selection, filtered. *)
Obligations(profile, force, bindingOnly) ==
    answer' = [tool |-> "obligations",
               list |-> {o \in Selected(profile, force) :
                            bindingOnly => o.terms.force \in OB!Binding}]

(* run_obligations, from the signed rules. *)
RunObligations(profile, force, withSchema) ==
    answer' = [tool |-> "obligations",
               list |-> {o \in Selected(profile, force) : withSchema => o.schema # Missing}]

(* Mutant of Matches: only rules are looked through. *)
MatchesOfFrr(id) == {path \in DOMAIN Leaves : path[1] = "FRR" /\ IdOf(path) = id}

Matches(id) == {path \in DOMAIN Leaves : IdOf(path) = id}

(* fedramp_rule: every leaf of the id, or an error. *)
Rule(id) ==
    answer' = IF Matches(id) = {} THEN Error
              ELSE [tool |-> "rule", id |-> id,
                    matches |-> LET leaves == Leaves
                                IN  {[path |-> p, leaf |-> leaves[p]] : p \in Matches(id)}]

OwnText(leaf) == IF "statement" \in DOMAIN leaf THEN leaf["statement"] ELSE {}

VariantTexts(leaf) ==
    LET variants == OB!Child(leaf, "varies_by_class")
    IN  UNION {OwnText(variants[c]) : c \in DOMAIN variants}

(* Mutant of Haystack: the statement of the leaf alone. *)
StatementOnly(leaf) == OwnText(leaf)

(* The whole leaf is searched, the variants of a class among the rest. *)
Haystack(leaf) == OwnText(leaf) \cup VariantTexts(leaf)

(* The loop stops once it has as many hits as the limit. *)
Stops(hits, limit) == Cardinality(hits) >= limit

(* fedramp_search, for a query that is long enough and a limit that is not *)
(* too high: it stops after a leaf, so that a limit of 0 may give one hit, *)
(* that of the first leaf, or none.                                        *)
Search(query, limit) ==
    LET leaves == Leaves
        found  == {path \in DOMAIN leaves : query \in Haystack(leaves[path])}
    IN  \E hits \in SUBSET found :
            /\ hits = found \/ Stops(hits, limit)
            /\ Cardinality(hits) <= IF limit = 0 THEN 1 ELSE limit
            /\ answer' = [tool |-> "search", query |-> query, hits |-> hits,
                          truncated |-> Stops(hits, limit)]

(* fedramp_control: the control in the catalog's own form, FedRAMP's       *)
(* overlay, the first there is, and whether the rules reference it.        *)
(* run_control prints the same but the overlay.                            *)
Control(requested) ==
    LET id       == OD!Normalise(requested)
        controls == OD!FlattenCatalog(bundle["oscal"])
        ctl      == OB!Child(Sections, "CTL")
        overlays == UNION {{<<f, c>> : c \in {d \in DOMAIN ctl[f] : OD!Normalise(d) = id}}
                              : f \in DOMAIN ctl}
    IN  answer' = IF "oscal" \notin DOMAIN bundle \/ id \notin DOMAIN controls THEN Error
                  ELSE [tool |-> "control", id |-> id, requested |-> requested,
                        control |-> controls[id],
                        overlay |-> IF overlays = {} THEN Missing
                                    ELSE CHOOSE overlay \in overlays : TRUE,
                        referenced |-> id \in OD!Referenced(Sections)]

Aliases ==
    LET data == OB!Child(OB!Child(Sections, "FRD"), "data")
        term == OB!Child(OB!Child(data, "all"), "FRD-KEV")
    IN  IF "alts" \in DOMAIN term THEN term["alts"] ELSE {"known exploited vulnerabilit"}

(* Mutant of GoverningRules: every alias has to occur. *)
GoverningByAll ==
    LET leaves == Leaves
        names  == Aliases
    IN  {IdOf(path) : path \in {p \in DOMAIN leaves :
                                   p[1] = "FRR" /\ names \subseteq OwnText(leaves[p])}}

(* governing_rules: rules whose statement names KEV as FedRAMP does.       *)
GoverningRules ==
    LET leaves == Leaves
        names  == Aliases
    IN  {IdOf(path) : path \in {p \in DOMAIN leaves :
                                   p[1] = "FRR" /\ OwnText(leaves[p]) \cap names # {}}}

(* fedramp_kev: whether a CVE is listed, or how many are.                  *)
Kev(cve) ==
    LET entries == KD!FlattenKev(bundle["kev"])
    IN  answer' = IF "kev" \notin DOMAIN bundle THEN Error
                  ELSE IF cve = Missing
                  THEN [tool |-> "summary", count |-> Cardinality(DOMAIN entries),
                        governedBy |-> GoverningRules]
                  ELSE [tool |-> "kev", cve |-> cve, exploited |-> cve \in DOMAIN entries,
                        governedBy |-> GoverningRules]

(* run_kev: the command line refuses what is not listed.                   *)
RunKev(cve) ==
    LET entries == KD!FlattenKev(bundle["kev"])
    IN  answer' = IF "kev" \notin DOMAIN bundle \/ cve \notin DOMAIN entries THEN Error
                  ELSE [tool |-> "kev", cve |-> cve, exploited |-> TRUE,
                        governedBy |-> GoverningRules]

-----------------------------------------------------------------------------
Init == bundle \in Bundles /\ answer = Error

Call ==
    \/ \E p \in Profiles, f \in Forces \cup {Missing}, only \in BOOLEAN :
          Obligations(p, f, only) \/ RunObligations(p, f, only)
    \/ \E path \in DOMAIN Leaves : Rule(IdOf(path))
    \/ Rule(RuleId(Missing))
    \/ \E q \in Phrases, n \in Limits : Search(q, n)
    \/ \E c \in AskedControls : Control(c)
    \/ \E c \in Cves \cup {Missing} : Kev(c)
    \/ \E c \in Cves : RunKev(c)

Next == Call /\ UNCHANGED bundle

Spec == Init /\ [][Next]_vars

-----------------------------------------------------------------------------
(***************************************************************************)
(* Properties.                                                             *)
(***************************************************************************)

CitedIds ==
    CASE answer.tool = "obligations"     -> {RuleId(OB!Id(o)) : o \in answer.list}
      [] answer.tool = "search"          -> {IdOf(path) : path \in answer.hits}
      [] answer.tool \in {"kev", "summary"} -> answer.governedBy
      [] OTHER                           -> {}

(***************************************************************************)
(* An id that any tool hands out to be cited is one that fedramp_rule      *)
(* knows: the leaves it gives for the id include the very leaf that an     *)
(* obligation was resolved from, or that was hit (mcp.rs 3-8; README.md    *)
(* 340: "returning ids to cite").                                          *)
(***************************************************************************)
CitedIdsAreFound ==
    /\ \A id \in CitedIds : Matches(id) # {}
    /\ answer.tool = "obligations" =>
         \A o \in answer.list : <<"FRR">> \o o.at \in Matches(RuleId(OB!Id(o)))
    /\ answer.tool = "search" => \A path \in answer.hits : path \in Matches(IdOf(path))

Bears(phrase, obligation) == phrase \in obligation.terms.statement

(***************************************************************************)
(* A search that does not say it is truncated has missed nothing: every    *)
(* rule whose text, for whatever profile, has the phrase is among its      *)
(* hits (mcp.rs search).                                                   *)
(***************************************************************************)
SearchMissesNothing ==
    answer.tool = "search" /\ ~answer.truncated =>
        \A p \in Profiles : \A o \in OB!Select(Sections, p) :
            Bears(answer.query, o) => <<"FRR">> \o o.at \in answer.hits

(***************************************************************************)
(* A rule without variants that applies to someone and names KEV by any of *)
(* FedRAMP's aliases is among the rules said to govern it (kev.rs 59-60).  *)
(***************************************************************************)
PlainKevRulesGovern ==
    answer.tool \in {"kev", "summary"} =>
        \A p \in Profiles : \A o \in OB!Select(Sections, p) :
            o.terms.class = Missing /\ (\E alias \in Aliases : Bears(alias, o))
              => RuleId(OB!Id(o)) \in answer.governedBy
=============================================================================
