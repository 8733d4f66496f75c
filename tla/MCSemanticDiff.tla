----------------------------- MODULE MCSemanticDiff -----------------------------
(***************************************************************************)
(* Documents for SemanticDiff, small enough for TLC and chosen so that     *)
(* what the strategies tell apart is told apart.  In each of the worlds at *)
(* the end the sources of one strategy move and the others rest.           *)
(***************************************************************************)
EXTENDS SemanticDiff, TLC

KeysInOrder ==
    <<"20x", "AC", "AFR", "CCM", "CSX", "OCR", "R1", "R2", "a", "all", "b", "c", "d",
      "$defs", "deep", "properties", "required", "title", "type">>

SomeProfiles ==
    [role : {"Providers"}, class : {"b", "c", Missing}, certType : {"20x", Missing}, path : {Missing}]
    \cup [role : {"Providers"}, class : {"b"}, certType : {"20x"}, path : {"Program", "Agency"}]
    \cup [role : {"Agencies"}, class : {"b"}, certType : {"20x"}, path : {Missing}]

-----------------------------------------------------------------------------
(* Rules: a rule for all types, one that varies by class for 20x, and the *)
(* id of the first again under 20x; more is added by each set.            *)
Leaf(force, statement) == [affects |-> {"Providers"}, force |-> force, statement |-> statement]

Varying(variants) ==
    [varies_by_class |-> [c \in DOMAIN variants |->
        [force |-> variants[c], statement |-> "per class"]]]

(* A variant that states no force. *)
Bare == [affects |-> {"Providers"}, force |-> "MUST", varies_by_class |-> "b" :> [statement |-> "bare"]]

CCM(classes, all, x, twin) ==
    [info |-> [subsets |->
        [OCR |-> [applicability |-> [affects |-> {"Providers"}, classes |-> classes]],
         CSX |-> [applicability |-> [affects |-> {"Providers", "Agencies"}, paths |-> {"Program"}]]]],
     data |-> ("all" :> [OCR |-> ("R1" :> all)]) @@ ("20x" :> ([CSX |-> x] @@ twin))]

RulesDoc(updated, sections) ==
    [substance |-> [version |-> "v1", sections |-> sections], volatile |-> updated]

Known(frr) == [FRD |-> [data |-> <<>>], FRR |-> frr, KSI |-> <<>>, CTL |-> <<>>]

VariantMaps == {"b" :> f : f \in {"SHOULD", "MUST"}}
                 \cup {("b" :> f) @@ ("c" :> g) : f, g \in {"SHOULD", "MUST"}}

RulesDocs ==
    {RulesDoc("mon", Known([CCM |-> CCM(classes, all, x, twin)])) :
        classes \in {{"b"}, {"b", "c"}},
        all \in {Leaf("SHOULD", "old"), Leaf("MUST", "old"), Leaf("MUST", "new")},
        x \in {"R2" :> Varying(v) : v \in VariantMaps} \cup {"R2" :> Bare, "R2" :> Leaf("MUST", "own")},
        twin \in {<<>>}}
    \cup
    {RulesDoc("mon", Known([CCM |-> CCM({"b"}, all, <<>>, twin)])) :
        all \in {Leaf("SHOULD", "old"), Leaf("MUST", "old")},
        twin \in {[OCR |-> "R1" :> Leaf(f, "x")] : f \in {"SHOULD", "MUST"}}}

-----------------------------------------------------------------------------
(* 800-53: AC-1 with an enhancement, AC-2 in a nested group. *)
Ctl(c, e)   == [form |-> "ctl", control |-> c, enhancement |-> e]
Catalogued(c, e) == [form |-> "oscal", control |-> c, enhancement |-> e]

Control(c, e, title, inner) == [id |-> Catalogued(c, e), title |-> title, controls |-> inner]

CatalogDoc(version, one, inner, two) ==
    [substance |->
        [version |-> version,
         catalog |-> [groups |->
            <<[id       |-> "ac",
               groups   |-> <<[controls |-> two]>>,
               controls |-> <<Control(1, 0, one, inner)>>]>>]],
     volatile |-> "uuid"]

Titles == {"old", "new"}

OscalDocs ==
    {CatalogDoc("5.2", one, inner, two) :
        one \in Titles,
        inner \in {<<>>} \cup {<<Control(1, 1, t, <<>>)>> : t \in Titles},
        two \in {<<>>} \cup {<<Control(2, 0, t, <<>>)>> : t \in Titles}}
    \cup {CatalogDoc("5.3", "old", <<>>, <<>>), CatalogDoc("5.2", "old", <<>>, <<Control(1, 0, "new", <<>>)>>)}

ReferencingDoc(ctl, ksi) ==
    RulesDoc("mon",
        [FRD |-> [data |-> <<>>], FRR |-> <<>>,
         KSI |-> [AFR |-> [indicators |-> [I1 |-> [controls |-> ksi]]]],
         CTL |-> [AC |-> [id \in ctl |-> "guidance"]]])

ReferencingDocs ==
    {ReferencingDoc({}, {}), ReferencingDoc({Ctl(1, 1)}, {}), ReferencingDoc({}, {Catalogued(2, 0)}),
     ReferencingDoc({Ctl(2, 0)}, {Catalogued(1, 1)}), ReferencingDoc({Ctl(1, 0)}, {})}

-----------------------------------------------------------------------------
(* KEV: lists of up to two entries, in either order, some without an id. *)
Entry(cve, due) == [cveID |-> cve, dueDate |-> due]
NoId == [product |-> "unlisted"]

KevLists ==
    {<<>>, <<NoId>>}
    \cup {<<Entry(c, d)>> : c \in {"c1", "c2"}, d \in {"jan", "feb"}}
    \cup {<<Entry("c1", d), Entry("c2", e)>> : d, e \in {"jan", "feb"}}
    \cup {<<Entry("c2", "jan"), Entry("c1", "jan")>>, <<Entry("c1", "jan"), NoId>>,
          <<Entry("c1", "jan"), Entry("c1", "feb")>>}

KevDoc(version, list, released) ==
    [substance |-> [catalogVersion |-> version, vulnerabilities |-> list], volatile |-> released]

KevDocs == {KevDoc("v1", list, day) : list \in KevLists, day \in {"mon", "tue"}}

-----------------------------------------------------------------------------
(* Marketplace: products, mapping rows and an object of metrics. *)
Product(id, status, reuse) == [id |-> id, status |-> status, reuse |-> reuse]
Row(agency) == [id |-> "AG", agency |-> agency]

MarketDoc(products, mapping, ready) ==
    [substance |->
        [Products |-> [rows |-> products], ReuseMapping |-> [rows |-> mapping],
         Metrics |-> [fields |-> [ready |-> ready]]],
     volatile |-> "mon"]

ProductLists ==
    {<<>>} \cup {<<Product("F1", s, r)>> : s \in {"Ready", "Authorized"}, r \in {1, 2}}
    \cup {<<Product("F1", "Ready", 1), Product(i, s, 1)>> :
             i \in {"F2"}, s \in {"Ready", "Authorized"}}

MappingLists ==
    {<<>>, <<Row(1)>>, <<Row(1), Row(1)>>, <<Row(1), Row(2)>>, <<Row(2), Row(1)>>, <<Row(1), Row(2), Row(1)>>}

(* Products without an id, as an object, and not there. *)
OddMarketDocs ==
    {MarketDoc(<<[status |-> "Ready"]>>, <<>>, 1),
     [substance |-> [Products |-> [fields |-> <<>>], Metrics |-> [fields |-> [ready |-> 1]]],
      volatile |-> "mon"],
     [substance |-> [Metrics |-> [fields |-> [ready |-> 1]]], volatile |-> "mon"]}

MarketDocs == {MarketDoc(p, m, 1) : p \in ProductLists, m \in MappingLists} \cup OddMarketDocs

-----------------------------------------------------------------------------
(* Schemas: files whose objects nest two deep. *)
Scalar(v)  == [scalar |-> v]
Object(ms) == [members |-> ms]

Inner == {Object("type" :> Scalar(v)) : v \in {"string", "object"}}
           \cup {Scalar("true"), Object(("type" :> Scalar("string")) @@ ("deep" :> Scalar("x")))}

Files ==
    {Object(p @@ r) :
        p \in {"properties" :> Object("a" :> i) : i \in Inner}
              \cup {"properties" :> Object(("a" :> i) @@ ("b" :> Scalar("true"))) : i \in Inner},
        r \in {"title" :> Scalar("t"), "required" :> Scalar("a"), "required" :> Scalar("a, b")}}

SchemaDoc(files) == [substance |-> files, volatile |-> "none"]

SchemaDocs ==
    {SchemaDoc("f1" :> file) : file \in Files} \cup
    {SchemaDoc(("f1" :> (CHOOSE f \in Files : TRUE)) @@ ("f2" :> Scalar("x")))}

-----------------------------------------------------------------------------
SourceNames == {"rules", "oscal", "kev", "marketplace", "schemas"}

Rest ==
    ("rules" :> {ReferencingDoc({}, {})}) @@ ("oscal" :> {CatalogDoc("5.2", "old", <<>>, <<>>)})
    @@ ("kev" :> {KevDoc("v1", <<>>, "mon")}) @@ ("marketplace" :> {MarketDoc(<<>>, <<>>, 1)})
    @@ ("schemas" :> {SchemaDoc(<<>>)})

Worlds ==
    {("rules" :> RulesDocs) @@ Rest,
     ("rules" :> ReferencingDocs) @@ ("oscal" :> OscalDocs) @@ Rest,
     ("kev" :> KevDocs) @@ Rest,
     ("marketplace" :> MarketDocs) @@ Rest,
     ("schemas" :> SchemaDocs) @@ Rest}
=============================================================================
