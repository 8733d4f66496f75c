--------------------------- MODULE SemanticDiffProofs ---------------------------
(***************************************************************************)
(* Proofs about SemanticDiff, for all documents of the shape that the      *)
(* strategies read, every profile and any other source.                    *)
(***************************************************************************)
EXTENDS SemanticDiff, SequenceTheorems, FiniteSetTheorems, WellFoundedInduction, TLAPS

-----------------------------------------------------------------------------
(* Rules as the selection finds them and as flatten names them.            *)

(* A place of the FRR section has a family, a type, a subset and an id. *)
LEMMA RulePlaces ==
  ASSUME NEW sections, NEW at \in OB!Rules(sections)
  PROVE  /\ "FRR" \in DOMAIN sections
         /\ at[1] \in DOMAIN sections["FRR"]
         /\ at[2] \in DOMAIN RD!Child(sections["FRR"][at[1]], "data")
         /\ at[3] \in DOMAIN RD!Child(sections["FRR"][at[1]], "data")[at[2]]
         /\ at[4] \in DOMAIN RD!Child(sections["FRR"][at[1]], "data")[at[2]][at[3]]
         /\ at = <<at[1], at[2], at[3], at[4]>>
         /\ OB!Leaf(sections, at)
              = RD!Child(sections["FRR"][at[1]], "data")[at[2]][at[3]][at[4]]
<1>1. "FRR" \in DOMAIN sections
  BY DEF OB!Rules, OB!Child
<1>2. PICK f \in DOMAIN sections["FRR"] :
        \E t \in DOMAIN OB!Child(sections["FRR"][f], "data") :
          \E s \in DOMAIN OB!Child(sections["FRR"][f], "data")[t] :
            \E id \in DOMAIN OB!Child(sections["FRR"][f], "data")[t][s] : at = <<f, t, s, id>>
  BY <1>1 DEF OB!Rules, OB!Child
<1>3. OB!Child(sections["FRR"][f], "data") = RD!Child(sections["FRR"][f], "data")
  BY DEF OB!Child, RD!Child
<1>4. "data" \in DOMAIN sections["FRR"][f]
  BY <1>2 DEF OB!Child
<1> QED
  BY <1>1, <1>2, <1>3, <1>4 DEF OB!Leaf, RD!Child

(* How paths are put together. *)
LEMMA PairPath ==
  ASSUME NEW a, NEW b
  PROVE  Append(<<a>>, b) = <<a, b>>
<1> DEFINE S == {a, b}
<1>1. <<a>> \in Seq(S) /\ b \in S /\ <<a, b>> \in Seq(S)
  OBVIOUS
<1>2. Len(<<a>>) = 1 /\ Len(<<a, b>>) = 2
  OBVIOUS
<1> HIDE DEF S
<1>3. /\ Append(<<a>>, b) \in Seq(S) /\ Len(Append(<<a>>, b)) = 2
      /\ \A i \in 1..1 : Append(<<a>>, b)[i] = <<a>>[i]
      /\ Append(<<a>>, b)[2] = b
  BY <1>1, <1>2, AppendProperties
<1>4. \A i \in 1..2 : Append(<<a>>, b)[i] = <<a, b>>[i]
  BY <1>3
<1> QED BY <1>1, <1>2, <1>3, <1>4, SeqEqual

LEMMA LeafPath ==
  ASSUME NEW a, NEW b, NEW c
  PROVE  Append(<<a, b>>, c) = <<a, b, c>>
<1> DEFINE S == {a, b, c}
<1>1. <<a, b>> \in Seq(S) /\ c \in S /\ <<a, b, c>> \in Seq(S)
  OBVIOUS
<1>2. Len(<<a, b>>) = 2 /\ Len(<<a, b, c>>) = 3
  OBVIOUS
<1> HIDE DEF S
<1>3. /\ Append(<<a, b>>, c) \in Seq(S) /\ Len(Append(<<a, b>>, c)) = 3
      /\ \A i \in 1..2 : Append(<<a, b>>, c)[i] = <<a, b>>[i]
      /\ Append(<<a, b>>, c)[3] = c
  BY <1>1, <1>2, AppendProperties
<1>4. \A i \in 1..3 : Append(<<a, b>>, c)[i] = <<a, b, c>>[i]
  BY <1>3
<1> QED BY <1>1, <1>2, <1>3, <1>4, SeqEqual

LEMMA RulePath ==
  ASSUME NEW a, NEW b, NEW c, NEW d, NEW e
  PROVE  Append(<<a, b, c, d>>, e) = <<a, b, c, d, e>>
<1> DEFINE S == {a, b, c, d, e}
<1>1. <<a, b, c, d>> \in Seq(S) /\ e \in S /\ <<a, b, c, d, e>> \in Seq(S)
  OBVIOUS
<1>2. Len(<<a, b, c, d>>) = 4 /\ Len(<<a, b, c, d, e>>) = 5
  OBVIOUS
<1> HIDE DEF S
<1>3. /\ Append(<<a, b, c, d>>, e) \in Seq(S) /\ Len(Append(<<a, b, c, d>>, e)) = 5
      /\ \A i \in 1..4 : Append(<<a, b, c, d>>, e)[i] = <<a, b, c, d>>[i]
      /\ Append(<<a, b, c, d>>, e)[5] = e
  BY <1>1, <1>2, AppendProperties
<1>4. \A i \in 1..5 : Append(<<a, b, c, d>>, e)[i] = <<a, b, c, d, e>>[i]
  BY <1>3
<1> QED BY <1>1, <1>2, <1>3, <1>4, SeqEqual

LEMMA PlacePath ==
  ASSUME NEW a, NEW b, NEW c, NEW d, NEW e
  PROVE  <<a>> \o <<b, c, d, e>> = <<a, b, c, d, e>>
<1> DEFINE S == {a, b, c, d, e}
<1>1. <<a>> \in Seq(S) /\ <<b, c, d, e>> \in Seq(S) /\ <<a, b, c, d, e>> \in Seq(S)
  OBVIOUS
<1>2. Len(<<a>>) = 1 /\ Len(<<b, c, d, e>>) = 4 /\ Len(<<a, b, c, d, e>>) = 5
  OBVIOUS
<1> HIDE DEF S
<1>3. /\ <<a>> \o <<b, c, d, e>> \in Seq(S) /\ Len(<<a>> \o <<b, c, d, e>>) = 5
      /\ \A i \in 1..5 : (<<a>> \o <<b, c, d, e>>)[i]
                            = IF i <= 1 THEN <<a>>[i] ELSE <<b, c, d, e>>[i - 1]
  BY <1>1, <1>2, ConcatProperties
<1>4. \A i \in 1..5 : (<<a>> \o <<b, c, d, e>>)[i] = <<a, b, c, d, e>>[i]
  BY <1>3
<1> QED BY <1>1, <1>2, <1>3, <1>4, SeqEqual

(* The leaves of a section other than FRR, told from those of the rules. *)
LEMMA OtherLeaves ==
  ASSUME NEW section, NEW body, section # "FRR",
         NEW leaf \in RD!FlattenSection(section, body)
  PROVE  \/ Len(leaf[1]) = 1
         \/ /\ Len(leaf[1]) \in {2, 3} /\ leaf[1][1] = section
            /\ section \in {"FRD", "KSI", "CTL"}
<1>1. CASE section = "FRD"
  <2>1. leaf \in RD!FlattenFrd(body)
    BY <1>1 DEF RD!FlattenSection
  <2>2. CASE leaf \in RD!InfoLeaf(<<"FRD">>, body)
    <3>1. leaf[1] = <<"FRD", "info">>
      BY <2>2, PairPath DEF RD!InfoLeaf
    <3> QED BY <1>1, <3>1
  <2>3. CASE leaf \notin RD!InfoLeaf(<<"FRD">>, body)
    <3>1. PICK group \in DOMAIN RD!Child(body, "data") :
             leaf \in RD!Leaves(<<"FRD", group>>, RD!Child(body, "data")[group])
      BY <2>1, <2>3 DEF RD!FlattenFrd
    <3>2. PICK x : leaf[1] = Append(<<"FRD", group>>, x)
      BY <3>1 DEF RD!Leaves
    <3>3. leaf[1] = <<"FRD", group, x>>
      BY <3>2, LeafPath
    <3> QED BY <1>1, <3>3
  <2> QED BY <2>2, <2>3
<1>2. CASE section = "KSI"
  <2>1. PICK g \in DOMAIN body :
           \/ leaf[1] = <<"KSI", g, "info">>
           \/ leaf \in RD!Leaves(<<"KSI", g>>, RD!Child(body[g], "indicators"))
    BY <1>2 DEF RD!FlattenSection, RD!FlattenKsi
  <2>2. CASE leaf[1] = <<"KSI", g, "info">>
    BY <1>2, <2>2
  <2>3. CASE leaf \in RD!Leaves(<<"KSI", g>>, RD!Child(body[g], "indicators"))
    <3>1. PICK x : leaf[1] = Append(<<"KSI", g>>, x)
      BY <2>3 DEF RD!Leaves
    <3>2. leaf[1] = <<"KSI", g, x>>
      BY <3>1, LeafPath
    <3> QED BY <1>2, <3>2
  <2> QED BY <2>1, <2>2, <2>3
<1>3. CASE section = "CTL"
  <2>1. PICK g \in DOMAIN body : leaf \in RD!Leaves(<<"CTL", g>>, body[g])
    BY <1>3 DEF RD!FlattenSection, RD!FlattenCtl
  <2>2. PICK x : leaf[1] = Append(<<"CTL", g>>, x)
    BY <2>1 DEF RD!Leaves
  <2>3. leaf[1] = <<"CTL", g, x>>
    BY <2>2, LeafPath
  <2> QED BY <1>3, <2>3
<1>4. CASE section \notin {"FRD", "KSI", "CTL"}
  <2>1. leaf = <<<<section>>, body>>
    BY <1>4 DEF RD!FlattenSection
  <2> QED BY <2>1
<1> QED BY <1>1, <1>2, <1>3, <1>4

(* The leaf of a rule is at the path of its place. *)
IsRuleLeaf(leaf, sections) ==
    \E at \in OB!Rules(sections) :
        leaf = <<<<"FRR", at[1], at[2], at[3], at[4]>>, OB!Leaf(sections, at)>>

(* The leaf of the info block of a family. *)
IsInfoLeaf(leaf, sections) ==
    \E f \in DOMAIN sections["FRR"] :
        /\ "info" \in DOMAIN sections["FRR"][f]
        /\ leaf = <<<<"FRR", f, "info">>, sections["FRR"][f]["info"]>>

LEMMA RuleLeafIsLeaf ==
  ASSUME NEW sections, NEW at \in OB!Rules(sections)
  PROVE  <<<<"FRR", at[1], at[2], at[3], at[4]>>, OB!Leaf(sections, at)>>
            \in RD!FlattenSection("FRR", sections["FRR"])
<1> DEFINE f == at[1]
           data == RD!Child(sections["FRR"][f], "data")
<1>1. /\ f \in DOMAIN sections["FRR"] /\ at[2] \in DOMAIN data
      /\ at[3] \in DOMAIN data[at[2]] /\ at[4] \in DOMAIN data[at[2]][at[3]]
      /\ OB!Leaf(sections, at) = data[at[2]][at[3]][at[4]]
  BY RulePlaces
<1>2. <<Append(<<"FRR", f, at[2], at[3]>>, at[4]), OB!Leaf(sections, at)>>
         \in RD!Leaves(<<"FRR", f, at[2], at[3]>>, data[at[2]][at[3]])
  BY <1>1 DEF RD!Leaves
<1>3. \A leaf \in RD!Leaves(<<"FRR", f, at[2], at[3]>>, data[at[2]][at[3]]) :
         leaf \in RD!FlattenFrr(sections["FRR"])
  <2> SUFFICES ASSUME NEW leaf \in RD!Leaves(<<"FRR", f, at[2], at[3]>>, data[at[2]][at[3]])
               PROVE  leaf \in RD!FlattenFrr(sections["FRR"])
    OBVIOUS
  <2>1. leaf \in UNION {RD!Leaves(<<"FRR", f, at[2], s>>, data[at[2]][s]) : s \in DOMAIN data[at[2]]}
    BY <1>1
  <2>2. leaf \in UNION {UNION {RD!Leaves(<<"FRR", f, t, s>>, data[t][s]) : s \in DOMAIN data[t]}
                          : t \in DOMAIN data}
    BY <1>1, <2>1
  <2> DEFINE Family(g) ==
               RD!InfoLeaf(<<"FRR", g>>, sections["FRR"][g])
               \cup UNION {UNION {RD!Leaves(<<"FRR", g, t, s>>,
                                            RD!Child(sections["FRR"][g], "data")[t][s])
                                    : s \in DOMAIN RD!Child(sections["FRR"][g], "data")[t]}
                             : t \in DOMAIN RD!Child(sections["FRR"][g], "data")}
  <2>3. RD!FlattenFrr(sections["FRR"]) = UNION {Family(g) : g \in DOMAIN sections["FRR"]}
    BY DEF RD!FlattenFrr
  <2>4. leaf \in Family(f)
    BY <2>2
  <2> HIDE DEF Family
  <2> QED BY <1>1, <2>3, <2>4
<1> QED
  BY <1>2, <1>3, RulePath DEF RD!FlattenSection

LEMMA FrrLeaf ==
  ASSUME NEW sections, "FRR" \in DOMAIN sections,
         NEW leaf \in RD!FlattenSection("FRR", sections["FRR"])
  PROVE  IsRuleLeaf(leaf, sections) \/ IsInfoLeaf(leaf, sections)
<1> DEFINE body == sections["FRR"]
           data(f) == RD!Child(body[f], "data")
<1>1. PICK f \in DOMAIN body :
         \/ leaf \in RD!InfoLeaf(<<"FRR", f>>, body[f])
         \/ leaf \in UNION {UNION {RD!Leaves(<<"FRR", f, t, s>>, data(f)[t][s])
                                     : s \in DOMAIN data(f)[t]}
                              : t \in DOMAIN data(f)}
  BY DEF RD!FlattenSection, RD!FlattenFrr
<1>2. CASE leaf \in RD!InfoLeaf(<<"FRR", f>>, body[f])
  <2>1. "info" \in DOMAIN body[f] /\ leaf = <<Append(<<"FRR", f>>, "info"), body[f]["info"]>>
    BY <1>2 DEF RD!InfoLeaf
  <2> QED BY <2>1, LeafPath DEF IsInfoLeaf
<1>3. CASE leaf \notin RD!InfoLeaf(<<"FRR", f>>, body[f])
  <2>1. PICK t \in DOMAIN data(f) : \E s \in DOMAIN data(f)[t] :
           leaf \in RD!Leaves(<<"FRR", f, t, s>>, data(f)[t][s])
    BY <1>1, <1>3
  <2>2. PICK s \in DOMAIN data(f)[t] : leaf \in RD!Leaves(<<"FRR", f, t, s>>, data(f)[t][s])
    BY <2>1
  <2>3. PICK id \in DOMAIN data(f)[t][s] :
           leaf = <<Append(<<"FRR", f, t, s>>, id), data(f)[t][s][id]>>
    BY <2>2 DEF RD!Leaves
  <2>4. <<f, t, s, id>> \in OB!Rules(sections)
    BY <2>1, <2>2, <2>3 DEF OB!Rules, OB!Child, RD!Child
  <2>5. OB!Leaf(sections, <<f, t, s, id>>) = data(f)[t][s][id]
    BY <2>4, RulePlaces
  <2> QED BY <2>3, <2>4, <2>5, RulePath DEF IsRuleLeaf
<1> QED BY <1>2, <1>3

(* A rule is in the flattened document, at the path of its place; a path   *)
(* of that form is the path of a rule.                                     *)
LEMMA FlattenedRules ==
  ASSUME NEW sections, NEW at \in OB!Rules(sections)
  PROVE  /\ <<"FRR">> \o at \in DOMAIN RD!Flatten(sections)
         /\ RD!Flatten(sections)[<<"FRR">> \o at] = OB!Leaf(sections, at)
<1> DEFINE path   == <<"FRR", at[1], at[2], at[3], at[4]>>
           leaves == UNION {RD!FlattenSection(s, sections[s]) : s \in DOMAIN sections}
<1>1. "FRR" \in DOMAIN sections /\ at = <<at[1], at[2], at[3], at[4]>> /\ <<"FRR">> \o at = path
  <2>1. "FRR" \in DOMAIN sections /\ at = <<at[1], at[2], at[3], at[4]>>
    BY RulePlaces
  <2>2. <<"FRR">> \o <<at[1], at[2], at[3], at[4]>> = path
    BY PlacePath
  <2> QED BY <2>1, <2>2
<1>2. <<path, OB!Leaf(sections, at)>> \in leaves
  BY <1>1, RuleLeafIsLeaf
<1>3. ASSUME NEW leaf \in leaves, leaf[1] = path PROVE leaf[2] = OB!Leaf(sections, at)
  <2>1. PICK s \in DOMAIN sections : leaf \in RD!FlattenSection(s, sections[s])
    OBVIOUS
  <2>2. Len(path) = 5
    OBVIOUS
  <2>3. s = "FRR"
    BY <1>3, <2>1, <2>2, OtherLeaves
  <2>4. IsRuleLeaf(leaf, sections) \/ IsInfoLeaf(leaf, sections)
    BY <2>1, <2>3, FrrLeaf
  <2>5. ~IsInfoLeaf(leaf, sections)
    BY <1>3 DEF IsInfoLeaf
  <2>6. PICK other \in OB!Rules(sections) :
           leaf = <<<<"FRR", other[1], other[2], other[3], other[4]>>, OB!Leaf(sections, other)>>
    BY <2>4, <2>5 DEF IsRuleLeaf
  <2>7. other = <<other[1], other[2], other[3], other[4]>>
    BY RulePlaces
  <2>8. other = at
    BY <1>1, <1>3, <2>6, <2>7
  <2> QED BY <2>6, <2>8
<1>4. RD!Flatten(sections)
        = [p \in {leaf[1] : leaf \in leaves} |-> (CHOOSE leaf \in leaves : leaf[1] = p)[2]]
  BY DEF RD!Flatten
<1> HIDE DEF leaves, path
<1>5. path \in {leaf[1] : leaf \in leaves}
  <2>1. <<path, OB!Leaf(sections, at)>>[1] = path
    OBVIOUS
  <2> QED BY <1>2, <2>1
<1>6. /\ (CHOOSE leaf \in leaves : leaf[1] = path) \in leaves
      /\ (CHOOSE leaf \in leaves : leaf[1] = path)[1] = path
  <2>1. \E leaf \in leaves : leaf[1] = path
    BY <1>5
  <2> QED BY <2>1
<1>7. path \in DOMAIN RD!Flatten(sections)
  BY <1>4, <1>5
<1>8. RD!Flatten(sections)[path] = (CHOOSE leaf \in leaves : leaf[1] = path)[2]
  BY <1>4, <1>5
<1>9. RD!Flatten(sections)[path] = OB!Leaf(sections, at)
  BY <1>3, <1>6, <1>8
<1> QED BY <1>1, <1>7, <1>9

(* A path of the form of a rule's, or of a family's info, is that of one.  *)
LEMMA FlattenedOnlyRules ==
  ASSUME NEW sections, NEW f, NEW t, NEW s, NEW id,
         <<"FRR", f, t, s, id>> \in DOMAIN RD!Flatten(sections)
  PROVE  <<f, t, s, id>> \in OB!Rules(sections)
<1> DEFINE path   == <<"FRR", f, t, s, id>>
           leaves == UNION {RD!FlattenSection(k, sections[k]) : k \in DOMAIN sections}
<1>1. PICK leaf \in leaves : leaf[1] = path
  BY DEF RD!Flatten
<1>2. PICK k \in DOMAIN sections : leaf \in RD!FlattenSection(k, sections[k])
  OBVIOUS
<1>3. Len(path) = 5
  OBVIOUS
<1>4. k = "FRR"
  BY <1>1, <1>2, <1>3, OtherLeaves
<1>5. IsRuleLeaf(leaf, sections) \/ IsInfoLeaf(leaf, sections)
  BY <1>2, <1>4, FrrLeaf
<1>6. ~IsInfoLeaf(leaf, sections)
  BY <1>1 DEF IsInfoLeaf
<1>7. PICK at \in OB!Rules(sections) :
         leaf = <<<<"FRR", at[1], at[2], at[3], at[4]>>, OB!Leaf(sections, at)>>
  BY <1>5, <1>6 DEF IsRuleLeaf
<1>8. at = <<at[1], at[2], at[3], at[4]>>
  BY RulePlaces
<1>9. at = <<f, t, s, id>>
  BY <1>1, <1>7, <1>8
<1> QED BY <1>9

HasInfo(sections, f) ==
    /\ "FRR" \in DOMAIN sections /\ f \in DOMAIN sections["FRR"]
    /\ "info" \in DOMAIN sections["FRR"][f]

LEMMA FlattenedInfo ==
  ASSUME NEW sections, NEW f
  PROVE  /\ <<"FRR", f, "info">> \in DOMAIN RD!Flatten(sections) <=> HasInfo(sections, f)
         /\ HasInfo(sections, f) =>
              RD!Flatten(sections)[<<"FRR", f, "info">>] = sections["FRR"][f]["info"]
<1> DEFINE path   == <<"FRR", f, "info">>
           leaves == UNION {RD!FlattenSection(k, sections[k]) : k \in DOMAIN sections}
<1>1. ASSUME NEW leaf \in leaves, leaf[1] = path
      PROVE  HasInfo(sections, f) /\ leaf[2] = sections["FRR"][f]["info"]
  <2>1. PICK k \in DOMAIN sections : leaf \in RD!FlattenSection(k, sections[k])
    OBVIOUS
  <2>2. Len(path) = 3 /\ path[1] = "FRR"
    OBVIOUS
  <2>3. k = "FRR"
    BY <1>1, <2>1, <2>2, OtherLeaves
  <2>4. IsRuleLeaf(leaf, sections) \/ IsInfoLeaf(leaf, sections)
    BY <2>1, <2>3, FrrLeaf
  <2>5. ~IsRuleLeaf(leaf, sections)
    BY <1>1 DEF IsRuleLeaf
  <2>6. PICK g \in DOMAIN sections["FRR"] :
           /\ "info" \in DOMAIN sections["FRR"][g]
           /\ leaf = <<<<"FRR", g, "info">>, sections["FRR"][g]["info"]>>
    BY <2>4, <2>5 DEF IsInfoLeaf
  <2>7. g = f
    BY <1>1, <2>6
  <2> QED BY <2>1, <2>3, <2>6, <2>7 DEF HasInfo
<1>2. ASSUME HasInfo(sections, f)
      PROVE  <<path, sections["FRR"][f]["info"]>> \in leaves
  <2>1. <<path, sections["FRR"][f]["info"]>> \in RD!InfoLeaf(<<"FRR", f>>, sections["FRR"][f])
    BY <1>2, LeafPath DEF HasInfo, RD!InfoLeaf
  <2> DEFINE Rest(g) ==
               UNION {UNION {RD!Leaves(<<"FRR", g, t, s>>,
                                       RD!Child(sections["FRR"][g], "data")[t][s])
                               : s \in DOMAIN RD!Child(sections["FRR"][g], "data")[t]}
                        : t \in DOMAIN RD!Child(sections["FRR"][g], "data")}
             Family(g) == RD!InfoLeaf(<<"FRR", g>>, sections["FRR"][g]) \cup Rest(g)
  <2>2. RD!FlattenFrr(sections["FRR"]) = UNION {Family(g) : g \in DOMAIN sections["FRR"]}
    BY DEF RD!FlattenFrr
  <2> HIDE DEF Rest
  <2>3. <<path, sections["FRR"][f]["info"]>> \in RD!FlattenFrr(sections["FRR"])
    BY <1>2, <2>1, <2>2 DEF HasInfo
  <2>4. <<path, sections["FRR"][f]["info"]>> \in RD!FlattenSection("FRR", sections["FRR"])
    BY <2>3 DEF RD!FlattenSection
  <2> QED BY <1>2, <2>4 DEF HasInfo
<1>3. RD!Flatten(sections)
        = [p \in {leaf[1] : leaf \in leaves} |-> (CHOOSE leaf \in leaves : leaf[1] = p)[2]]
  BY DEF RD!Flatten
<1> HIDE DEF leaves, path
<1>4. path \in DOMAIN RD!Flatten(sections) <=> \E leaf \in leaves : leaf[1] = path
  BY <1>3
<1>5. HasInfo(sections, f) => \E leaf \in leaves : leaf[1] = path
  <2>1. \A x : <<path, x>>[1] = path
    OBVIOUS
  <2> QED BY <1>2, <2>1
<1>6. (\E leaf \in leaves : leaf[1] = path) =>
         /\ (CHOOSE leaf \in leaves : leaf[1] = path) \in leaves
         /\ (CHOOSE leaf \in leaves : leaf[1] = path)[1] = path
  OBVIOUS
<1>7. HasInfo(sections, f) => RD!Flatten(sections)[path] = sections["FRR"][f]["info"]
  <2> SUFFICES ASSUME HasInfo(sections, f)
               PROVE  RD!Flatten(sections)[path] = sections["FRR"][f]["info"]
    OBVIOUS
  <2>1. RD!Flatten(sections)[path] = (CHOOSE leaf \in leaves : leaf[1] = path)[2]
    BY <1>3, <1>4, <1>5
  <2> QED BY <1>1, <1>5, <1>6, <2>1
<1> QED BY <1>1, <1>4, <1>5, <1>7 DEF path

-----------------------------------------------------------------------------
(* Selections.                                                             *)

(* Every place up to n that is taken has a last one. *)
LEMMA Greatest ==
  ASSUME NEW n \in Nat, NEW A \in SUBSET (0..n), A # {}
  PROVE  \E x \in A : \A y \in A : y <= x
<1> DEFINE above == {a..n : a \in A}
<1>1. above \subseteq FiniteSubsetsOf(Nat) /\ above # {}
  <2>1. \A a \in A : IsFiniteSet(a..n) /\ a..n \subseteq Nat
    BY FS_Interval
  <2> QED BY <2>1 DEF FiniteSubsetsOf
<1>2. IsWellFoundedOn(StrictSubsetOrdering(Nat), FiniteSubsetsOf(Nat))
  BY FS_StrictSubsetOrderingWellFounded
<1> HIDE DEF above
<1>3. PICK least \in above : \A other \in above : <<other, least>> \notin StrictSubsetOrdering(Nat)
  BY <1>1, <1>2, WFMin
<1>4. PICK x \in A : least = x..n
  BY <1>3 DEF above
<1>5. ASSUME NEW y \in A, x < y PROVE FALSE
  <2>1. y..n \in above
    BY DEF above
  <2>2. y..n \subseteq x..n /\ x..n \subseteq Nat /\ x \in x..n /\ x \notin y..n
    BY <1>5
  <2>3. <<y..n, x..n>> \in StrictSubsetOrdering(Nat)
    BY <2>2 DEF StrictSubsetOrdering
  <2> QED BY <1>3, <1>4, <2>1, <2>3
<1> QED BY <1>5

Keys == {KeyOrder[i] : i \in DOMAIN KeyOrder}

LEMMA Places ==
  ASSUME KeyOrder \in Seq(Keys), NEW key \in Keys
  PROVE  OB!Place(key) \in 0..Len(KeyOrder) /\ KeyOrder[OB!Place(key)] = key
<1>1. Len(KeyOrder) \in Nat /\ DOMAIN KeyOrder = 1..Len(KeyOrder)
  OBVIOUS
<1>2. \E i \in DOMAIN KeyOrder : KeyOrder[i] = key
  BY DEF Keys
<1>3. OB!Place(key) \in DOMAIN KeyOrder /\ KeyOrder[OB!Place(key)] = key
  BY <1>2 DEF OB!Place
<1> QED BY <1>1, <1>3

(* Of the variants there are, one is the strictest, and its class the last *)
(* of those that are as strict.                                            *)
LEMMA StrictestExists ==
  ASSUME KeyOrder \in Seq(Keys), NEW variants, DOMAIN variants \subseteq Keys, DOMAIN variants # {}
  PROVE  /\ OB!Strictest(variants) \in DOMAIN variants
         /\ \A d \in DOMAIN variants :
              LET rank(c) == OB!ForceRank(OB!Get(variants[c], "force")) IN
                \/ rank(d) < rank(OB!Strictest(variants))
                \/ /\ rank(d) = rank(OB!Strictest(variants))
                   /\ OB!Place(d) <= OB!Place(OB!Strictest(variants))
<1> DEFINE rank(c) == OB!ForceRank(OB!Get(variants[c], "force"))
           ranks   == {rank(c) : c \in DOMAIN variants}
<1>1. \A c \in DOMAIN variants : rank(c) \in 0..4
  BY DEF OB!ForceRank
<1>2. ranks \in SUBSET (0..4) /\ ranks # {}
  BY <1>1
<1>3. PICK top \in ranks : \A r \in ranks : r <= top
  <2> HIDE DEF ranks
  <2> QED BY <1>2, Greatest
<1> DEFINE loudest == {c \in DOMAIN variants : rank(c) = top}
           places  == {OB!Place(c) : c \in loudest}
<1>4. /\ Len(KeyOrder) \in Nat
      /\ \A c \in DOMAIN variants : OB!Place(c) \in 0..Len(KeyOrder)
  <2>1. Len(KeyOrder) \in Nat
    OBVIOUS
  <2>2. \A c \in Keys : OB!Place(c) \in 0..Len(KeyOrder)
    BY Places
  <2> QED BY <2>1, <2>2
<1>5. places \in SUBSET (0..Len(KeyOrder)) /\ places # {}
  BY <1>3, <1>4
<1>6. PICK last \in places : \A q \in places : q <= last
  <2> HIDE DEF places
  <2> QED BY <1>4, <1>5, Greatest
<1>7. PICK class \in loudest : OB!Place(class) = last
  BY <1>6
<1>8. \A d \in DOMAIN variants :
         rank(d) < rank(class) \/ (rank(d) = rank(class) /\ OB!Place(d) <= OB!Place(class))
  <2> SUFFICES ASSUME NEW d \in DOMAIN variants
               PROVE  rank(d) < top \/ (rank(d) = top /\ OB!Place(d) <= last)
    BY <1>7
  <2>1. rank(d) <= top /\ rank(d) \in 0..4 /\ top \in 0..4
    BY <1>1, <1>2, <1>3
  <2>2. CASE rank(d) = top
    <3>1. OB!Place(d) \in places
      BY <2>2
    <3> QED BY <1>6, <2>2, <3>1
  <2>3. CASE rank(d) # top
    <3> HIDE DEF rank
    <3> QED BY <2>1, <2>3
  <2> QED BY <2>2, <2>3
<1>9. OB!Strictest(variants)
        = CHOOSE c \in DOMAIN variants : \A d \in DOMAIN variants :
             rank(d) < rank(c) \/ (rank(d) = rank(c) /\ OB!Place(d) <= OB!Place(c))
  BY DEF OB!Strictest
<1>10. class \in DOMAIN variants
  BY <1>7
<1> HIDE DEF rank
<1>11. /\ OB!Strictest(variants) \in DOMAIN variants
       /\ \A d \in DOMAIN variants :
             \/ rank(d) < rank(OB!Strictest(variants))
             \/ /\ rank(d) = rank(OB!Strictest(variants))
                /\ OB!Place(d) <= OB!Place(OB!Strictest(variants))
  BY <1>8, <1>9, <1>10
<1> QED BY <1>11 DEF rank

(* What an obligation is resolved from: its rule, or the variant of the    *)
(* class, or without a class the strictest variant.                        *)
LEMMA SelectedFrom ==
  ASSUME KeyOrder \in Seq(Keys),
         NEW sections, NEW p, NEW o \in OB!Select(sections, p),
         NEW leaf, leaf = OB!Leaf(sections, o.at),
         "varies_by_class" \in DOMAIN leaf => DOMAIN leaf["varies_by_class"] \subseteq Keys
  PROVE  /\ o.at \in OB!Rules(sections)
         /\ "varies_by_class" \notin DOMAIN leaf => o.terms = OB!Fill(leaf, Missing)
         /\ "varies_by_class" \in DOMAIN leaf =>
               \E c \in DOMAIN leaf["varies_by_class"] :
                  /\ o.terms = OB!Fill(leaf["varies_by_class"][c], c)
                  /\ c = IF p.class # Missing THEN p.class
                         ELSE OB!Strictest(leaf["varies_by_class"])
<1>1. /\ o.at \in OB!Rules(sections)
      /\ o.terms \in OB!Resolve(leaf, OB!Applicability(sections["FRR"][o.at[1]], o.at[3]), p)
  BY DEF OB!Select
<1> DEFINE variants == leaf["varies_by_class"]
<1>2. CASE "varies_by_class" \notin DOMAIN leaf
  BY <1>1, <1>2 DEF OB!Resolve
<1>3. CASE "varies_by_class" \in DOMAIN leaf
  <2>1. CASE p.class # Missing
    BY <1>1, <1>3, <2>1 DEF OB!Resolve
  <2>2. CASE p.class = Missing
    <3>1. DOMAIN variants # {} /\ o.terms = OB!Fill(variants[OB!Strictest(variants)], OB!Strictest(variants))
      BY <1>1, <1>3, <2>2 DEF OB!Resolve
    <3>2. OB!Strictest(variants) \in DOMAIN variants
      <4>1. DOMAIN variants \subseteq Keys
        BY <1>3
      <4> HIDE DEF variants
      <4> QED BY <3>1, <4>1, StrictestExists
    <3> QED BY <1>1, <1>3, <2>2, <3>1, <3>2
  <2> QED BY <2>1, <2>2
<1> QED BY <1>2, <1>3

-----------------------------------------------------------------------------
(* What is selected is told by the flattened leaves.                       *)
LEMMA FlattenTellsSelect ==
  ASSUME NEW old, NEW new, RD!Flatten(old) = RD!Flatten(new), NEW p
  PROVE  OB!Select(old, p) = OB!Select(new, p)
<1>1. \A a, b : RD!Flatten(a) = RD!Flatten(b) => OB!Rules(a) \subseteq OB!Rules(b)
  <2> SUFFICES ASSUME NEW a, NEW b, RD!Flatten(a) = RD!Flatten(b), NEW at \in OB!Rules(a)
               PROVE  at \in OB!Rules(b)
    OBVIOUS
  <2>1. at = <<at[1], at[2], at[3], at[4]>> /\ <<"FRR">> \o at \in DOMAIN RD!Flatten(b)
    BY RulePlaces, FlattenedRules
  <2>2. <<"FRR">> \o <<at[1], at[2], at[3], at[4]>> = <<"FRR", at[1], at[2], at[3], at[4]>>
    BY PlacePath
  <2>3. <<at[1], at[2], at[3], at[4]>> \in OB!Rules(b)
    BY <2>1, <2>2, FlattenedOnlyRules
  <2> QED BY <2>1, <2>3
<1>2. OB!Rules(old) = OB!Rules(new)
  BY <1>1
<1>3. ASSUME NEW at \in OB!Rules(old)
      PROVE  /\ OB!Leaf(old, at) = OB!Leaf(new, at)
             /\ OB!Applicability(old["FRR"][at[1]], at[3]) = OB!Applicability(new["FRR"][at[1]], at[3])
  <2>1. OB!Leaf(old, at) = OB!Leaf(new, at)
    BY <1>2, FlattenedRules
  <2>2. /\ "FRR" \in DOMAIN old /\ at[1] \in DOMAIN old["FRR"]
        /\ "FRR" \in DOMAIN new /\ at[1] \in DOMAIN new["FRR"]
    BY <1>2, RulePlaces
  <2>3. HasInfo(old, at[1]) <=> HasInfo(new, at[1])
    BY FlattenedInfo
  <2>4. HasInfo(old, at[1]) => old["FRR"][at[1]]["info"] = new["FRR"][at[1]]["info"]
    <3>1. HasInfo(old, at[1]) =>
             RD!Flatten(old)[<<"FRR", at[1], "info">>] = old["FRR"][at[1]]["info"]
      BY FlattenedInfo
    <3>2. HasInfo(new, at[1]) =>
             RD!Flatten(new)[<<"FRR", at[1], "info">>] = new["FRR"][at[1]]["info"]
      BY FlattenedInfo
    <3> HIDE DEF HasInfo
    <3> QED BY <2>3, <3>1, <3>2
  <2>5. OB!Child(old["FRR"][at[1]], "info") = OB!Child(new["FRR"][at[1]], "info")
    BY <2>2, <2>3, <2>4 DEF HasInfo, OB!Child
  <2> QED BY <2>1, <2>5 DEF OB!Applicability
<1> QED BY <1>2, <1>3 DEF OB!Select

-----------------------------------------------------------------------------
(***************************************************************************)
(* What is signed and what is served are documents of the repositories.    *)
(***************************************************************************)
Published ==
    /\ docs \in Docs
    /\ DOMAIN signed = Sources /\ DOMAIN upstream = Sources
    /\ \A s \in Sources : signed[s] \in docs[s] /\ upstream[s] \in docs[s]

LEMMA PublishedStarts == Init => Published
<1> SUFFICES ASSUME Init PROVE Published
  OBVIOUS
<1>1. ASSUME NEW s \in Sources PROVE (CHOOSE d \in docs[s] : TRUE) \in docs[s]
  <2>1. docs[s] # {}
    BY SemanticDiffAssumption DEF Init
  <2> QED BY <2>1
<1> QED BY <1>1 DEF Init, Published

LEMMA PublishedKept == Published /\ [Next]_vars => Published'
<1> SUFFICES ASSUME Published, [Next]_vars PROVE Published'
  OBVIOUS
<1>1. CASE UNCHANGED vars
  BY <1>1 DEF Published, vars
<1>2. CASE Sync
  BY <1>2 DEF Sync, Published
<1>3. CASE \E s \in Sources : Publish(s)
  BY <1>3 DEF Publish, Published
<1> QED BY <1>1, <1>2, <1>3 DEF Next

(* What is signed and what is served is always something published.        *)
THEOREM AllIsPublished == Spec => []Published
<1> QED BY PublishedStarts, PublishedKept, PTL DEF Spec

(* The shape of what is published.                                         *)
LEMMA Shapes ==
  ASSUME Published, NEW s \in Sources
  PROVE  /\ signed[s] = [substance |-> signed[s].substance, volatile |-> signed[s].volatile]
         /\ upstream[s] = [substance |-> upstream[s].substance, volatile |-> upstream[s].volatile]
BY SemanticDiffAssumption DEF Published

(* A set of served documents is a bundle.                                  *)
LEMMA CutIsBundle ==
  ASSUME Published, NEW served \in {signed, upstream}
  PROVE  /\ Cut(served) # NoBundle
         /\ \A s \in Sources : Cut(served)[s] # Absent /\ Cut(served)[s].doc = served[s]
<1> DEFINE Subs == UNION {UNION {{d.substance : d \in all[s]} : s \in Sources} : all \in Docs}
           Vols == UNION {UNION {{d.volatile : d \in all[s]} : s \in Sources} : all \in Docs}
<1>1. ASSUME NEW s \in Sources
      PROVE  served[s].substance \in Subs /\ served[s].volatile \in Vols
  <2>1. served[s] \in docs[s] /\ docs \in Docs
    BY DEF Published
  <2> QED BY <2>1
<1>2. G!Doc = [substance : Subs, volatile : Vols]
  BY DEF G!Doc
<1> HIDE DEF Subs, Vols
<1>3. ASSUME NEW s \in Sources PROVE [pin |-> 1, doc |-> served[s]] \in G!Snapshot
  <2>1. served[s] \in G!Doc
    <3>1. served[s] = [substance |-> served[s].substance, volatile |-> served[s].volatile]
      BY Shapes
    <3>2. [substance |-> served[s].substance, volatile |-> served[s].volatile] \in G!Doc
      BY <1>1, <1>2
    <3> QED BY <3>1, <3>2
  <2> QED BY <2>1 DEF G!Snapshot
<1>4. Cut(served) \in G!Bundle
  BY <1>3 DEF Cut, G!Bundle
<1> QED BY <1>3, <1>4, NothingAssumption DEF Cut

LEMMA StrategiesAreSeverities ==
  ASSUME NEW s, NEW old, NEW new, NEW rules
  PROVE  StrategySeverity(s, old, new, rules) \in Severity
<1>1. /\ None \in Severity /\ Metadata \in Severity /\ Routine \in Severity
      /\ Minor \in Severity /\ Major \in Severity
  BY DEF Severity, None, Metadata, Routine, Minor, Major
<1>2. RD!SeverityOf(old, new) \in Severity
  BY <1>1 DEF RD!SeverityOf, RD!Major, RD!Metadata, RD!None, Major, Metadata, None
<1>3. SD!SeverityOf(old, new) \in Severity
  BY <1>1 DEF SD!SeverityOf, SD!Major, SD!None, Major, None
<1>4. MD!SeverityOf(old, new) \in Severity
  <2>1. MD!SeverityOf(old, new) \in {None, Minor, Routine}
    BY DEF MD!SeverityOf, MD!Minor, MD!Routine, MD!None, Minor, Routine, None
  <2> QED BY <1>1, <2>1
<1>5. OD!SeverityOf(old, new, ReferencedIn(rules)) \in Severity
  BY <1>1 DEF OD!SeverityOf, OD!Major, OD!Routine, OD!None, Major, Routine, None
<1>6. KD!SeverityOf(old, new) \in Severity
  BY <1>1 DEF KD!SeverityOf, KD!Minor, KD!Routine, KD!None, Minor, Routine, None
<1> QED BY <1>1, <1>2, <1>3, <1>4, <1>5, <1>6 DEF StrategySeverity

(* The plan is as loud as the loudest of the sources that moved, and None  *)
(* when none did.  The catalog is judged by the rules of the same fetch.   *)
Loudness(s) ==
    G!AtLeast(StrategySeverity(s, signed[s], upstream[s], upstream["rules"]), Metadata)

Moves(s) == signed[s].substance # upstream[s].substance

LEMMA PlanIsLoudest ==
  ASSUME Published
  PROVE  /\ SyncPlan.severity \in Severity
         /\ \A s \in Sources : Moves(s) => Loudness(s) <= SyncPlan.severity
         /\ \/ SyncPlan.severity = None
            \/ \E s \in Sources : Moves(s) /\ SyncPlan.severity = Loudness(s)
<1> DEFINE base  == Cut(signed)
           snaps == Cut(upstream)
           loud(q) == G!DeltaSeverity(q, base, snaps)
           severities == {G!None} \cup {loud(q) : q \in G!Carried(snaps)}
<1>1. /\ base # NoBundle
      /\ \A q \in Sources : /\ base[q] # Absent /\ base[q].doc = signed[q]
                            /\ snaps[q] # Absent /\ snaps[q].doc = upstream[q]
  BY CutIsBundle
<1>2. G!Carried(snaps) = Sources /\ G!RulesInScope(snaps) = upstream["rules"]
  <2>1. "rules" \in Sources
    BY SemanticDiffAssumption
  <2>2. G!Carried(snaps) = Sources
    BY <1>1 DEF G!Carried
  <2> QED BY <1>1, <2>1, <2>2 DEF G!RulesInScope
<1>3. ASSUME NEW q \in Sources PROVE loud(q) = IF Moves(q) THEN Loudness(q) ELSE None
  BY <1>1, <1>2
  DEF Moves, Loudness, G!DeltaSeverity, G!Added, G!SubstanceMoved, G!Diffed, G!AtLeast,
      G!Metadata, Metadata, G!None, None
<1>4. ASSUME NEW q \in Sources PROVE loud(q) \in 0..4
  <2>1. StrategySeverity(q, signed[q], upstream[q], upstream["rules"]) \in 0..4
    BY StrategiesAreSeverities DEF Severity, None, Major
  <2>2. Loudness(q) \in 0..4
    BY <2>1 DEF Loudness, G!AtLeast, Metadata
  <2> HIDE DEF loud
  <2> QED BY <1>3, <2>2 DEF None
<1>5. severities \in SUBSET (0..4) /\ severities # {}
  BY <1>2, <1>4 DEF G!None
<1>6. SyncPlan.severity = CHOOSE m \in severities : \A n \in severities : n <= m
  BY <1>1 DEF SyncPlan, G!Plan, G!PlanSeverity, G!MaxSeverity
<1>7. SyncPlan.severity \in severities /\ \A n \in severities : n <= SyncPlan.severity
  <2> HIDE DEF severities
  <2>1. PICK m \in severities : \A n \in severities : n <= m
    BY <1>5, Greatest
  <2> QED BY <1>6, <2>1
<1>8. SyncPlan.severity \in 0..4
  <2> HIDE DEF severities
  <2> QED BY <1>5, <1>7
<1> HIDE DEF loud
<1>9. SyncPlan.severity = None \/ \E q \in Sources : SyncPlan.severity = loud(q)
  BY <1>2, <1>7 DEF G!None, None
<1>10. \A q \in Sources : loud(q) <= SyncPlan.severity
  BY <1>2, <1>7
<1> HIDE DEF severities, base, snaps
<1>11. SyncPlan.severity \in Severity
  BY <1>8 DEF Severity, None, Major
<1> QED BY <1>3, <1>9, <1>10, <1>11

LEMMA PlanIsAsLoud ==
  ASSUME Published, NEW s \in Sources, signed[s].substance # upstream[s].substance
  PROVE  /\ SyncPlan.severity \in Severity
         /\ SyncPlan.severity >= StrategySeverity(s, signed[s], upstream[s], upstream["rules"])
<1>1. Loudness(s) <= SyncPlan.severity /\ SyncPlan.severity \in 0..4
  BY PlanIsLoudest DEF Moves, Severity, None, Major
<1>2. StrategySeverity(s, signed[s], upstream[s], upstream["rules"]) \in 0..4
  BY StrategiesAreSeverities DEF Severity, None, Major
<1> HIDE DEF Moves
<1>3. SyncPlan.severity >= StrategySeverity(s, signed[s], upstream[s], upstream["rules"])
  BY <1>1, <1>2 DEF Loudness, G!AtLeast, Metadata
<1> QED BY <1>3, PlanIsLoudest

-----------------------------------------------------------------------------
(* The rules.                                                              *)

(* A comparison that finds nothing compares equal maps.                    *)
LEMMA NothingFound ==
  ASSUME NEW old, NEW new, NEW Domain1, NEW Domain2,
         old = [k \in Domain1 |-> old[k]], new = [k \in Domain2 |-> new[k]],
         Domain1 \ Domain2 = {}, Domain2 \ Domain1 = {},
         {k \in Domain1 \cap Domain2 : old[k] # new[k]} = {}
  PROVE  old = new
<1>1. Domain1 = Domain2
  OBVIOUS
<1>2. \A k \in Domain1 : old[k] = new[k]
  BY <1>1
<1> QED BY <1>1, <1>2

(* What compare_maps finds.                                                *)
Stayed(old, new) == {k \in DOMAIN old \cap DOMAIN new : old[k] # new[k]}

LEMMA RulesCompared ==
  ASSUME NEW before, NEW after, NEW old, NEW new,
         old = RD!Flatten(before.substance.sections), new = RD!Flatten(after.substance.sections)
  PROVE  /\ RD!Compared(before, after).added = DOMAIN new \ DOMAIN old
         /\ RD!Compared(before, after).removed = DOMAIN old \ DOMAIN new
         /\ DOMAIN RD!Compared(before, after).modified = Stayed(old, new)
         /\ \A k \in Stayed(old, new) :
              /\ RD!Compared(before, after).modified[k] = RD!FieldChanges(old[k], new[k])
              /\ \A f \in RD!FieldChanges(old[k], new[k]) \cap RD!HighlightFields :
                    <<k, f>> \in RD!Compared(before, after).highlights
         /\ RD!HighlightPerClassForce(old, new, RD!Compared(before, after).modified)
              \subseteq RD!Compared(before, after).highlights
<1> DEFINE delta == RD!CompareMaps(old, new, RD!HighlightFields)
<1>1. /\ delta.added = DOMAIN new \ DOMAIN old
      /\ delta.removed = DOMAIN old \ DOMAIN new
      /\ delta.modified = [k \in Stayed(old, new) |-> RD!FieldChanges(old[k], new[k])]
      /\ delta.highlights =
           UNION {{<<k, f>> : f \in delta.modified[k] \cap RD!HighlightFields}
                    : k \in Stayed(old, new)}
      /\ DOMAIN delta = {"added", "removed", "modified", "highlights", "drift", "counts"}
  BY DEF RD!CompareMaps, Stayed
<1>2. RD!Compared(before, after)
        = [delta EXCEPT
             !.highlights = @ \cup RD!HighlightPerClassForce(old, new, delta.modified),
             !.drift      = RD!Drift(after.substance.sections)]
  BY DEF RD!Compared
<1> HIDE DEF delta
<1>3. /\ RD!Compared(before, after).added = delta.added
      /\ RD!Compared(before, after).removed = delta.removed
      /\ RD!Compared(before, after).modified = delta.modified
      /\ RD!Compared(before, after).highlights
           = delta.highlights \cup RD!HighlightPerClassForce(old, new, delta.modified)
  BY <1>1, <1>2
<1>4. ASSUME NEW k \in Stayed(old, new)
      PROVE  /\ delta.modified[k] = RD!FieldChanges(old[k], new[k])
             /\ \A f \in RD!FieldChanges(old[k], new[k]) \cap RD!HighlightFields :
                   <<k, f>> \in delta.highlights
  <2>1. delta.modified[k] = RD!FieldChanges(old[k], new[k])
    BY <1>1
  <2>2. \A f \in delta.modified[k] \cap RD!HighlightFields : <<k, f>> \in delta.highlights
    BY <1>1
  <2> QED BY <2>1, <2>2
<1>5. DOMAIN delta.modified = Stayed(old, new)
  BY <1>1
<1> QED BY <1>1, <1>3, <1>4, <1>5

(* Documents whose leaves differ are Major apart.                          *)
LEMMA MovedLeavesAreMajor ==
  ASSUME NEW before, NEW after,
         RD!Flatten(before.substance.sections) # RD!Flatten(after.substance.sections)
  PROVE  RD!SeverityOf(before, after) = Major
<1> DEFINE old == RD!Flatten(before.substance.sections)
           new == RD!Flatten(after.substance.sections)
           delta == RD!Compared(before, after)
<1>1. /\ delta.added = DOMAIN new \ DOMAIN old
      /\ delta.removed = DOMAIN old \ DOMAIN new
      /\ DOMAIN delta.modified = Stayed(old, new)
  BY RulesCompared
<1>2. old = [k \in DOMAIN old |-> old[k]] /\ new = [k \in DOMAIN new |-> new[k]]
  BY DEF RD!Flatten
<1> HIDE DEF old, new, delta
<1>3. ASSUME delta.added = {}, delta.removed = {}, DOMAIN delta.modified = {} PROVE old = new
  <2>1. /\ DOMAIN old \ DOMAIN new = {} /\ DOMAIN new \ DOMAIN old = {}
        /\ {k \in DOMAIN old \cap DOMAIN new : old[k] # new[k]} = {}
    BY <1>1, <1>3 DEF Stayed
  <2> QED BY <1>2, <2>1, NothingFound
<1>4. ~RD!IsEmpty(delta)
  BY <1>3 DEF RD!IsEmpty, old, new
<1>5. RD!SeverityOf(before, after) = RD!Major
  BY <1>4 DEF RD!SeverityOf, delta
<1> QED BY <1>5 DEF RD!Major, Major

(* Obligations do not move but under a Major change.                       *)
LEMMA MovesAreMajor == Published => ObligationMovesAreMajor
<1> SUFFICES ASSUME Published, NEW p \in Profiles, ObligationsBefore(p) # ObligationsAfter(p)
             PROVE  SyncPlan.severity = Major
  BY DEF ObligationMovesAreMajor
<1>1. RD!Flatten(SectionsOf(signed)) # RD!Flatten(SectionsOf(upstream))
  BY FlattenTellsSelect DEF ObligationsBefore, ObligationsAfter
<1>2. /\ SectionsOf(signed) = signed["rules"].substance.sections
      /\ SectionsOf(upstream) = upstream["rules"].substance.sections
  BY DEF SectionsOf
<1>3. signed["rules"].substance # upstream["rules"].substance
  BY <1>1, <1>2
<1>4. "rules" \in Sources
  BY SemanticDiffAssumption
<1>5. RD!SeverityOf(signed["rules"], upstream["rules"]) = Major
  BY <1>1, <1>2, MovedLeavesAreMajor
<1>6. \A rules : StrategySeverity("rules", signed["rules"], upstream["rules"], rules) = Major
  BY <1>5 DEF StrategySeverity
<1>7. SyncPlan.severity \in Severity /\ SyncPlan.severity >= Major
  BY <1>3, <1>4, <1>6, PlanIsAsLoud
<1> QED BY <1>7 DEF Severity, None, Major

(***************************************************************************)
(* Whatever changes what a profile is obliged to, in any documents and for *)
(* any profile, makes the sync Major (diff/rules.rs flatten).              *)
(***************************************************************************)
THEOREM ObligationsMoveAsMajor == Spec => []ObligationMovesAreMajor
BY AllIsPublished, MovesAreMajor, PTL

-----------------------------------------------------------------------------
(* Highlights.                                                             *)

Stated(source) == "force" \in DOMAIN source => source["force"] # Missing

(* A rule as the strategies read it: it states forces, and its variants,   *)
(* when it has them, are keyed by class.                                   *)
IsRule(leaf) ==
    /\ Stated(leaf)
    /\ "varies_by_class" \in DOMAIN leaf =>
          /\ leaf["varies_by_class"] # Missing
          /\ DOMAIN leaf["varies_by_class"] \subseteq Keys
          /\ \A c \in DOMAIN leaf["varies_by_class"] : Stated(leaf["varies_by_class"][c])

LEMMA RulesAreRules ==
  ASSUME Published
  PROVE  /\ KeyOrder \in Seq(Keys)
         /\ \A at \in OB!Rules(SectionsOf(signed)) : IsRule(OB!Leaf(SectionsOf(signed), at))
         /\ \A at \in OB!Rules(SectionsOf(upstream)) : IsRule(OB!Leaf(SectionsOf(upstream), at))
BY SemanticDiffAssumption DEF Published, SectionsOf, IsRule, Stated, Keys

ForceMoves(o, n) ==
    \/ RD!Get(o, "force") # RD!Get(n, "force")
    \/ \E c : RD!ForceOf(o, c) # RD!ForceOf(n, c)

(* The rule at a path of both documents moves in its force. *)
MovesAt(before, after, path) ==
    LET old == RD!Flatten(before.substance.sections)
        new == RD!Flatten(after.substance.sections)
    IN  /\ path \in DOMAIN old /\ path \in DOMAIN new
        /\ IsRule(old[path]) /\ IsRule(new[path])
        /\ ForceMoves(old[path], new[path])

HighlightedAt(before, after, path) ==
    \E h \in RD!Compared(before, after).highlights : h[1] = path

(* A rule whose own force moves is highlighted, and so is one with a class *)
(* for which it moves.                                                     *)
LEMMA MovedForcesAreHighlighted ==
  ASSUME NEW before, NEW after, NEW path, MovesAt(before, after, path)
  PROVE  HighlightedAt(before, after, path)
<1> DEFINE delta == RD!Compared(before, after)
           old   == RD!Flatten(before.substance.sections)
           new   == RD!Flatten(after.substance.sections)
           o     == old[path]
           n     == new[path]
<1>0. /\ path \in DOMAIN old /\ path \in DOMAIN new
      /\ IsRule(o) /\ IsRule(n) /\ ForceMoves(o, n)
  BY DEF MovesAt
<1> HIDE DEF o, n
<1>1. ASSUME RD!Get(o, "force") # RD!Get(n, "force")
      PROVE  <<path, "force">> \in delta.highlights
  <2>1. "force" \in RD!FieldChanges(o, n) /\ o # n
    BY <1>1 DEF RD!FieldChanges, RD!Get
  <2>2. path \in Stayed(old, new) /\ "force" \in RD!HighlightFields
    BY <1>0, <2>1 DEF Stayed, RD!HighlightFields, o, n
  <2> QED BY <2>1, <2>2, RulesCompared DEF o, n
<1>2. ASSUME NEW c, RD!ForceOf(o, c) # RD!ForceOf(n, c)
      PROVE  <<path, "varies_by_class.force", c>> \in delta.highlights
  <2>1. RD!Child(RD!Child(o, "varies_by_class"), c) # RD!Child(RD!Child(n, "varies_by_class"), c)
    BY <1>2 DEF RD!ForceOf
  <2>2. c \in DOMAIN RD!Child(o, "varies_by_class") \cup DOMAIN RD!Child(n, "varies_by_class")
    BY <2>1 DEF RD!Child
  <2>3. RD!Child(o, "varies_by_class") # RD!Child(n, "varies_by_class")
    BY <2>1
  <2>4. "varies_by_class" \in RD!FieldChanges(o, n) /\ o # n
    BY <1>0, <2>3 DEF RD!Child, RD!FieldChanges, RD!Get, IsRule
  <2>5. path \in Stayed(old, new)
    BY <1>0, <2>4 DEF Stayed, o, n
  <2>6. path \in DOMAIN delta.modified /\ "varies_by_class" \in delta.modified[path]
    BY <2>4, <2>5, RulesCompared DEF o, n
  <2>7. <<path, "varies_by_class.force", c>> \in RD!HighlightPerClassForce(old, new, delta.modified)
    <3> HIDE DEF delta
    <3> QED BY <1>2, <2>2, <2>6 DEF RD!HighlightPerClassForce, o, n
  <2> QED BY <2>7, RulesCompared
<1>3. <<path, "force">>[1] = path /\ \A c : <<path, "varies_by_class.force", c>>[1] = path
  OBVIOUS
<1> QED BY <1>0, <1>1, <1>2, <1>3 DEF ForceMoves, HighlightedAt

LEMMA RuleIsHighlighted ==
  ASSUME NEW before, NEW after, NEW at,
         at \in OB!Rules(before.substance.sections), at \in OB!Rules(after.substance.sections),
         IsRule(OB!Leaf(before.substance.sections, at)),
         IsRule(OB!Leaf(after.substance.sections, at)),
         ForceMoves(OB!Leaf(before.substance.sections, at), OB!Leaf(after.substance.sections, at))
  PROVE  HighlightedAt(before, after, <<"FRR">> \o at)
<1>1. /\ <<"FRR">> \o at \in DOMAIN RD!Flatten(before.substance.sections)
      /\ RD!Flatten(before.substance.sections)[<<"FRR">> \o at] = OB!Leaf(before.substance.sections, at)
  BY FlattenedRules
<1>2. /\ <<"FRR">> \o at \in DOMAIN RD!Flatten(after.substance.sections)
      /\ RD!Flatten(after.substance.sections)[<<"FRR">> \o at] = OB!Leaf(after.substance.sections, at)
  BY FlattenedRules
<1>3. MovesAt(before, after, <<"FRR">> \o at)
  BY <1>1, <1>2 DEF MovesAt
<1> QED BY <1>3, MovedForcesAreHighlighted

(* The force of a variant of a class.                                      *)
LEMMA VariantForce ==
  ASSUME NEW leaf, "varies_by_class" \in DOMAIN leaf, NEW c
  PROVE  RD!ForceOf(leaf, c)
           = IF c \in DOMAIN leaf["varies_by_class"]
             THEN RD!Get(leaf["varies_by_class"][c], "force") ELSE Missing
BY DEF RD!ForceOf, RD!Child, RD!Get

(* Variants that state the same forces have the same strictest class, when *)
(* the strictest of each states one.                                       *)
LEMMA SameForcesSameStrictest ==
  ASSUME KeyOrder \in Seq(Keys), NEW v, NEW w,
         DOMAIN v \subseteq Keys, DOMAIN w \subseteq Keys, DOMAIN v # {}, DOMAIN w # {},
         OB!Strictest(v) \in DOMAIN w, OB!Strictest(w) \in DOMAIN v,
         OB!Get(v[OB!Strictest(v)], "force") = OB!Get(w[OB!Strictest(v)], "force"),
         OB!Get(v[OB!Strictest(w)], "force") = OB!Get(w[OB!Strictest(w)], "force")
  PROVE  OB!Strictest(v) = OB!Strictest(w)
<1> DEFINE c == OB!Strictest(v)
           d == OB!Strictest(w)
           rankV(k) == OB!ForceRank(OB!Get(v[k], "force"))
           rankW(k) == OB!ForceRank(OB!Get(w[k], "force"))
<1>1. c \in DOMAIN v /\ d \in DOMAIN w
  BY StrictestExists
<1>2. rankV(d) < rankV(c) \/ (rankV(d) = rankV(c) /\ OB!Place(d) <= OB!Place(c))
  BY StrictestExists
<1>3. rankW(c) < rankW(d) \/ (rankW(c) = rankW(d) /\ OB!Place(c) <= OB!Place(d))
  BY StrictestExists
<1>4. rankV(c) = rankW(c) /\ rankV(d) = rankW(d)
  OBVIOUS
<1>5. \A x : OB!ForceRank(x) \in 0..4
  BY DEF OB!ForceRank
<1>6. rankV(c) \in 0..4 /\ rankV(d) \in 0..4
  BY <1>5
<1>7. /\ OB!Place(c) \in 0..Len(KeyOrder) /\ KeyOrder[OB!Place(c)] = c
      /\ OB!Place(d) \in 0..Len(KeyOrder) /\ KeyOrder[OB!Place(d)] = d
  BY <1>1, Places
<1> HIDE DEF c, d, rankV, rankW
<1>8. OB!Place(c) = OB!Place(d)
  <2>1. Len(KeyOrder) \in Nat
    OBVIOUS
  <2> QED BY <1>2, <1>3, <1>4, <1>6, <1>7, <2>1
<1>9. c = d
  BY <1>7, <1>8
<1> QED BY <1>9 DEF c, d

LEMMA ShiftsAreHighlighted == Published => ForceShiftsAreHighlighted
<1> SUFFICES ASSUME Published, NEW p \in Profiles,
                    NEW o \in ObligationsBefore(p), NEW n \in ObligationsAfter(p),
                    o.at = n.at, o.terms.force # n.terms.force,
                    Unstated \notin {o.terms.force, n.terms.force}
             PROVE  \E h \in RD!Compared(signed["rules"], upstream["rules"]).highlights :
                       h[1] = <<"FRR">> \o o.at
  BY DEF ForceShiftsAreHighlighted
<1> DEFINE before == SectionsOf(signed)
           after  == SectionsOf(upstream)
           old    == OB!Leaf(before, o.at)
           new    == OB!Leaf(after, o.at)
           path   == <<"FRR">> \o o.at
<1>1. o \in OB!Select(before, p) /\ n \in OB!Select(after, p)
  BY DEF ObligationsBefore, ObligationsAfter
<1>2. o.at \in OB!Rules(before) /\ o.at \in OB!Rules(after)
  BY <1>1 DEF OB!Select
<1>3. KeyOrder \in Seq(Keys) /\ IsRule(old) /\ IsRule(new)
  BY <1>2, RulesAreRules
<1>4. /\ path \in DOMAIN RD!Flatten(before) /\ RD!Flatten(before)[path] = old
      /\ path \in DOMAIN RD!Flatten(after) /\ RD!Flatten(after)[path] = new
  BY <1>2, FlattenedRules
<1>5. before = signed["rules"].substance.sections /\ after = upstream["rules"].substance.sections
  BY DEF SectionsOf
<1>6. ForceMoves(old, new) => HighlightedAt(signed["rules"], upstream["rules"], path)
  BY <1>2, <1>3, <1>5, RuleIsHighlighted
<1> SUFFICES ForceMoves(old, new)
  BY <1>6 DEF HighlightedAt
(* A force other than Unstated is stated by the rule or by the variant.    *)
<1>7. ASSUME NEW source, NEW c, NEW terms, terms = OB!Fill(source, c), terms.force # Unstated
      PROVE  "force" \in DOMAIN source /\ source["force"] = terms.force
  BY <1>7 DEF OB!Fill, Unstated
<1>8. /\ "varies_by_class" \notin DOMAIN old => o.terms = OB!Fill(old, Missing)
      /\ "varies_by_class" \in DOMAIN old =>
            \E c \in DOMAIN old["varies_by_class"] :
               /\ o.terms = OB!Fill(old["varies_by_class"][c], c)
               /\ c = IF p.class # Missing THEN p.class ELSE OB!Strictest(old["varies_by_class"])
  <2> HIDE DEF before
  <2> QED BY <1>1, <1>3, SelectedFrom DEF IsRule
<1>9. /\ "varies_by_class" \notin DOMAIN new => n.terms = OB!Fill(new, Missing)
      /\ "varies_by_class" \in DOMAIN new =>
            \E c \in DOMAIN new["varies_by_class"] :
               /\ n.terms = OB!Fill(new["varies_by_class"][c], c)
               /\ c = IF p.class # Missing THEN p.class ELSE OB!Strictest(new["varies_by_class"])
  <2> HIDE DEF after
  <2> QED BY <1>1, <1>3, SelectedFrom DEF IsRule
<1> HIDE DEF before, after, old, new, path
<1>10. CASE "varies_by_class" \notin DOMAIN old /\ "varies_by_class" \notin DOMAIN new
  <2>1. /\ "force" \in DOMAIN old /\ old["force"] = o.terms.force
        /\ "force" \in DOMAIN new /\ new["force"] = n.terms.force
    BY <1>7, <1>8, <1>9, <1>10
  <2> QED BY <2>1 DEF RD!Get, ForceMoves
<1>11. CASE "varies_by_class" \in DOMAIN old /\ "varies_by_class" \notin DOMAIN new
  <2>1. PICK c \in DOMAIN old["varies_by_class"] : o.terms = OB!Fill(old["varies_by_class"][c], c)
    BY <1>8, <1>11
  <2>2. RD!ForceOf(old, c) = o.terms.force /\ o.terms.force # Missing
    BY <1>3, <1>7, <1>11, <2>1, VariantForce DEF RD!Get, IsRule, Stated
  <2>3. RD!ForceOf(new, c) = Missing
    BY <1>11 DEF RD!ForceOf, RD!Child, RD!Get
  <2> QED BY <2>2, <2>3 DEF ForceMoves
<1>12. CASE "varies_by_class" \notin DOMAIN old /\ "varies_by_class" \in DOMAIN new
  <2>1. PICK c \in DOMAIN new["varies_by_class"] : n.terms = OB!Fill(new["varies_by_class"][c], c)
    BY <1>9, <1>12
  <2>2. RD!ForceOf(new, c) = n.terms.force /\ n.terms.force # Missing
    BY <1>3, <1>7, <1>12, <2>1, VariantForce DEF RD!Get, IsRule, Stated
  <2>3. RD!ForceOf(old, c) = Missing
    BY <1>12 DEF RD!ForceOf, RD!Child, RD!Get
  <2> QED BY <2>2, <2>3 DEF ForceMoves
<1>13. CASE "varies_by_class" \in DOMAIN old /\ "varies_by_class" \in DOMAIN new
  <2> DEFINE v == old["varies_by_class"]
             w == new["varies_by_class"]
  <2>1. PICK c \in DOMAIN v :
           /\ o.terms = OB!Fill(v[c], c)
           /\ c = IF p.class # Missing THEN p.class ELSE OB!Strictest(v)
    BY <1>8, <1>13
  <2>2. PICK d \in DOMAIN w :
           /\ n.terms = OB!Fill(w[d], d)
           /\ d = IF p.class # Missing THEN p.class ELSE OB!Strictest(w)
    BY <1>9, <1>13
  <2>3. SUFFICES ASSUME \A k : RD!ForceOf(old, k) = RD!ForceOf(new, k)
                 PROVE  FALSE
    BY DEF ForceMoves
  <2>4. /\ "force" \in DOMAIN v[c] /\ v[c]["force"] = o.terms.force /\ o.terms.force # Missing
        /\ "force" \in DOMAIN w[d] /\ w[d]["force"] = n.terms.force /\ n.terms.force # Missing
    BY <1>3, <1>7, <1>13, <2>1, <2>2 DEF IsRule, Stated
  <2>5. RD!ForceOf(old, c) = o.terms.force /\ RD!ForceOf(new, d) = n.terms.force
    BY <1>13, <2>4, VariantForce DEF RD!Get
  <2>6. c # d
    BY <2>3, <2>5
  <2>7. p.class = Missing /\ c = OB!Strictest(v) /\ d = OB!Strictest(w)
    BY <2>1, <2>2, <2>6
  <2>8. c \in DOMAIN w /\ d \in DOMAIN v
    BY <1>13, <2>3, <2>4, <2>5, VariantForce
  <2>9. RD!Get(v[c], "force") = RD!Get(w[c], "force") /\ RD!Get(v[d], "force") = RD!Get(w[d], "force")
    BY <1>13, <2>1, <2>2, <2>3, <2>8, VariantForce
  <2>10. OB!Get(v[c], "force") = OB!Get(w[c], "force") /\ OB!Get(v[d], "force") = OB!Get(w[d], "force")
    BY <2>9 DEF RD!Get, OB!Get
  <2>11. DOMAIN v \subseteq Keys /\ DOMAIN w \subseteq Keys
    BY <1>3, <1>13 DEF IsRule
  <2> HIDE DEF v, w
  <2>12. c = d
    BY <1>3, <2>1, <2>2, <2>7, <2>8, <2>10, <2>11, SameForcesSameStrictest
  <2> QED BY <2>6, <2>12
<1> QED BY <1>10, <1>11, <1>12, <1>13

(***************************************************************************)
(* A rule that stays with a profile and changes the force it states for it *)
(* is highlighted, in any documents and for any profile (diff/rules.rs     *)
(* highlight_per_class_force).                                             *)
(***************************************************************************)
THEOREM ForceShiftsAreCalledOut == Spec => []ForceShiftsAreHighlighted
BY AllIsPublished, ShiftsAreHighlighted, PTL

-----------------------------------------------------------------------------
(* Wider profiles.                                                         *)

LEMMA Ranks ==
  ASSUME NEW f
  PROVE  OB!ForceRank(f) \in 0..4 /\ (f # Missing => OB!ForceRank(f) # 0)
<1>1. OB!ForceRank(f) \in 0..4
  BY DEF OB!ForceRank
<1>2. f # Missing => OB!ForceRank(f) # 0
  BY DEF OB!ForceRank
<1> QED BY <1>1, <1>2

(* A source whose force ranks as high obliges as strictly.                 *)
LEMMA FillRanks ==
  ASSUME NEW v, NEW w, NEW c, NEW d, Stated(v), Stated(w),
         OB!ForceRank(OB!Get(v, "force")) >= OB!ForceRank(OB!Get(w, "force"))
  PROVE  OB!ForceRank(OB!Fill(v, c).force) >= OB!ForceRank(OB!Fill(w, d).force)
<1>0. Missing \notin {"MUST", "MUST NOT", "SHOULD", "SHOULD NOT", "MAY", "UNSPECIFIED"}
  BY SemanticDiffAssumption
<1>1. OB!ForceRank("UNSPECIFIED") = 1 /\ OB!ForceRank(Missing) = 0
  BY <1>0 DEF OB!ForceRank, OB!Binding
<1>2. ASSUME NEW f, f # Missing PROVE OB!ForceRank(f) \in 1..4
  BY <1>2, Ranks
<1>3. \A source, k : OB!Fill(source, k).force
         = IF "force" \in DOMAIN source THEN source["force"] ELSE "UNSPECIFIED"
  BY DEF OB!Fill
<1>4. CASE "force" \in DOMAIN v /\ "force" \in DOMAIN w
  BY <1>3, <1>4 DEF OB!Get
<1>5. CASE "force" \in DOMAIN v /\ "force" \notin DOMAIN w
  <2>1. OB!ForceRank(v["force"]) \in 1..4
    BY <1>2, <1>5 DEF Stated
  <2> QED BY <1>1, <1>3, <1>5, <2>1
<1>6. CASE "force" \notin DOMAIN v /\ "force" \in DOMAIN w
  <2>1. OB!ForceRank(OB!Get(w, "force")) \in 1..4
    BY <1>2, <1>6 DEF Stated, OB!Get
  <2>2. OB!ForceRank(OB!Get(v, "force")) = 0
    BY <1>1, <1>6 DEF OB!Get
  <2> QED BY <2>1, <2>2
<1>7. CASE "force" \notin DOMAIN v /\ "force" \notin DOMAIN w
  BY <1>1, <1>3, <1>7
<1> QED BY <1>4, <1>5, <1>6, <1>7

(* What is resolved from a rule that matches is selected.                  *)
LEMMA MatchesAreSelected ==
  ASSUME NEW sections, NEW p, NEW at \in OB!Rules(sections),
         NEW leaf, leaf = OB!Leaf(sections, at),
         NEW applies, applies = OB!Applicability(sections["FRR"][at[1]], at[3]),
         OB!TypeMatches(at[2], p), OB!Admits(applies, "paths", p.path),
         OB!RoleMatches(leaf, applies, p.role),
         NEW terms \in OB!Resolve(leaf, applies, p)
  PROVE  [at |-> at, schema |-> OB!Get(leaf, "schema"), terms |-> terms] \in OB!Select(sections, p)
<1> DEFINE Of(a) ==
             IF /\ OB!TypeMatches(a[2], p)
                /\ OB!Admits(OB!Applicability(sections["FRR"][a[1]], a[3]), "paths", p.path)
                /\ OB!RoleMatches(OB!Leaf(sections, a),
                                  OB!Applicability(sections["FRR"][a[1]], a[3]), p.role)
             THEN {[at |-> a, schema |-> OB!Get(OB!Leaf(sections, a), "schema"), terms |-> ts] :
                      ts \in OB!Resolve(OB!Leaf(sections, a),
                                        OB!Applicability(sections["FRR"][a[1]], a[3]), p)}
             ELSE {}
<1>1. OB!Select(sections, p) = UNION {Of(a) : a \in OB!Rules(sections)}
  BY DEF OB!Select
<1>2. [at |-> at, schema |-> OB!Get(leaf, "schema"), terms |-> terms] \in Of(at)
  OBVIOUS
<1> HIDE DEF Of
<1> QED BY <1>1, <1>2

(* A profile that says as much as another, or less.                        *)
Widens(wide, p) ==
    /\ wide.role = p.role
    /\ wide.class \in {Missing, p.class}
    /\ wide.certType \in {Missing, p.certType}
    /\ wide.path \in {Missing, p.path}

HoldsRules(sections) == \A at \in OB!Rules(sections) : IsRule(OB!Leaf(sections, at))

CoveredBy(o, selected) ==
    \E w \in selected : w.at = o.at /\ OB!ForceRank(w.terms.force) >= OB!ForceRank(o.terms.force)

LEMMA WiderSelects ==
  ASSUME NEW sections, NEW p, NEW wide, KeyOrder \in Seq(Keys),
         HoldsRules(sections), Widens(wide, p), NEW o \in OB!Select(sections, p)
  PROVE  CoveredBy(o, OB!Select(sections, wide))
<1> SUFFICES \E w \in OB!Select(sections, wide) :
                w.at = o.at /\ OB!ForceRank(w.terms.force) >= OB!ForceRank(o.terms.force)
  BY DEF CoveredBy
<1>1. /\ wide.role = p.role
      /\ wide.class \in {Missing, p.class}
      /\ wide.certType \in {Missing, p.certType}
      /\ wide.path \in {Missing, p.path}
  BY DEF Widens
<1> DEFINE at       == o.at
           leaf     == OB!Leaf(sections, at)
           applies  == OB!Applicability(sections["FRR"][at[1]], at[3])
           variants == leaf["varies_by_class"]
<1>2. /\ at \in OB!Rules(sections)
      /\ OB!TypeMatches(at[2], p)
      /\ OB!Admits(applies, "paths", p.path)
      /\ OB!RoleMatches(leaf, applies, p.role)
      /\ o.terms \in OB!Resolve(leaf, applies, p)
  BY DEF OB!Select
<1>3. /\ OB!TypeMatches(at[2], wide)
      /\ OB!Admits(applies, "paths", wide.path)
      /\ OB!RoleMatches(leaf, applies, wide.role)
  BY <1>1, <1>2 DEF OB!TypeMatches, OB!Admits
<1>4. ASSUME NEW terms \in OB!Resolve(leaf, applies, wide)
      PROVE  \E w \in OB!Select(sections, wide) : w.at = at /\ w.terms = terms
  <2> DEFINE w == [at |-> at, schema |-> OB!Get(leaf, "schema"), terms |-> terms]
  <2>1. w \in OB!Select(sections, wide)
    BY <1>2, <1>3, MatchesAreSelected
  <2> QED BY <2>1
<1>5. KeyOrder \in Seq(Keys) /\ IsRule(leaf)
  BY <1>2 DEF HoldsRules
<1> HIDE DEF at, leaf, applies
<1>6. SUFFICES \E terms \in OB!Resolve(leaf, applies, wide) :
                  OB!ForceRank(terms.force) >= OB!ForceRank(o.terms.force)
  BY <1>4 DEF at
<1>7. \A f : OB!ForceRank(f) \in 0..4
  BY DEF OB!ForceRank
<1>8. CASE "varies_by_class" \notin DOMAIN leaf
  <2>1. o.terms = OB!Fill(leaf, Missing) /\ OB!Admits(applies, "classes", p.class)
    BY <1>2, <1>8 DEF OB!Resolve
  <2>2. OB!Admits(applies, "classes", wide.class)
    BY <1>1, <2>1 DEF OB!Admits
  <2>3. o.terms \in OB!Resolve(leaf, applies, wide)
    BY <1>8, <2>1, <2>2 DEF OB!Resolve
  <2> QED BY <1>7, <2>3
<1>9. CASE "varies_by_class" \in DOMAIN leaf
  <2>1. PICK c \in DOMAIN variants :
           /\ o.terms = OB!Fill(variants[c], c)
           /\ c = IF p.class # Missing THEN p.class ELSE OB!Strictest(variants)
    <3>1. "varies_by_class" \in DOMAIN leaf => DOMAIN leaf["varies_by_class"] \subseteq Keys
      BY <1>5 DEF IsRule
    <3> QED BY <1>5, <1>9, <3>1, SelectedFrom DEF leaf, at
  <2>2. CASE wide.class = p.class
    <3>1. o.terms \in OB!Resolve(leaf, applies, wide)
      BY <1>2, <1>9, <2>2 DEF OB!Resolve
    <3> QED BY <1>7, <3>1
  <2>3. CASE wide.class = Missing
    <3> DEFINE d == OB!Strictest(variants)
    <3>1. DOMAIN variants \subseteq Keys /\ Stated(variants[c])
      BY <1>5, <1>9 DEF IsRule
    <3>2. /\ d \in DOMAIN variants
          /\ \/ OB!ForceRank(OB!Get(variants[c], "force")) < OB!ForceRank(OB!Get(variants[d], "force"))
             \/ OB!ForceRank(OB!Get(variants[c], "force")) = OB!ForceRank(OB!Get(variants[d], "force"))
      <4> HIDE DEF variants
      <4> QED BY <1>5, <2>1, <3>1, StrictestExists
    <3>3. OB!ForceRank(OB!Get(variants[d], "force")) >= OB!ForceRank(OB!Get(variants[c], "force"))
      BY <1>7, <3>2
    <3>4. Stated(variants[d])
      BY <1>5, <1>9, <3>2 DEF IsRule
    <3>5. OB!ForceRank(OB!Fill(variants[d], d).force) >= OB!ForceRank(o.terms.force)
      BY <2>1, <3>1, <3>3, <3>4, FillRanks
    <3>6. OB!Fill(variants[d], d) \in OB!Resolve(leaf, applies, wide)
      BY <1>9, <2>1, <2>3 DEF OB!Resolve
    <3> QED BY <3>5, <3>6
  <2> QED BY <1>1, <2>2, <2>3
<1> QED BY <1>8, <1>9

LEMMA WideMissesNothing == Published => WideProfileMissesNothing
<1> SUFFICES ASSUME Published, NEW p \in Profiles, NEW dropped \in SUBSET {"class", "certType", "path"},
                    NEW o \in ObligationsAfter(p), NEW wide,
                    wide = [f \in DOMAIN p |-> IF f \in dropped THEN Missing ELSE p[f]]
             PROVE  \E w \in ObligationsAfter(wide) :
                       w.at = o.at /\ OB!ForceRank(w.terms.force) >= OB!ForceRank(o.terms.force)
  BY DEF WideProfileMissesNothing
<1>1. Widens(wide, p)
  BY SemanticDiffAssumption DEF Widens
<1>2. KeyOrder \in Seq(Keys) /\ HoldsRules(SectionsOf(upstream))
  BY RulesAreRules DEF HoldsRules
<1>3. CoveredBy(o, OB!Select(SectionsOf(upstream), wide))
  BY <1>1, <1>2, WiderSelects DEF ObligationsAfter
<1> QED BY <1>3 DEF CoveredBy, ObligationsAfter

(***************************************************************************)
(* A profile that says less is obliged to as much, as strictly or more, in *)
(* any document (obligations.rs resolve).                                  *)
(***************************************************************************)
THEOREM WideProfilesMissNothing == Spec => []WideProfileMissesNothing
BY AllIsPublished, WideMissesNothing, PTL

-----------------------------------------------------------------------------
(* Known exploited vulnerabilities.                                        *)

Cve(e) == KD!Get(e, "cveID")

(* The entries that get() finds under an id. *)
Listed(list) == DOMAIN list = 1..Len(list) /\ Len(list) \in Nat

CveFound(list, i) ==
    /\ Cve(list[i]) # Missing
    /\ \A j \in DOMAIN list : Cve(list[j]) = Cve(list[i]) => j = i

LEMMA FlattenedCves ==
  ASSUME NEW doc
  PROVE  DOMAIN KD!FlattenKev(doc) \ {Missing}
         = {Cve(doc.substance.vulnerabilities[i]) : i \in DOMAIN doc.substance.vulnerabilities} \ {Missing}
<1> DEFINE list  == doc.substance.vulnerabilities
           keyed == {i \in DOMAIN list : "cveID" \in DOMAIN list[i]}
           pairs == [i \in keyed |-> <<list[i]["cveID"], list[i]>>]
<1>1. KD!FlattenKev(doc) = KD!Collected(pairs)
  BY DEF KD!FlattenKev
<1>2. \A i \in DOMAIN list : Cve(list[i]) # Missing => i \in keyed
  BY DEF Cve, KD!Get
<1>3. DOMAIN pairs = keyed /\ \A i \in keyed : pairs[i][1] = Cve(list[i])
  BY DEF Cve, KD!Get
<1> HIDE DEF pairs
<1>4. DOMAIN KD!FlattenKev(doc) = {Cve(list[i]) : i \in keyed}
  BY <1>1, <1>3 DEF KD!Collected
<1> QED BY <1>2, <1>4

LEMMA FlattenedEntry ==
  ASSUME NEW doc, Listed(doc.substance.vulnerabilities),
         NEW i \in DOMAIN doc.substance.vulnerabilities, CveFound(doc.substance.vulnerabilities, i)
  PROVE  /\ Cve(doc.substance.vulnerabilities[i]) \in DOMAIN KD!FlattenKev(doc)
         /\ KD!FlattenKev(doc)[Cve(doc.substance.vulnerabilities[i])] = doc.substance.vulnerabilities[i]
<1> DEFINE list  == doc.substance.vulnerabilities
           keyed == {n \in DOMAIN list : "cveID" \in DOMAIN list[n]}
           pairs == [n \in keyed |-> <<list[n]["cveID"], list[n]>>]
           k == Cve(list[i])
           Last(n) == pairs[n][1] = k /\ \A j \in DOMAIN pairs : pairs[j][1] = k => j <= n
<1>1. KD!FlattenKev(doc) = KD!Collected(pairs)
  BY DEF KD!FlattenKev
<1>2. i \in keyed /\ i \in Nat /\ \A j \in DOMAIN list : Cve(list[j]) = k => j = i
  BY DEF Cve, KD!Get, CveFound, Listed
<1>3. DOMAIN pairs = keyed /\ \A n \in keyed : pairs[n][1] = Cve(list[n]) /\ pairs[n][2] = list[n]
  BY DEF Cve, KD!Get
<1> HIDE DEF pairs, k
<1>4. \A j \in DOMAIN pairs : pairs[j][1] = k <=> j = i
  BY <1>2, <1>3 DEF k
<1>5. i \in DOMAIN pairs /\ k \in {pairs[j][1] : j \in DOMAIN pairs}
  BY <1>2, <1>3, <1>4
<1>6. (CHOOSE n \in DOMAIN pairs : Last(n)) = i
  BY <1>2, <1>4, <1>5
<1>7. /\ k \in DOMAIN KD!Collected(pairs)
      /\ KD!Collected(pairs)[k] = pairs[CHOOSE n \in DOMAIN pairs : Last(n)][2]
  BY <1>5 DEF KD!Collected
<1>8. pairs[i][2] = list[i]
  BY <1>2, <1>3
<1> QED BY <1>1, <1>6, <1>7, <1>8 DEF k

LEMMA KevsAreLists ==
  ASSUME Published, NEW b \in {signed, upstream}
  PROVE  /\ "kev" \in Sources
         /\ Listed(Vulnerabilities(b))
BY SemanticDiffAssumption DEF Published, Vulnerabilities, Listed

LEMMA CvesAreFlattened ==
  ASSUME Published, NEW b \in {signed, upstream}
  PROVE  Cves(b) = DOMAIN KD!FlattenKev(b["kev"]) \ {Missing}
<1> DEFINE list == Vulnerabilities(b)
<1>1. list = b["kev"].substance.vulnerabilities
  BY DEF Vulnerabilities
<1>2. DOMAIN KD!FlattenKev(b["kev"]) \ {Missing} = {Cve(list[i]) : i \in DOMAIN list} \ {Missing}
  BY <1>1, FlattenedCves
<1>3. {Cve(list[i]) : i \in DOMAIN list} = {KD!Get(e, "cveID") : e \in Entries(b)}
  BY DEF Entries, Cve
<1> QED BY <1>2, <1>3 DEF Cves

(* A moved entry that has its id for itself on both sides is highlighted.  *)
LEMMA MovedDueDates ==
  ASSUME NEW before, NEW after, NEW cve, NEW old, NEW new,
         old = KD!FlattenKev(before), new = KD!FlattenKev(after),
         cve \in DOMAIN old, cve \in DOMAIN new,
         KD!Get(old[cve], "dueDate") # KD!Get(new[cve], "dueDate")
  PROVE  <<cve, "dueDate">> \in KD!Compared(before, after).highlights
<1>1. "dueDate" \in KD!FieldChanges(old[cve], new[cve]) /\ "dueDate" \in KD!KevHighlights
  BY DEF KD!FieldChanges, KD!Get, KD!KevHighlights
<1>2. old[cve] # new[cve]
  OBVIOUS
<1> DEFINE stayed == {id \in DOMAIN old \cap DOMAIN new : old[id] # new[id]}
           moved  == [id \in stayed |-> KD!FieldChanges(old[id], new[id])]
           Of(id) == {<<id, f>> : f \in moved[id] \cap KD!KevHighlights}
<1>3. KD!Compared(before, after).highlights = UNION {Of(id) : id \in stayed}
  BY DEF KD!Compared, KD!CompareMaps
<1>4. cve \in stayed /\ <<cve, "dueDate">> \in Of(cve)
  BY <1>1, <1>2
<1> HIDE DEF Of, stayed
<1> QED BY <1>3, <1>4

LEMMA MembershipIsMinor == Published => ListMembershipIsMinor
<1> SUFFICES ASSUME Published PROVE ListMembershipIsMinor
  OBVIOUS
<1>1. ASSUME Cves(signed) # Cves(upstream) PROVE SyncPlan.severity >= Minor
  <2> DEFINE delta == KD!Compared(signed["kev"], upstream["kev"])
  <2>1. DOMAIN KD!FlattenKev(signed["kev"]) # DOMAIN KD!FlattenKev(upstream["kev"])
    BY <1>1, CvesAreFlattened
  <2>2. /\ delta.added = DOMAIN KD!FlattenKev(upstream["kev"]) \ DOMAIN KD!FlattenKev(signed["kev"])
        /\ delta.removed = DOMAIN KD!FlattenKev(signed["kev"]) \ DOMAIN KD!FlattenKev(upstream["kev"])
    BY DEF KD!Compared, KD!CompareMaps
  <2>3. delta.added # {} \/ delta.removed # {}
    <3> HIDE DEF delta
    <3> QED BY <2>1, <2>2
  <2>4. KD!SeverityOf(signed["kev"], upstream["kev"]) = Minor
    <3> HIDE DEF delta
    <3>1. \A d : (d.added # {} \/ d.removed # {}) =>
             (CASE d.added # {} \/ d.removed # {} -> KD!Minor
                [] d.added = {} /\ d.removed = {} /\ ~KD!IsEmpty(d) -> KD!Routine
                [] OTHER -> KD!None) = KD!Minor
      OBVIOUS
    <3>2. KD!SeverityOf(signed["kev"], upstream["kev"]) = KD!Minor
      BY <2>3, <3>1 DEF KD!SeverityOf, delta
    <3> QED BY <3>2 DEF KD!Minor, Minor
  <2>5. signed["kev"].substance # upstream["kev"].substance
    BY <2>1 DEF KD!FlattenKev
  <2>6. \A rules : StrategySeverity("kev", signed["kev"], upstream["kev"], rules) = Minor
    BY <2>4 DEF StrategySeverity
  <2>7. "kev" \in Sources
    BY KevsAreLists
  <2> QED BY <2>5, <2>6, <2>7, PlanIsAsLoud
<1>2. ASSUME HasUniqueCves(signed), HasUniqueCves(upstream),
             NEW e \in Entries(signed), NEW f \in Entries(upstream),
             KD!Get(e, "cveID") # Missing, KD!Get(e, "cveID") = KD!Get(f, "cveID"),
             KD!Get(e, "dueDate") # KD!Get(f, "dueDate")
      PROVE  <<e.cveID, "dueDate">> \in KD!Compared(signed["kev"], upstream["kev"]).highlights
  <2> DEFINE mine   == Vulnerabilities(signed)
             theirs == Vulnerabilities(upstream)
             cve    == Cve(e)
  <2>1. PICK i \in DOMAIN mine : e = mine[i]
    BY DEF Entries
  <2>2. PICK j \in DOMAIN theirs : f = theirs[j]
    BY DEF Entries
  <2>3. /\ \A k \in DOMAIN mine : Cve(mine[k]) = Cve(mine[i]) => k = i
        /\ \A k \in DOMAIN theirs : Cve(theirs[k]) = Cve(theirs[j]) => k = j
    BY <1>2, <2>1, <2>2 DEF HasUniqueCves, Cve
  <2>4. Cve(mine[i]) = cve /\ Cve(theirs[j]) = cve /\ cve # Missing /\ e.cveID = cve
    BY <1>2, <2>1, <2>2 DEF Cve, KD!Get
  <2>5. Listed(mine) /\ Listed(theirs)
    BY KevsAreLists
  <2>6. mine = signed["kev"].substance.vulnerabilities /\ theirs = upstream["kev"].substance.vulnerabilities
    BY DEF Vulnerabilities
  <2>7. CveFound(mine, i) /\ CveFound(theirs, j)
    BY <2>3, <2>4 DEF CveFound
  <2> HIDE DEF mine, theirs, cve
  <2>8. /\ Cve(mine[i]) \in DOMAIN KD!FlattenKev(signed["kev"])
        /\ KD!FlattenKev(signed["kev"])[Cve(mine[i])] = mine[i]
    BY <2>5, <2>6, <2>7, FlattenedEntry
  <2>9. /\ Cve(theirs[j]) \in DOMAIN KD!FlattenKev(upstream["kev"])
        /\ KD!FlattenKev(upstream["kev"])[Cve(theirs[j])] = theirs[j]
    BY <2>5, <2>6, <2>7, FlattenedEntry
  <2>10. /\ cve \in DOMAIN KD!FlattenKev(signed["kev"]) /\ KD!FlattenKev(signed["kev"])[cve] = e
         /\ cve \in DOMAIN KD!FlattenKev(upstream["kev"]) /\ KD!FlattenKev(upstream["kev"])[cve] = f
    BY <2>1, <2>2, <2>4, <2>8, <2>9
  <2> QED BY <1>2, <2>4, <2>10, MovedDueDates
<1> QED BY <1>1, <1>2 DEF ListMembershipIsMinor

(***************************************************************************)
(* A CVE that comes or goes is at least Minor in any two catalogs, and one *)
(* whose due date moves is highlighted (diff/kev.rs).                      *)
(***************************************************************************)
THEOREM MembershipsAreMinor == Spec => []ListMembershipIsMinor
BY AllIsPublished, MembershipIsMinor, PTL

-----------------------------------------------------------------------------
(* What changed for a profile.                                             *)

(* With ids of their own, the obligations are what the index holds.        *)
LEMMA IndexHoldsAll ==
  ASSUME NEW sections, NEW p, Unambiguous(OB!Select(sections, p))
  PROVE  /\ DOMAIN OB!Index(sections, p) = {OB!Id(o) : o \in OB!Select(sections, p)}
         /\ \A o \in OB!Select(sections, p) : OB!Index(sections, p)[OB!Id(o)] = o
<1> DEFINE selected == OB!Select(sections, p)
           Same(id) == {o \in selected : OB!Id(o) = id}
           Lasting(id) == CHOOSE o \in Same(id) : \A q \in Same(id) \ {o} : OB!Later(o, q)
<1>1. OB!Index(sections, p) = [id \in {OB!Id(o) : o \in selected} |-> Lasting(id)]
  BY DEF OB!Index
<1>2. ASSUME NEW o \in selected PROVE Lasting(OB!Id(o)) = o
  <2> HIDE DEF selected
  <2>1. Same(OB!Id(o)) = {o}
    BY DEF Unambiguous, selected
  <2> HIDE DEF Same
  <2> QED BY <2>1
<1> HIDE DEF selected, Lasting
<1> QED BY <1>1, <1>2 DEF selected

(* The obligations of an index, one for each id.                           *)
Triple(o) == <<OB!Id(o), o.terms.force, o.terms.statement>>

Indexed(index, selected) ==
    /\ DOMAIN index = {OB!Id(o) : o \in selected}
    /\ \A o \in selected : index[OB!Id(o)] = o

Difference(old, new) ==
    [added   |-> {new[id] : id \in DOMAIN new \ DOMAIN old},
     removed |-> {old[id] : id \in DOMAIN old \ DOMAIN new},
     changed |-> OB!Changes(old, new)]

(* The last value of a field of an obligation that stayed.                 *)
LastOf(changed, id, field, was) ==
    IF \E c \in changed : c.id = id /\ c.field = field
    THEN (CHOOSE c \in changed : c.id = id /\ c.field = field).to
    ELSE was

LEMMA ChangesLast ==
  ASSUME NEW old, NEW new, NEW id \in DOMAIN old \cap DOMAIN new, NEW field \in {"force", "statement"}
  PROVE  LastOf(OB!Changes(old, new), id, field, old[id].terms[field]) = new[id].terms[field]
<1> DEFINE changed == OB!Changes(old, new)
           Change(i, f) == [id |-> i, field |-> f, from |-> old[i].terms[f], to |-> new[i].terms[f]]
           Of(c) == c.id = id /\ c.field = field
<1>1. changed = {c \in {Change(i, f) : i \in DOMAIN old \cap DOMAIN new, f \in {"force", "statement"}} :
                   c.from # c.to}
  BY DEF OB!Changes
<1> HIDE DEF changed
<1>2. \A c \in changed : Of(c) => c.to = new[id].terms[field]
  BY <1>1
<1>3. CASE \E c \in changed : Of(c)
  <2>1. PICK c \in changed : c = CHOOSE d \in changed : Of(d)
    BY <1>3
  <2>2. Of(CHOOSE d \in changed : Of(d)) /\ (CHOOSE d \in changed : Of(d)) \in changed
    BY <1>3
  <2> QED BY <1>2, <1>3, <2>2 DEF LastOf, changed
<1>4. CASE ~\E c \in changed : Of(c)
  <2>1. Change(id, field) \notin changed
    BY <1>4
  <2>2. Change(id, field).from = Change(id, field).to
    BY <1>1, <2>1
  <2>3. old[id].terms[field] = new[id].terms[field]
    BY <2>2
  <2> QED BY <1>4, <2>3 DEF LastOf, changed
<1> QED BY <1>3, <1>4

LEMMA DifferenceReplays ==
  ASSUME NEW old, NEW new, NEW before, NEW after, Indexed(old, before), Indexed(new, after)
  PROVE  Replayed(Terms(before), Difference(old, new)) = Terms(after)
<1> DEFINE delta == Difference(old, new)
           gone  == {OB!Id(o) : o \in delta.removed}
           Moved(t) == <<t[1], LastOf(delta.changed, t[1], "force", t[2]),
                               LastOf(delta.changed, t[1], "statement", t[3])>>
           staying == {u \in Terms(before) : u[1] \notin gone}
<1>1. Replayed(Terms(before), delta) = Terms(delta.added) \cup {Moved(t) : t \in staying}
  BY DEF Replayed, LastOf
<1>2. /\ delta.added = {new[id] : id \in DOMAIN new \ DOMAIN old}
      /\ delta.removed = {old[id] : id \in DOMAIN old \ DOMAIN new}
      /\ delta.changed = OB!Changes(old, new)
  BY DEF Difference
<1>3. \A s : Terms(s) = {Triple(o) : o \in s}
  BY DEF Terms, Triple
<1> HIDE DEF delta
<1>4. gone = DOMAIN old \ DOMAIN new
  BY <1>2 DEF Indexed
<1> HIDE DEF gone
<1>5. \A o \in before : Triple(o)[1] = OB!Id(o) /\ Triple(o)[2] = o.terms.force
                        /\ Triple(o)[3] = o.terms.statement
  BY DEF Triple
<1>6. ASSUME NEW o \in before, NEW n \in after, OB!Id(o) = OB!Id(n)
      PROVE  Moved(Triple(o)) = Triple(n)
  <2>1. OB!Id(o) \in DOMAIN old \cap DOMAIN new /\ old[OB!Id(o)] = o /\ new[OB!Id(o)] = n
    BY <1>6 DEF Indexed
  <2>2. LastOf(delta.changed, OB!Id(o), "force", o.terms["force"]) = n.terms["force"]
    BY <1>2, <2>1, ChangesLast
  <2>3. LastOf(delta.changed, OB!Id(o), "statement", o.terms["statement"]) = n.terms["statement"]
    BY <1>2, <2>1, ChangesLast
  <2> QED BY <1>5, <1>6, <2>2, <2>3 DEF Triple
<1>7. staying = {Triple(o) : o \in {q \in before : OB!Id(q) \in DOMAIN new}}
  BY <1>3, <1>4, <1>5 DEF Indexed
<1> HIDE DEF Moved, staying
<1>8. {Moved(t) : t \in staying} = {Triple(n) : n \in {q \in after : OB!Id(q) \in DOMAIN old}}
  <2>1. ASSUME NEW t \in staying
        PROVE  Moved(t) \in {Triple(n) : n \in {q \in after : OB!Id(q) \in DOMAIN old}}
    <3>1. PICK o \in before : t = Triple(o) /\ OB!Id(o) \in DOMAIN new
      BY <1>7
    <3>2. PICK n \in after : OB!Id(n) = OB!Id(o)
      BY <3>1 DEF Indexed
    <3>3. OB!Id(n) \in DOMAIN old
      BY <3>2 DEF Indexed
    <3> QED BY <1>6, <3>1, <3>2, <3>3
  <2>2. ASSUME NEW n \in after, OB!Id(n) \in DOMAIN old
        PROVE  Triple(n) \in {Moved(t) : t \in staying}
    <3>1. PICK o \in before : OB!Id(o) = OB!Id(n)
      BY <2>2 DEF Indexed
    <3>2. OB!Id(o) \in DOMAIN new
      BY <3>1 DEF Indexed
    <3>3. Triple(o) \in staying /\ Moved(Triple(o)) = Triple(n)
      BY <1>6, <1>7, <3>1, <3>2
    <3> QED BY <3>3
  <2> QED BY <2>1, <2>2
<1>9. Terms(delta.added) = {Triple(n) : n \in {q \in after : OB!Id(q) \notin DOMAIN old}}
  <2>1. delta.added = {q \in after : OB!Id(q) \notin DOMAIN old}
    BY <1>2 DEF Indexed
  <2> QED BY <1>3, <2>1
<1> QED BY <1>1, <1>3, <1>8, <1>9 DEF delta

LEMMA Replays == DeltaReplays
<1> SUFFICES ASSUME NEW p \in Profiles,
                    Unambiguous(ObligationsBefore(p)), Unambiguous(ObligationsAfter(p))
             PROVE  Replayed(Terms(ObligationsBefore(p)),
                             OB!Delta(SectionsOf(signed), SectionsOf(upstream), p))
                    = Terms(ObligationsAfter(p))
  BY DEF DeltaReplays
<1> DEFINE old == OB!Index(SectionsOf(signed), p)
           new == OB!Index(SectionsOf(upstream), p)
<1>1. Indexed(old, ObligationsBefore(p)) /\ Indexed(new, ObligationsAfter(p))
  BY IndexHoldsAll DEF Indexed, ObligationsBefore, ObligationsAfter
<1>2. OB!Delta(SectionsOf(signed), SectionsOf(upstream), p) = Difference(old, new)
  BY DEF OB!Delta, Difference
<1> QED BY <1>1, <1>2, DifferenceReplays

(***************************************************************************)
(* The delta for a profile, applied to what bound it before, gives what    *)
(* binds it now, for any two rules documents (obligations.rs delta).       *)
(***************************************************************************)
THEOREM DeltasReplay == Spec => []DeltaReplays
BY Replays, PTL

-----------------------------------------------------------------------------
(* Whom a change lands on.                                                 *)

LEMMA RowsAreComplete ==
  ASSUME NEW c \in OB!Classes, NEW t \in {"20x", "rev5"}
  PROVE  [role |-> "Providers", class |-> c, certType |-> t, path |-> Missing] \in OB!DefaultProfiles
BY DEF OB!DefaultProfiles, OB!Providers

LEMMA ResolvesToOne ==
  ASSUME NEW leaf, NEW applies, NEW p,
         NEW t \in OB!Resolve(leaf, applies, p), NEW u \in OB!Resolve(leaf, applies, p)
  PROVE  t = u
<1>1. CASE "varies_by_class" \notin DOMAIN leaf
  BY <1>1 DEF OB!Resolve
<1>2. CASE "varies_by_class" \in DOMAIN leaf
  BY <1>2 DEF OB!Resolve
<1> QED BY <1>1, <1>2

(* What a place says of an obligation that is selected from it.            *)
LEMMA SelectedAt ==
  ASSUME NEW sections, NEW p, NEW o \in OB!Select(sections, p),
         NEW leaf, leaf = OB!Leaf(sections, o.at),
         NEW applies, applies = OB!Applicability(sections["FRR"][o.at[1]], o.at[3])
  PROVE  /\ o.at \in OB!Rules(sections)
         /\ OB!TypeMatches(o.at[2], p)
         /\ OB!Admits(applies, "paths", p.path)
         /\ OB!RoleMatches(leaf, applies, p.role)
         /\ o.terms \in OB!Resolve(leaf, applies, p)
         /\ o = [at |-> o.at, schema |-> OB!Get(leaf, "schema"), terms |-> o.terms]
BY DEF OB!Select

LEMMA OnePerPlace ==
  ASSUME NEW sections, NEW p, NEW o \in OB!Select(sections, p), NEW n \in OB!Select(sections, p),
         o.at = n.at
  PROVE  o = n
<1> DEFINE leaf    == OB!Leaf(sections, o.at)
           applies == OB!Applicability(sections["FRR"][o.at[1]], o.at[3])
<1>1. /\ o.terms \in OB!Resolve(leaf, applies, p)
      /\ o = [at |-> o.at, schema |-> OB!Get(leaf, "schema"), terms |-> o.terms]
  BY SelectedAt
<1>2. /\ n.terms \in OB!Resolve(leaf, applies, p)
      /\ n = [at |-> n.at, schema |-> OB!Get(leaf, "schema"), terms |-> n.terms]
  BY SelectedAt
<1> HIDE DEF leaf, applies
<1>3. o.terms = n.terms
  BY <1>1, <1>2, ResolvesToOne
<1> QED BY <1>1, <1>2, <1>3

LEMMA NarrowerIsUnambiguous ==
  ASSUME NEW sections, NEW p, NEW q, KeyOrder \in Seq(Keys), HoldsRules(sections),
         Widens(p, q), Unambiguous(OB!Select(sections, p))
  PROVE  Unambiguous(OB!Select(sections, q))
<1> SUFFICES ASSUME NEW o \in OB!Select(sections, q), NEW n \in OB!Select(sections, q),
                    OB!Id(o) = OB!Id(n)
             PROVE  o = n
  BY DEF Unambiguous
<1>1. PICK v \in OB!Select(sections, p) : v.at = o.at
  BY WiderSelects DEF CoveredBy
<1>2. PICK w \in OB!Select(sections, p) : w.at = n.at
  BY WiderSelects DEF CoveredBy
<1>3. OB!Id(v) = OB!Id(w)
  BY <1>1, <1>2 DEF OB!Id
<1>4. v = w
  BY <1>3 DEF Unambiguous
<1> QED BY <1>1, <1>2, <1>4, OnePerPlace

(* What a profile is obliged to, one of the rows it is wider than is.      *)
LEMMA SomeRowSelects ==
  ASSUME NEW sections, NEW p, KeyOrder \in Seq(Keys), HoldsRules(sections),
         Charted(sections), HasRows(p), NEW o \in OB!Select(sections, p)
  PROVE  \E q \in OB!DefaultProfiles :
            q.role = "Providers" /\ Widens(p, q) /\ o \in OB!Select(sections, q)
<1> DEFINE leaf     == OB!Leaf(sections, o.at)
           applies  == OB!Applicability(sections["FRR"][o.at[1]], o.at[3])
           variants == leaf["varies_by_class"]
<1>1. /\ o.at \in OB!Rules(sections)
      /\ OB!TypeMatches(o.at[2], p)
      /\ OB!Admits(applies, "paths", p.path)
      /\ OB!RoleMatches(leaf, applies, p.role)
      /\ o.terms \in OB!Resolve(leaf, applies, p)
      /\ o = [at |-> o.at, schema |-> OB!Get(leaf, "schema"), terms |-> o.terms]
  BY SelectedAt
<1>2. PICK t \in {"20x", "rev5"} :
         /\ p.certType \in {Missing, t}
         /\ o.at[2] = "all" \/ t = o.at[2]
  <2>1. o.at[2] \in {"20x", "rev5", "all"}
    BY <1>1 DEF Charted
  <2>2. p.certType \in {"20x", "rev5", Missing}
    BY DEF HasRows
  <2>3. p.certType \in {Missing, o.at[2]} \/ o.at[2] = "all"
    BY <1>1 DEF OB!TypeMatches
  <2> QED BY <2>1, <2>2, <2>3
<1>3. PICK c \in OB!Classes :
         p.class \in {Missing, c} /\ \A q : q.class = c => o.terms \in OB!Resolve(leaf, applies, q)
  <2>1. p.class \in OB!Classes \cup {Missing} /\ "a" \in OB!Classes
    BY DEF HasRows, OB!Classes
  <2>2. CASE "varies_by_class" \in DOMAIN leaf
    <3>1. DOMAIN variants \subseteq OB!Classes
      BY <1>1, <2>2 DEF Charted
    <3>2. "varies_by_class" \in DOMAIN leaf => DOMAIN leaf["varies_by_class"] \subseteq Keys
      BY <1>1 DEF HoldsRules, IsRule
    <3>3. PICK c \in DOMAIN variants :
             /\ o.terms = OB!Fill(variants[c], c)
             /\ c = IF p.class # Missing THEN p.class ELSE OB!Strictest(variants)
      BY <2>2, <3>2, SelectedFrom
    <3>4. ASSUME NEW q, q.class = c PROVE o.terms \in OB!Resolve(leaf, applies, q)
      BY <2>2, <3>3, <3>4 DEF OB!Resolve
    <3> QED BY <3>1, <3>3, <3>4
  <2>3. CASE "varies_by_class" \notin DOMAIN leaf
    <3>1. OB!Admits(applies, "classes", p.class) /\ o.terms = OB!Fill(leaf, Missing)
      BY <1>1, <2>3 DEF OB!Resolve
    <3>2. PICK c \in OB!Classes : p.class \in {Missing, c} /\ OB!Admits(applies, "classes", c)
      <4>1. "classes" \in DOMAIN applies => applies["classes"] \cap OB!Classes # {}
        BY <1>1 DEF Charted
      <4> HIDE DEF applies
      <4>2. CASE p.class # Missing
        BY <2>1, <3>1, <4>2
      <4>3. CASE p.class = Missing
        BY <2>1, <4>1, <4>3 DEF OB!Admits
      <4> QED BY <4>2, <4>3
    <3>3. ASSUME NEW q, q.class = c PROVE o.terms \in OB!Resolve(leaf, applies, q)
      BY <2>3, <3>1, <3>2, <3>3 DEF OB!Resolve
    <3> QED BY <3>2, <3>3
  <2> QED BY <2>2, <2>3
<1> DEFINE q == [role |-> "Providers", class |-> c, certType |-> t, path |-> Missing]
<1>4. q \in OB!DefaultProfiles /\ q.role = "Providers" /\ q.class = c /\ q.certType = t /\ q.path = Missing
  BY RowsAreComplete
<1>5. p.role = "Providers" /\ p.path = Missing
  BY DEF HasRows
<1> HIDE DEF q
<1>6. Widens(p, q)
  BY <1>2, <1>3, <1>4, <1>5 DEF Widens
<1>7. OB!TypeMatches(o.at[2], q)
  BY <1>2, <1>4 DEF OB!TypeMatches
<1>8. OB!Admits(applies, "paths", q.path) /\ OB!RoleMatches(leaf, applies, q.role)
  BY <1>1, <1>4, <1>5
<1>9. o.terms \in OB!Resolve(leaf, applies, q)
  BY <1>3, <1>4
<1>10. [at |-> o.at, schema |-> OB!Get(leaf, "schema"), terms |-> o.terms] \in OB!Select(sections, q)
  BY <1>1, <1>7, <1>8, <1>9, MatchesAreSelected
<1> QED BY <1>1, <1>4, <1>6, <1>10

LEMMA OnlyBindingRanksHighest ==
  ASSUME NEW f
  PROVE  OB!ForceRank(f) = 4 <=> f \in OB!Binding
<1> DEFINE r == OB!ForceRank(f)
           b == f \in OB!Binding
<1>1. \A d : d \in {"MUST", "MUST NOT"} => d \notin {"SHOULD", "SHOULD NOT", "MAY", Missing}
  BY SemanticDiffAssumption
<1>2. b => f \notin {"SHOULD", "SHOULD NOT"} /\ f # "MAY" /\ f # Missing
  BY <1>1 DEF OB!Binding
<1>3. b => r = 4
  BY <1>2 DEF OB!ForceRank
<1>4. ~b => r \in 0..3
  BY DEF OB!ForceRank
<1> HIDE DEF r, b
<1>5. r = 4 <=> b
  BY <1>3, <1>4
<1> QED BY <1>5 DEF r, b

(* A rule that no longer binds the wider profile does not bind the         *)
(* narrower one.                                                           *)
LEMMA NarrowerIsNotBound ==
  ASSUME NEW sections, NEW p, NEW q, KeyOrder \in Seq(Keys), HoldsRules(sections),
         Widens(p, q), NEW n \in OB!Select(sections, q),
         OB!Id(n) \notin Bound(OB!Select(sections, p))
  PROVE  n.terms.force \notin OB!Binding
<1>1. PICK w \in OB!Select(sections, p) :
         w.at = n.at /\ OB!ForceRank(w.terms.force) >= OB!ForceRank(n.terms.force)
  BY WiderSelects DEF CoveredBy
<1>2. OB!Id(w) = OB!Id(n)
  BY <1>1 DEF OB!Id
<1>3. w.terms.force \notin OB!Binding
  BY <1>2 DEF Bound
<1>4. OB!ForceRank(w.terms.force) \in 0..4 /\ OB!ForceRank(n.terms.force) \in 0..4
  BY Ranks
<1> QED BY <1>1, <1>3, <1>4, OnlyBindingRanksHighest

Shown(delta) == delta.added \cup delta.removed \cup OB!BindingShifts(delta) # {}

(* A rule that an index holds with a binding force and the other does not  *)
(* is shown.                                                               *)
LEMMA ShiftIsShown ==
  ASSUME NEW old, NEW new, NEW before, NEW after, Indexed(old, before), Indexed(new, after),
         \/ \E o \in before : /\ o.terms.force \in OB!Binding
                              /\ \A n \in after : OB!Id(n) = OB!Id(o) => n.terms.force \notin OB!Binding
         \/ \E n \in after : /\ n.terms.force \in OB!Binding
                             /\ \A o \in before : OB!Id(o) = OB!Id(n) => o.terms.force \notin OB!Binding
  PROVE  Shown(Difference(old, new))
<1> DEFINE delta == Difference(old, new)
           Change(id) == [id |-> id, field |-> "force",
                          from |-> old[id].terms["force"], to |-> new[id].terms["force"]]
<1>1. /\ delta.added = {new[id] : id \in DOMAIN new \ DOMAIN old}
      /\ delta.removed = {old[id] : id \in DOMAIN old \ DOMAIN new}
      /\ delta.changed = OB!Changes(old, new)
  BY DEF Difference
<1> HIDE DEF delta
<1>2. ASSUME NEW id \in DOMAIN old \cap DOMAIN new,
             (old[id].terms.force \in OB!Binding) # (new[id].terms.force \in OB!Binding)
      PROVE  Shown(delta)
  <2>1. old[id].terms["force"] # new[id].terms["force"]
    BY <1>2
  <2>2. Change(id) \in OB!Changes(old, new)
    BY <2>1 DEF OB!Changes
  <2>3. Change(id) \in OB!BindingShifts(delta)
    BY <1>1, <1>2, <2>2 DEF OB!BindingShifts
  <2> QED BY <2>3 DEF Shown
<1>3. ASSUME NEW o \in before, o.terms.force \in OB!Binding,
             \A n \in after : OB!Id(n) = OB!Id(o) => n.terms.force \notin OB!Binding
      PROVE  Shown(delta)
  <2>1. OB!Id(o) \in DOMAIN old /\ old[OB!Id(o)] = o
    BY DEF Indexed
  <2>2. CASE OB!Id(o) \notin DOMAIN new
    <3>1. delta.removed # {}
      BY <1>1, <2>1, <2>2
    <3> QED BY <3>1 DEF Shown
  <2>3. CASE OB!Id(o) \in DOMAIN new
    <3>1. PICK n \in after : OB!Id(n) = OB!Id(o) /\ new[OB!Id(o)] = n
      BY <2>3 DEF Indexed
    <3> QED BY <1>2, <1>3, <2>1, <2>3, <3>1
  <2> QED BY <2>2, <2>3
<1>4. ASSUME NEW n \in after, n.terms.force \in OB!Binding,
             \A o \in before : OB!Id(o) = OB!Id(n) => o.terms.force \notin OB!Binding
      PROVE  Shown(delta)
  <2>1. OB!Id(n) \in DOMAIN new /\ new[OB!Id(n)] = n
    BY DEF Indexed
  <2>2. CASE OB!Id(n) \notin DOMAIN old
    <3>1. delta.added # {}
      BY <1>1, <2>1, <2>2
    <3> QED BY <3>1 DEF Shown
  <2>3. CASE OB!Id(n) \in DOMAIN old
    <3>1. PICK o \in before : OB!Id(o) = OB!Id(n) /\ old[OB!Id(n)] = o
      BY <2>3 DEF Indexed
    <3> QED BY <1>2, <1>4, <2>1, <2>3, <3>1
  <2> QED BY <2>2, <2>3
<1> QED BY <1>3, <1>4 DEF delta

(* The row of a profile that a shift of a wider one lands on shows it.     *)
LEMMA RowShowsShift ==
  ASSUME NEW before, NEW after, NEW p, NEW q, KeyOrder \in Seq(Keys),
         HoldsRules(before), HoldsRules(after), Widens(p, q),
         Unambiguous(OB!Select(before, p)), Unambiguous(OB!Select(after, p)),
         \/ \E o \in OB!Select(before, q) :
               o.terms.force \in OB!Binding /\ OB!Id(o) \notin Bound(OB!Select(after, p))
         \/ \E n \in OB!Select(after, q) :
               n.terms.force \in OB!Binding /\ OB!Id(n) \notin Bound(OB!Select(before, p))
  PROVE  Shown(OB!Delta(before, after, q))
<1> DEFINE old == OB!Index(before, q)
           new == OB!Index(after, q)
<1>1. Unambiguous(OB!Select(before, q)) /\ Unambiguous(OB!Select(after, q))
  BY NarrowerIsUnambiguous
<1>2. Indexed(old, OB!Select(before, q)) /\ Indexed(new, OB!Select(after, q))
  BY <1>1, IndexHoldsAll DEF Indexed
<1>3. OB!Delta(before, after, q) = Difference(old, new)
  BY DEF OB!Delta, Difference
<1>4. \A n \in OB!Select(after, q) :
         OB!Id(n) \notin Bound(OB!Select(after, p)) => n.terms.force \notin OB!Binding
  BY NarrowerIsNotBound
<1>5. \A o \in OB!Select(before, q) :
         OB!Id(o) \notin Bound(OB!Select(before, p)) => o.terms.force \notin OB!Binding
  BY NarrowerIsNotBound
<1> HIDE DEF old, new
<1>6. Shown(Difference(old, new))
  BY <1>2, <1>4, <1>5, ShiftIsShown
<1> QED BY <1>3, <1>6

LEMMA ShiftsHaveRows == Published => ImpactShowsBindingShifts
<1> DEFINE before == SectionsOf(signed)
           after  == SectionsOf(upstream)
<1> SUFFICES ASSUME Published, Charted(before), Charted(after),
                    NEW p \in Profiles, HasRows(p),
                    Unambiguous(OB!Select(before, p)), Unambiguous(OB!Select(after, p)),
                    Bound(OB!Select(before, p)) # Bound(OB!Select(after, p))
             PROVE  \E row \in Impact :
                       /\ row.profile.role = "Providers"
                       /\ p.certType \in {Missing, row.profile.certType}
                       /\ p.class \in {Missing, row.profile.class}
                       /\ row.delta.added \cup row.delta.removed \cup row.shifts # {}
  BY DEF ImpactShowsBindingShifts, ObligationsBefore, ObligationsAfter
<1>1. KeyOrder \in Seq(Keys) /\ HoldsRules(before) /\ HoldsRules(after)
  BY RulesAreRules DEF HoldsRules
<1>2. "rules" \in SyncPlan.moved
  <2>1. signed["rules"].substance # upstream["rules"].substance
    BY DEF SectionsOf
  <2>2. "rules" \in Sources
    BY SemanticDiffAssumption
  <2>3. /\ Cut(signed) # NoBundle
        /\ Cut(signed)["rules"] # Absent /\ Cut(signed)["rules"].doc = signed["rules"]
        /\ Cut(upstream)["rules"] # Absent /\ Cut(upstream)["rules"].doc = upstream["rules"]
    BY <2>2, CutIsBundle
  <2> QED BY <2>1, <2>2, <2>3
       DEF SyncPlan, G!Plan, G!MovedSources, G!Carried, G!DeltaChanged, G!SubstanceMoved
<1> HIDE DEF before, after
<1>3. PICK q \in OB!DefaultProfiles :
         /\ q.role = "Providers" /\ Widens(p, q)
         /\ \/ \E o \in OB!Select(before, q) :
                  o.terms.force \in OB!Binding /\ OB!Id(o) \notin Bound(OB!Select(after, p))
            \/ \E n \in OB!Select(after, q) :
                  n.terms.force \in OB!Binding /\ OB!Id(n) \notin Bound(OB!Select(before, p))
  <2>1. \/ \E o \in OB!Select(before, p) :
              o.terms.force \in OB!Binding /\ OB!Id(o) \notin Bound(OB!Select(after, p))
        \/ \E n \in OB!Select(after, p) :
              n.terms.force \in OB!Binding /\ OB!Id(n) \notin Bound(OB!Select(before, p))
    BY DEF Bound
  <2> QED BY <1>1, <2>1, SomeRowSelects
<1> DEFINE delta == OB!Delta(before, after, q)
           row   == [profile |-> q, delta |-> delta, shifts |-> OB!BindingShifts(delta)]
<1>4. Shown(delta)
  BY <1>1, <1>3, RowShowsShift
<1>5. ~OB!DeltaIsEmpty(delta)
  <2> HIDE DEF delta
  <2> QED BY <1>4 DEF Shown, OB!DeltaIsEmpty, OB!BindingShifts
<1>6. row \in OB!Impact(before, after)
  BY <1>5 DEF OB!Impact
<1>7. /\ row.profile = q /\ row.delta = delta /\ row.shifts = OB!BindingShifts(delta)
  OBVIOUS
<1> HIDE DEF row, delta
<1>8. row \in Impact
  BY <1>2, <1>6 DEF Impact, before, after
<1>9. /\ p.certType \in {Missing, q.certType} /\ p.class \in {Missing, q.class}
  BY <1>3 DEF Widens
<1> QED BY <1>3, <1>4, <1>7, <1>8, <1>9 DEF Shown

(***************************************************************************)
(* The table of who is affected has a row for every provider that a rule   *)
(* starts or stops to bind, for any two rules documents (report.rs         *)
(* obligation_impact).                                                     *)
(***************************************************************************)
THEOREM ImpactsShowBindingShifts == Spec => []ImpactShowsBindingShifts
BY AllIsPublished, ShiftsHaveRows, PTL

-----------------------------------------------------------------------------
(* The marketplace.                                                        *)

(* As many ids as rows: each row has its own.                              *)
LEMMA RowsHaveTheirOwnIds ==
  ASSUME NEW rows, Listed(rows), MD!UniquelyKeyed(rows),
         NEW i \in DOMAIN rows, NEW j \in DOMAIN rows,
         MD!Get(rows[i], "id") = MD!Get(rows[j], "id")
  PROVE  i = j
<1> DEFINE S == 1..Len(rows)
           T == {MD!Get(rows[n], "id") : n \in S}
           f == [n \in S |-> MD!Get(rows[n], "id")]
<1>1. Len(rows) \in Nat /\ DOMAIN rows = S
  BY DEF Listed
<1>2. T = MD!Ids(rows)
  BY <1>1 DEF MD!Ids
<1>3. IsFiniteSet(S) /\ Cardinality(S) = Len(rows)
  <2> DEFINE n == Len(rows)
  <2>1. n \in Nat /\ 1 \in Int /\ n \in Int
    BY <1>1
  <2> HIDE DEF n
  <2>2. IsFiniteSet(1..n) /\ Cardinality(1..n) = IF 1 > n THEN 0 ELSE n - 1 + 1
    BY <2>1, FS_Interval
  <2>3. Cardinality(1..n) = n
    BY <2>1, <2>2
  <2> QED BY <2>2, <2>3 DEF n
<1>4. f \in Surjection(S, T)
  BY DEF Surjection
<1>5. Cardinality(S) = Cardinality(T)
  <2>1. Cardinality(MD!Ids(rows)) = Len(rows)
    BY DEF MD!UniquelyKeyed, MD!Cardinality, Cardinality
  <2> HIDE DEF S, T
  <2> QED BY <1>2, <1>3, <2>1
<1>6. f \in Injection(S, T)
  <2> HIDE DEF S, T, f
  <2> QED BY <1>3, <1>4, <1>5, FS_SurjSameCardinalityImpliesInj
<1>7. f[i] = f[j] => i = j
  <2> HIDE DEF T
  <2> QED BY <1>1, <1>6 DEF Injection, IsInjective
<1> QED BY <1>1, <1>7

LEMMA KeyedByIds ==
  ASSUME NEW name, NEW rows
  PROVE  DOMAIN MD!Keyed(name, rows) = {<<name, x>> : x \in MD!Ids(rows)}
<1> DEFINE pairs == [i \in DOMAIN rows |-> <<<<name, MD!Get(rows[i], "id")>>, rows[i]>>]
<1>1. MD!Keyed(name, rows) = MD!Collected(pairs)
  BY DEF MD!Keyed
<1>2. DOMAIN pairs = DOMAIN rows /\ \A i \in DOMAIN rows : pairs[i][1] = <<name, MD!Get(rows[i], "id")>>
  OBVIOUS
<1> HIDE DEF pairs
<1>3. DOMAIN MD!Keyed(name, rows) = {pairs[i][1] : i \in DOMAIN pairs}
  BY <1>1 DEF MD!Collected
<1> QED BY <1>2, <1>3 DEF MD!Ids

LEMMA KeyedRow ==
  ASSUME NEW name, NEW rows, Listed(rows), MD!UniquelyKeyed(rows), NEW i \in DOMAIN rows
  PROVE  /\ <<name, MD!Get(rows[i], "id")>> \in DOMAIN MD!Keyed(name, rows)
         /\ MD!Keyed(name, rows)[<<name, MD!Get(rows[i], "id")>>] = rows[i]
<1> DEFINE pairs == [n \in DOMAIN rows |-> <<<<name, MD!Get(rows[n], "id")>>, rows[n]>>]
           k == <<name, MD!Get(rows[i], "id")>>
           Last(n) == pairs[n][1] = k /\ \A j \in DOMAIN pairs : pairs[j][1] = k => j <= n
<1>1. MD!Keyed(name, rows) = MD!Collected(pairs)
  BY DEF MD!Keyed
<1>2. /\ DOMAIN pairs = DOMAIN rows
      /\ \A n \in DOMAIN rows : pairs[n][1] = <<name, MD!Get(rows[n], "id")>> /\ pairs[n][2] = rows[n]
  OBVIOUS
<1> HIDE DEF pairs
<1>3. \A n \in DOMAIN rows : MD!Get(rows[n], "id") = MD!Get(rows[i], "id") => n = i
  BY RowsHaveTheirOwnIds
<1>4. \A n \in DOMAIN pairs : pairs[n][1] = k <=> n = i
  BY <1>2, <1>3
<1>5. i \in Nat
  BY DEF Listed
<1> HIDE DEF k
<1>6. i \in DOMAIN pairs /\ k \in {pairs[j][1] : j \in DOMAIN pairs}
  BY <1>2, <1>4
<1>7. (CHOOSE n \in DOMAIN pairs : Last(n)) = i
  BY <1>4, <1>5, <1>6
<1>8. /\ k \in DOMAIN MD!Collected(pairs)
      /\ MD!Collected(pairs)[k] = pairs[CHOOSE n \in DOMAIN pairs : Last(n)][2]
  BY <1>6 DEF MD!Collected
<1> QED BY <1>1, <1>2, <1>7, <1>8 DEF k

(* What the comparison of the products says, and what classify makes of it.*)
LEMMA ProductsAreCounted ==
  ASSUME NEW before, NEW after, NEW id, MD!Product(id),
         LET delta == MD!DiffOf("Products", before, after)
         IN  id \in delta.added \cup delta.removed \/ (delta.highlights # {} /\ id \in DOMAIN delta.modified),
         "Products" \in DOMAIN before.substance \cup DOMAIN after.substance
  PROVE  MD!SeverityOf(before, after) = Minor
<1> DEFINE names == DOMAIN before.substance \cup DOMAIN after.substance
           deltas == [n \in names |-> MD!DiffOf(n, before, after)]
           all == MD!Compared(before, after)
           delta == MD!DiffOf("Products", before, after)
<1>1. /\ all.added = UNION {deltas[n].added : n \in names}
      /\ all.removed = UNION {deltas[n].removed : n \in names}
      /\ DOMAIN all.modified = UNION {DOMAIN deltas[n].modified : n \in names}
      /\ all.highlights = UNION {deltas[n].highlights : n \in names}
  BY DEF MD!Compared
<1>2. "Products" \in names /\ deltas["Products"] = delta
  OBVIOUS
<1> HIDE DEF deltas, names, all, delta
<1>3. /\ delta.added \subseteq all.added /\ delta.removed \subseteq all.removed
      /\ delta.highlights \subseteq all.highlights
      /\ DOMAIN delta.modified \subseteq DOMAIN all.modified
  BY <1>1, <1>2
<1>4. \/ id \in all.added \cup all.removed
      \/ all.highlights # {} /\ id \in DOMAIN all.modified
  BY <1>3 DEF delta
<1>5. ~MD!IsEmpty(all)
  BY <1>4 DEF MD!IsEmpty
<1>6. (\E x \in all.added \cup all.removed : MD!Product(x)) \/ all.highlights # {}
  BY <1>4
<1>7. \A d : /\ ~MD!IsEmpty(d)
             /\ (\E x \in d.added \cup d.removed : MD!Product(x)) \/ d.highlights # {}
            => (CASE MD!IsEmpty(d) -> MD!None
                  [] /\ ~MD!IsEmpty(d)
                     /\ (\E x \in d.added \cup d.removed : MD!Product(x)) \/ d.highlights # {}
                        -> MD!Minor
                  [] OTHER -> MD!Routine) = MD!Minor
  OBVIOUS
<1>8. MD!SeverityOf(before, after) = MD!Minor
  BY <1>5, <1>6, <1>7 DEF MD!SeverityOf, all
<1> QED BY <1>8 DEF MD!Minor, Minor

LEMMA ProductsAreKeyed ==
  ASSUME HasUniqueIds(signed), HasUniqueIds(upstream),
         MD!IsArray(Products(signed)) \/ MD!IsArray(Products(upstream))
  PROVE  MD!DiffOf("Products", signed["marketplace"], upstream["marketplace"])
         = MD!CompareMaps(MD!Keyed("Products", MD!Rows(Products(signed))),
                          MD!Keyed("Products", MD!Rows(Products(upstream))), MD!MaterialFields)
<1> DEFINE mine == MD!Rows(Products(signed))
           theirs == MD!Rows(Products(upstream))
<1>1. MD!DiffOf("Products", signed["marketplace"], upstream["marketplace"])
      = MD!DiffCollection("Products", mine, theirs)
  BY DEF MD!DiffOf, Products, HasUniqueIds
<1>2. "Products" \notin MD!Unkeyed /\ MD!UniquelyKeyed(theirs)
  BY DEF MD!Unkeyed, HasUniqueIds
<1> HIDE DEF mine, theirs
<1>3. MD!DiffCollection("Products", mine, theirs)
      = MD!CompareMaps(MD!Keyed("Products", mine), MD!Keyed("Products", theirs), MD!MaterialFields)
  BY <1>2 DEF MD!DiffCollection
<1> QED BY <1>1, <1>3 DEF mine, theirs

LEMMA ProductsAreLists ==
  ASSUME Published, NEW b \in {signed, upstream}
  PROVE  "marketplace" \in Sources /\ Listed(MD!Rows(Products(b)))
BY SemanticDiffAssumption DEF Published, Products, Listed

LEMMA EventsAreMinor == Published => ProductEventsAreMinor
<1> SUFFICES ASSUME Published, HasUniqueIds(signed), HasUniqueIds(upstream),
                    \/ ProductIds(signed) # ProductIds(upstream)
                    \/ \E r \in ProductRows(signed), q \in ProductRows(upstream) :
                          r.id = q.id /\ \E f \in MD!MaterialFields : MD!Get(r, f) # MD!Get(q, f)
             PROVE  SyncPlan.severity >= Minor
  BY DEF ProductEventsAreMinor
<1> DEFINE mine   == MD!Rows(Products(signed))
           theirs == MD!Rows(Products(upstream))
           old    == MD!Keyed("Products", mine)
           new    == MD!Keyed("Products", theirs)
           delta  == MD!DiffOf("Products", signed["marketplace"], upstream["marketplace"])
<1>1. /\ Listed(mine) /\ MD!UniquelyKeyed(mine) /\ Listed(theirs) /\ MD!UniquelyKeyed(theirs)
      /\ "marketplace" \in Sources
  BY ProductsAreLists DEF HasUniqueIds
<1>2. \A rows : DOMAIN rows = {} => MD!Ids(rows) = {}
  BY DEF MD!Ids
<1>3. mine # <<>> \/ theirs # <<>>
  BY DEF ProductIds, ProductRows
<1>4. MD!IsArray(Products(signed)) \/ MD!IsArray(Products(upstream))
  BY <1>3 DEF MD!Rows
<1>5. "Products" \in DOMAIN signed["marketplace"].substance \cup DOMAIN upstream["marketplace"].substance
  BY <1>4 DEF MD!IsArray, Products, MD!Get
<1>6. delta = MD!CompareMaps(old, new, MD!MaterialFields)
  BY <1>4, ProductsAreKeyed
<1>7. /\ DOMAIN old = {<<"Products", x>> : x \in MD!Ids(mine)}
      /\ DOMAIN new = {<<"Products", x>> : x \in MD!Ids(theirs)}
  BY KeyedByIds
<1>8. \A x : MD!Product(<<"Products", x>>)
  BY DEF MD!Product
<1>9. \E id : /\ MD!Product(id)
              /\ \/ id \in delta.added \cup delta.removed
                 \/ delta.highlights # {} /\ id \in DOMAIN delta.modified
  <2>1. CASE MD!Ids(mine) # MD!Ids(theirs)
    <3> HIDE DEF mine, theirs, old, new, delta
    <3>1. /\ delta.added = DOMAIN new \ DOMAIN old /\ delta.removed = DOMAIN old \ DOMAIN new
      BY <1>6 DEF MD!CompareMaps
    <3>2. PICK x : \/ x \in MD!Ids(mine) /\ x \notin MD!Ids(theirs)
                   \/ x \in MD!Ids(theirs) /\ x \notin MD!Ids(mine)
      BY <2>1
    <3>3. \/ <<"Products", x>> \in DOMAIN old /\ <<"Products", x>> \notin DOMAIN new
          \/ <<"Products", x>> \in DOMAIN new /\ <<"Products", x>> \notin DOMAIN old
      BY <1>7, <3>2
    <3> QED BY <1>8, <3>1, <3>3
  <2>2. ASSUME NEW r \in ProductRows(signed), NEW q \in ProductRows(upstream), r.id = q.id,
               NEW f \in MD!MaterialFields, MD!Get(r, f) # MD!Get(q, f)
        PROVE  \E id : /\ MD!Product(id)
                       /\ delta.highlights # {} /\ id \in DOMAIN delta.modified
    <3>1. PICK i \in DOMAIN mine : r = mine[i]
      BY DEF ProductRows
    <3>2. PICK j \in DOMAIN theirs : q = theirs[j]
      BY DEF ProductRows
    <3> DEFINE id == <<"Products", MD!Get(mine[i], "id")>>
               stayed == {x \in DOMAIN old \cap DOMAIN new : old[x] # new[x]}
               moved  == [x \in stayed |-> MD!FieldChanges(old[x], new[x])]
               Of(x)  == {<<x, g>> : g \in moved[x] \cap MD!MaterialFields}
    <3> HIDE DEF mine, theirs, old, new, delta
    <3>3. MD!Get(mine[i], "id") = r.id /\ MD!Get(theirs[j], "id") = q.id
      BY <1>1, <3>1, <3>2 DEF MD!UniquelyKeyed, MD!Ids, MD!Get
    <3>4. id \in DOMAIN old /\ old[id] = r
      BY <1>1, <3>1, KeyedRow DEF old
    <3>5. id \in DOMAIN new /\ new[id] = q
      <4>1. id = <<"Products", MD!Get(theirs[j], "id")>>
        BY <2>2, <3>3
      <4> HIDE DEF id
      <4> QED BY <1>1, <3>2, <4>1, KeyedRow DEF new
    <3>6. delta.modified = moved /\ delta.highlights = UNION {Of(x) : x \in stayed}
      BY <1>6 DEF MD!CompareMaps
    <3>7. f \in MD!FieldChanges(r, q)
      BY <2>2 DEF MD!FieldChanges, MD!Get
    <3>8. MD!Product(id)
      BY <1>8
    <3> HIDE DEF id
    <3>9. id \in stayed /\ <<id, f>> \in Of(id)
      BY <2>2, <3>4, <3>5, <3>7
    <3>10. DOMAIN moved = stayed
      OBVIOUS
    <3> HIDE DEF Of, stayed, moved
    <3> QED BY <3>6, <3>8, <3>9, <3>10
  <2> QED BY <2>1, <2>2 DEF ProductIds
<1> HIDE DEF delta
<1>10. MD!SeverityOf(signed["marketplace"], upstream["marketplace"]) = Minor
  BY <1>5, <1>9, ProductsAreCounted DEF delta
<1>11. signed["marketplace"].substance # upstream["marketplace"].substance
  <2>1. SUFFICES ASSUME signed["marketplace"].substance = upstream["marketplace"].substance PROVE FALSE
    OBVIOUS
  <2>2. old = new
    BY <2>1 DEF Products
  <2> HIDE DEF old, new
  <2>3. delta.added = {} /\ delta.removed = {} /\ DOMAIN delta.modified = {}
    BY <1>6, <2>2 DEF MD!CompareMaps
  <2> QED BY <1>9, <2>3
<1>12. \A rules : StrategySeverity("marketplace", signed["marketplace"], upstream["marketplace"], rules) = Minor
  BY <1>10 DEF StrategySeverity
<1> QED BY <1>1, <1>11, <1>12, PlanIsAsLoud

(***************************************************************************)
(* A product that comes or goes, or whose material field moves, is at      *)
(* least Minor in any two documents (diff/marketplace.rs classify).        *)
(***************************************************************************)
THEOREM ProductEventsAreAnnounced == Spec => []ProductEventsAreMinor
BY AllIsPublished, EventsAreMinor, PTL

-----------------------------------------------------------------------------
(* Recursions down to MaxDepth.                                            *)

(* What holds at the top, and one level further down where it holds, holds *)
(* at every depth.                                                         *)
LEMMA ByDepth ==
  ASSUME NEW m \in Nat, NEW S, 0 \in S, \A n \in 0..m : n \in S /\ n < m => n + 1 \in S
  PROVE  \A n \in 0..m : n \in S
<1> DEFINE A == {n \in 0..m : \A k \in 0..n : k \in S}
<1>1. 0 \in A /\ A \in SUBSET (0..m)
  OBVIOUS
<1> HIDE DEF A
<1>2. PICK n \in A : \A y \in A : y <= n
  BY <1>1, Greatest
<1>3. n \in 0..m /\ \A k \in 0..n : k \in S
  BY <1>1 DEF A
<1>4. CASE n < m
  <2>1. n + 1 \in S
    BY <1>3, <1>4
  <2>2. n + 1 \in A
    BY <1>3, <1>4, <2>1 DEF A
  <2> QED BY <1>2, <1>3, <2>2
<1>5. CASE ~(n < m)
  <2>1. n = m
    BY <1>3, <1>5
  <2> QED BY <1>3, <2>1
<1> QED BY <1>4, <1>5

(* The rounds of walk (diff/schemas.rs). Each of the four recursions is    *)
(* proved to be there and to follow its rule on its own: no prover takes   *)
(* what a round does as a parameter.                                       *)
AreRounds(R, root) ==
    R = [depth \in 0..MaxDepth |->
            IF depth = 0 THEN {root} ELSE UNION {SD!Walk(x) : x \in R[depth - 1]}]

Rounds(root) == CHOOSE R : AreRounds(R, root)

LEMMA RoundsExist ==
  ASSUME NEW root
  PROVE  AreRounds(Rounds(root), root)
<1> DEFINE Further(A) == UNION {SD!Walk(x) : x \in A}
           first == root
           Upto(R, n) == R = [d \in 0..n |-> IF d = 0 THEN {first} ELSE Further(R[d - 1])]
           Found == {n \in 0..MaxDepth : \E R : Upto(R, n)}
<1>0. MaxDepth \in Nat
  BY SemanticDiffAssumption
<1>1. 0 \in Found
  <2> HIDE DEF Further, first
  <2>1. Upto([d \in 0..0 |-> {first}], 0)
    OBVIOUS
  <2> HIDE DEF Upto
  <2> QED BY <1>0, <2>1
<1>2. ASSUME NEW n \in 0..MaxDepth, n \in Found, n < MaxDepth PROVE n + 1 \in Found
  <2> HIDE DEF Further, first
  <2>1. PICK R : Upto(R, n)
    BY <1>2
  <2> DEFINE Q == [d \in 0..(n + 1) |-> IF d = n + 1 THEN Further(R[n]) ELSE R[d]]
  <2>2. Q = [d \in 0..(n + 1) |-> IF d = 0 THEN {first} ELSE Further(Q[d - 1])]
    <3>1. ASSUME NEW d \in 0..(n + 1) PROVE Q[d] = IF d = 0 THEN {first} ELSE Further(Q[d - 1])
      <4>1. CASE d = n + 1
        <5>1. Q[d] = Further(R[n]) /\ Q[n] = R[n] /\ d - 1 = n /\ d # 0
          BY <1>0, <4>1
        <5> QED BY <5>1
      <4>2. CASE d # n + 1
        <5>1. d \in 0..n /\ Q[d] = R[d] /\ (d # 0 => d - 1 \in 0..n /\ d - 1 # n + 1)
          BY <1>0, <4>2
        <5>2. d # 0 => Q[d - 1] = R[d - 1]
          BY <1>0, <5>1
        <5>3. R[d] = IF d = 0 THEN {first} ELSE Further(R[d - 1])
          BY <2>1, <5>1
        <5> QED BY <5>1, <5>2, <5>3
      <4> QED BY <4>1, <4>2
    <3> QED BY <3>1
  <2>3. Upto(Q, n + 1)
    BY <2>2
  <2>4. n + 1 \in 0..MaxDepth
    BY <1>0, <1>2
  <2> HIDE DEF Q, Upto
  <2> QED BY <2>3, <2>4
<1> HIDE DEF Found
<1>3. MaxDepth \in Found
  <2>1. \A n \in 0..MaxDepth : n \in Found
    BY <1>0, <1>1, <1>2, ByDepth
  <2> QED BY <1>0, <2>1
<1>4. \E R : AreRounds(R, root)
  BY <1>3 DEF Found, AreRounds
<1> QED BY <1>4 DEF Rounds

LEMMA RoundsFollow ==
  ASSUME NEW root
  PROVE  /\ Rounds(root)[0] = {root}
         /\ \A n \in 0..MaxDepth : n + 1 \in 0..MaxDepth =>
               Rounds(root)[n + 1] = UNION {SD!Walk(x) : x \in Rounds(root)[n]}
<1> DEFINE R == Rounds(root)
           Further(A) == UNION {SD!Walk(x) : x \in A}
           first == root
<1>0. MaxDepth \in Nat
  BY SemanticDiffAssumption
<1>1. R = [d \in 0..MaxDepth |-> IF d = 0 THEN {first} ELSE Further(R[d - 1])]
  BY RoundsExist DEF AreRounds
<1> HIDE DEF R, Further, first
<1>2. R[0] = {first}
  BY <1>0, <1>1
<1>3. ASSUME NEW n \in 0..MaxDepth, n + 1 \in 0..MaxDepth PROVE R[n + 1] = Further(R[n])
  <2>1. n + 1 # 0 /\ (n + 1) - 1 = n
    BY <1>0
  <2> QED BY <1>1, <1>3, <2>1
<1> QED BY <1>2, <1>3 DEF R, Further, first

(* What walk points at is what its last round holds.                       *)
LEMMA PointersByRounds ==
  ASSUME NEW old, NEW new
  PROVE  SD!PointersOf(old, new)
         = {d.pointer : d \in Rounds([pointer |-> <<>>, old |-> old, new |-> new])[MaxDepth]}
BY DEF SD!PointersOf, SD!Unfolded, Rounds, AreRounds

(* What is one key below a pointer.                                        *)
Below(at) ==
    IF SD!IsObject(at[2])
    THEN {<<Append(at[1], k), at[2].members[k]>> : k \in DOMAIN at[2].members} ELSE {}

(* The levels of a JSON value.                                             *)
AreLevels(R, value) ==
    R = [depth \in 0..MaxDepth |->
            IF depth = 0 THEN {<<<<>>, value>>} ELSE UNION {Below(x) : x \in R[depth - 1]}]

Levels(root) == CHOOSE R : AreLevels(R, root)

LEMMA LevelsExist ==
  ASSUME NEW root
  PROVE  AreLevels(Levels(root), root)
<1> DEFINE Further(A) == UNION {Below(x) : x \in A}
           first == <<<<>>, root>>
           Upto(R, n) == R = [d \in 0..n |-> IF d = 0 THEN {first} ELSE Further(R[d - 1])]
           Found == {n \in 0..MaxDepth : \E R : Upto(R, n)}
<1>0. MaxDepth \in Nat
  BY SemanticDiffAssumption
<1>1. 0 \in Found
  <2> HIDE DEF Further, first
  <2>1. Upto([d \in 0..0 |-> {first}], 0)
    OBVIOUS
  <2> HIDE DEF Upto
  <2> QED BY <1>0, <2>1
<1>2. ASSUME NEW n \in 0..MaxDepth, n \in Found, n < MaxDepth PROVE n + 1 \in Found
  <2> HIDE DEF Further, first
  <2>1. PICK R : Upto(R, n)
    BY <1>2
  <2> DEFINE Q == [d \in 0..(n + 1) |-> IF d = n + 1 THEN Further(R[n]) ELSE R[d]]
  <2>2. Q = [d \in 0..(n + 1) |-> IF d = 0 THEN {first} ELSE Further(Q[d - 1])]
    <3>1. ASSUME NEW d \in 0..(n + 1) PROVE Q[d] = IF d = 0 THEN {first} ELSE Further(Q[d - 1])
      <4>1. CASE d = n + 1
        <5>1. Q[d] = Further(R[n]) /\ Q[n] = R[n] /\ d - 1 = n /\ d # 0
          BY <1>0, <4>1
        <5> QED BY <5>1
      <4>2. CASE d # n + 1
        <5>1. d \in 0..n /\ Q[d] = R[d] /\ (d # 0 => d - 1 \in 0..n /\ d - 1 # n + 1)
          BY <1>0, <4>2
        <5>2. d # 0 => Q[d - 1] = R[d - 1]
          BY <1>0, <5>1
        <5>3. R[d] = IF d = 0 THEN {first} ELSE Further(R[d - 1])
          BY <2>1, <5>1
        <5> QED BY <5>1, <5>2, <5>3
      <4> QED BY <4>1, <4>2
    <3> QED BY <3>1
  <2>3. Upto(Q, n + 1)
    BY <2>2
  <2>4. n + 1 \in 0..MaxDepth
    BY <1>0, <1>2
  <2> HIDE DEF Q, Upto
  <2> QED BY <2>3, <2>4
<1> HIDE DEF Found
<1>3. MaxDepth \in Found
  <2>1. \A n \in 0..MaxDepth : n \in Found
    BY <1>0, <1>1, <1>2, ByDepth
  <2> QED BY <1>0, <2>1
<1>4. \E R : AreLevels(R, root)
  BY <1>3 DEF Found, AreLevels
<1> QED BY <1>4 DEF Levels

LEMMA LevelsFollow ==
  ASSUME NEW root
  PROVE  /\ Levels(root)[0] = {<<<<>>, root>>}
         /\ \A n \in 0..MaxDepth : n + 1 \in 0..MaxDepth =>
               Levels(root)[n + 1] = UNION {Below(x) : x \in Levels(root)[n]}
<1> DEFINE R == Levels(root)
           Further(A) == UNION {Below(x) : x \in A}
           first == <<<<>>, root>>
<1>0. MaxDepth \in Nat
  BY SemanticDiffAssumption
<1>1. R = [d \in 0..MaxDepth |-> IF d = 0 THEN {first} ELSE Further(R[d - 1])]
  BY LevelsExist DEF AreLevels
<1> HIDE DEF R, Further, first
<1>2. R[0] = {first}
  BY <1>0, <1>1
<1>3. ASSUME NEW n \in 0..MaxDepth, n + 1 \in 0..MaxDepth PROVE R[n + 1] = Further(R[n])
  <2>1. n + 1 # 0 /\ (n + 1) - 1 = n
    BY <1>0
  <2> QED BY <1>1, <1>3, <2>1
<1> QED BY <1>2, <1>3 DEF R, Further, first

LEMMA HeldByLevels ==
  ASSUME NEW value
  PROVE  HeldBelow(value) = Levels(value)
BY DEF HeldBelow, Levels, AreLevels, Below

(* The rounds of collect (diff/oscal.rs).                                  *)
AreVisits(R, root) ==
    R = [depth \in 0..MaxDepth |->
            IF depth = 0 THEN {root} ELSE UNION {OD!Visit(x) : x \in R[depth - 1]}]

Visits(root) == CHOOSE R : AreVisits(R, root)

LEMMA VisitsExist ==
  ASSUME NEW root
  PROVE  AreVisits(Visits(root), root)
<1> DEFINE Further(A) == UNION {OD!Visit(x) : x \in A}
           first == root
           Upto(R, n) == R = [d \in 0..n |-> IF d = 0 THEN {first} ELSE Further(R[d - 1])]
           Found == {n \in 0..MaxDepth : \E R : Upto(R, n)}
<1>0. MaxDepth \in Nat
  BY SemanticDiffAssumption
<1>1. 0 \in Found
  <2> HIDE DEF Further, first
  <2>1. Upto([d \in 0..0 |-> {first}], 0)
    OBVIOUS
  <2> HIDE DEF Upto
  <2> QED BY <1>0, <2>1
<1>2. ASSUME NEW n \in 0..MaxDepth, n \in Found, n < MaxDepth PROVE n + 1 \in Found
  <2> HIDE DEF Further, first
  <2>1. PICK R : Upto(R, n)
    BY <1>2
  <2> DEFINE Q == [d \in 0..(n + 1) |-> IF d = n + 1 THEN Further(R[n]) ELSE R[d]]
  <2>2. Q = [d \in 0..(n + 1) |-> IF d = 0 THEN {first} ELSE Further(Q[d - 1])]
    <3>1. ASSUME NEW d \in 0..(n + 1) PROVE Q[d] = IF d = 0 THEN {first} ELSE Further(Q[d - 1])
      <4>1. CASE d = n + 1
        <5>1. Q[d] = Further(R[n]) /\ Q[n] = R[n] /\ d - 1 = n /\ d # 0
          BY <1>0, <4>1
        <5> QED BY <5>1
      <4>2. CASE d # n + 1
        <5>1. d \in 0..n /\ Q[d] = R[d] /\ (d # 0 => d - 1 \in 0..n /\ d - 1 # n + 1)
          BY <1>0, <4>2
        <5>2. d # 0 => Q[d - 1] = R[d - 1]
          BY <1>0, <5>1
        <5>3. R[d] = IF d = 0 THEN {first} ELSE Further(R[d - 1])
          BY <2>1, <5>1
        <5> QED BY <5>1, <5>2, <5>3
      <4> QED BY <4>1, <4>2
    <3> QED BY <3>1
  <2>3. Upto(Q, n + 1)
    BY <2>2
  <2>4. n + 1 \in 0..MaxDepth
    BY <1>0, <1>2
  <2> HIDE DEF Q, Upto
  <2> QED BY <2>3, <2>4
<1> HIDE DEF Found
<1>3. MaxDepth \in Found
  <2>1. \A n \in 0..MaxDepth : n \in Found
    BY <1>0, <1>1, <1>2, ByDepth
  <2> QED BY <1>0, <2>1
<1>4. \E R : AreVisits(R, root)
  BY <1>3 DEF Found, AreVisits
<1> QED BY <1>4 DEF Visits

LEMMA VisitsFollow ==
  ASSUME NEW root
  PROVE  /\ Visits(root)[0] = {root}
         /\ \A n \in 0..MaxDepth : n + 1 \in 0..MaxDepth =>
               Visits(root)[n + 1] = UNION {OD!Visit(x) : x \in Visits(root)[n]}
<1> DEFINE R == Visits(root)
           Further(A) == UNION {OD!Visit(x) : x \in A}
           first == root
<1>0. MaxDepth \in Nat
  BY SemanticDiffAssumption
<1>1. R = [d \in 0..MaxDepth |-> IF d = 0 THEN {first} ELSE Further(R[d - 1])]
  BY VisitsExist DEF AreVisits
<1> HIDE DEF R, Further, first
<1>2. R[0] = {first}
  BY <1>0, <1>1
<1>3. ASSUME NEW n \in 0..MaxDepth, n + 1 \in 0..MaxDepth PROVE R[n + 1] = Further(R[n])
  <2>1. n + 1 # 0 /\ (n + 1) - 1 = n
    BY <1>0
  <2> QED BY <1>1, <1>3, <2>1
<1> QED BY <1>2, <1>3 DEF R, Further, first

(* Groups and controls, one level down.                                    *)
Within(node) == Parts(node, "groups") \cup Parts(node, "controls")

(* The levels of a catalog.                                                *)
AreTiers(R, catalog) ==
    R = [depth \in 0..MaxDepth |->
            IF depth = 0 THEN {catalog} ELSE UNION {Within(x) : x \in R[depth - 1]}]

Tiers(root) == CHOOSE R : AreTiers(R, root)

LEMMA TiersExist ==
  ASSUME NEW root
  PROVE  AreTiers(Tiers(root), root)
<1> DEFINE Further(A) == UNION {Within(x) : x \in A}
           first == root
           Upto(R, n) == R = [d \in 0..n |-> IF d = 0 THEN {first} ELSE Further(R[d - 1])]
           Found == {n \in 0..MaxDepth : \E R : Upto(R, n)}
<1>0. MaxDepth \in Nat
  BY SemanticDiffAssumption
<1>1. 0 \in Found
  <2> HIDE DEF Further, first
  <2>1. Upto([d \in 0..0 |-> {first}], 0)
    OBVIOUS
  <2> HIDE DEF Upto
  <2> QED BY <1>0, <2>1
<1>2. ASSUME NEW n \in 0..MaxDepth, n \in Found, n < MaxDepth PROVE n + 1 \in Found
  <2> HIDE DEF Further, first
  <2>1. PICK R : Upto(R, n)
    BY <1>2
  <2> DEFINE Q == [d \in 0..(n + 1) |-> IF d = n + 1 THEN Further(R[n]) ELSE R[d]]
  <2>2. Q = [d \in 0..(n + 1) |-> IF d = 0 THEN {first} ELSE Further(Q[d - 1])]
    <3>1. ASSUME NEW d \in 0..(n + 1) PROVE Q[d] = IF d = 0 THEN {first} ELSE Further(Q[d - 1])
      <4>1. CASE d = n + 1
        <5>1. Q[d] = Further(R[n]) /\ Q[n] = R[n] /\ d - 1 = n /\ d # 0
          BY <1>0, <4>1
        <5> QED BY <5>1
      <4>2. CASE d # n + 1
        <5>1. d \in 0..n /\ Q[d] = R[d] /\ (d # 0 => d - 1 \in 0..n /\ d - 1 # n + 1)
          BY <1>0, <4>2
        <5>2. d # 0 => Q[d - 1] = R[d - 1]
          BY <1>0, <5>1
        <5>3. R[d] = IF d = 0 THEN {first} ELSE Further(R[d - 1])
          BY <2>1, <5>1
        <5> QED BY <5>1, <5>2, <5>3
      <4> QED BY <4>1, <4>2
    <3> QED BY <3>1
  <2>3. Upto(Q, n + 1)
    BY <2>2
  <2>4. n + 1 \in 0..MaxDepth
    BY <1>0, <1>2
  <2> HIDE DEF Q, Upto
  <2> QED BY <2>3, <2>4
<1> HIDE DEF Found
<1>3. MaxDepth \in Found
  <2>1. \A n \in 0..MaxDepth : n \in Found
    BY <1>0, <1>1, <1>2, ByDepth
  <2> QED BY <1>0, <2>1
<1>4. \E R : AreTiers(R, root)
  BY <1>3 DEF Found, AreTiers
<1> QED BY <1>4 DEF Tiers

LEMMA TiersFollow ==
  ASSUME NEW root
  PROVE  /\ Tiers(root)[0] = {root}
         /\ \A n \in 0..MaxDepth : n + 1 \in 0..MaxDepth =>
               Tiers(root)[n + 1] = UNION {Within(x) : x \in Tiers(root)[n]}
<1> DEFINE R == Tiers(root)
           Further(A) == UNION {Within(x) : x \in A}
           first == root
<1>0. MaxDepth \in Nat
  BY SemanticDiffAssumption
<1>1. R = [d \in 0..MaxDepth |-> IF d = 0 THEN {first} ELSE Further(R[d - 1])]
  BY TiersExist DEF AreTiers
<1> HIDE DEF R, Further, first
<1>2. R[0] = {first}
  BY <1>0, <1>1
<1>3. ASSUME NEW n \in 0..MaxDepth, n + 1 \in 0..MaxDepth PROVE R[n + 1] = Further(R[n])
  <2>1. n + 1 # 0 /\ (n + 1) - 1 = n
    BY <1>0
  <2> QED BY <1>1, <1>3, <2>1
<1> QED BY <1>2, <1>3 DEF R, Further, first

LEMMA NodesByTiers ==
  ASSUME NEW catalog
  PROVE  NodesBelow(catalog) = Tiers(catalog)
BY DEF NodesBelow, Tiers, AreTiers, Within

-----------------------------------------------------------------------------
(* The package schemas.                                                    *)

(* A pointer of n keys. *)
IsPointer(p, n) == n \in Nat /\ p = [i \in 1..n |-> p[i]]

LEMMA PointerIsSeq ==
  ASSUME NEW n, NEW p, IsPointer(p, n)
  PROVE  /\ p \in Seq({p[i] : i \in 1..n}) /\ Len(p) = n /\ DOMAIN p = 1..n
<1>1. n \in Nat /\ DOMAIN p = 1..n /\ p = [i \in 1..n |-> p[i]]
  BY DEF IsPointer
<1>2. p \in [1..n -> {p[i] : i \in 1..n}]
  BY <1>1
<1>3. p \in Seq({p[i] : i \in 1..n})
  BY <1>1, <1>2, SeqDef
<1>4. Len(p) \in Nat /\ 1..Len(p) = 1..n
  BY <1>1, <1>3, LenProperties
<1>5. Len(p) = n
  <2>1. \A l \in Nat : 1..l = 1..n => l = n
    BY <1>1
  <2> QED BY <1>4, <2>1
<1> QED BY <1>1, <1>3, <1>5

(* q is p and one key more. *)
Extends(q, p, n, k) ==
    IsPointer(q, n + 1) /\ q[n + 1] = k /\ \A i \in 1..n : q[i] = p[i]

LEMMA Longer ==
  ASSUME NEW n, NEW p, NEW k, IsPointer(p, n)
  PROVE  Extends(Append(p, k), p, n, k)
<1> DEFINE S == {p[i] : i \in 1..n} \cup {k}
<1>1. n \in Nat /\ p \in Seq({p[i] : i \in 1..n}) /\ Len(p) = n
  BY PointerIsSeq DEF IsPointer
<1>2. p \in Seq(S) /\ k \in S
  BY <1>1
<1> HIDE DEF S
<1>3. /\ Append(p, k) \in Seq(S) /\ Len(Append(p, k)) = n + 1
      /\ \A i \in 1..n : Append(p, k)[i] = p[i]
      /\ Append(p, k)[n + 1] = k
  BY <1>1, <1>2, AppendProperties
<1>4. Append(p, k) = [i \in 1..(n + 1) |-> Append(p, k)[i]]
  <2> DEFINE q == Append(p, k)
  <2>1. q \in Seq(S) /\ Len(q) = n + 1
    BY <1>3
  <2> HIDE DEF q
  <2>2. q \in [1..Len(q) -> S]
    BY <2>1, LenProperties
  <2>3. q = [i \in 1..(n + 1) |-> q[i]]
    BY <2>1, <2>2
  <2> QED BY <2>3 DEF q
<1>5. n + 1 \in Nat
  BY <1>1
<1> QED BY <1>3, <1>4, <1>5 DEF IsPointer, Extends

LEMMA SamePointer ==
  ASSUME NEW n, NEW p, NEW q, IsPointer(p, n), IsPointer(q, n), \A i \in 1..n : p[i] = q[i]
  PROVE  p = q
BY DEF IsPointer

LEMMA OneWayLonger ==
  ASSUME NEW n, NEW p, NEW q, NEW j, NEW k, IsPointer(p, n), IsPointer(q, n),
         Append(p, j) = Append(q, k)
  PROVE  p = q /\ j = k
<1> DEFINE one == Append(p, j)
           two == Append(q, k)
<1>0. one = two
  OBVIOUS
<1> HIDE DEF one, two
<1>1. Extends(one, p, n, j)
  BY Longer DEF one
<1>2. Extends(two, q, n, k)
  BY Longer DEF two
<1>3. j = k
  BY <1>0, <1>1, <1>2 DEF Extends
<1>4. p = q
  BY <1>0, <1>1, <1>2, SamePointer DEF Extends
<1> QED BY <1>3, <1>4

(* What is at a level is one member of an object one level further up. *)
LEMMA AtTheTop ==
  ASSUME NEW value, NEW at
  PROVE  at \in Levels(value)[0] <=> at = <<<<>>, value>>
BY LevelsFollow

LEMMA OneDown ==
  ASSUME NEW value, NEW n \in 0..MaxDepth, n + 1 \in 0..MaxDepth, NEW at
  PROVE  at \in Levels(value)[n + 1]
         <=> \E above \in Levels(value)[n] :
                /\ SD!IsObject(above[2])
                /\ \E k \in DOMAIN above[2].members :
                      at = <<Append(above[1], k), above[2].members[k]>>
<1>1. Levels(value)[n + 1] = UNION {Below(x) : x \in Levels(value)[n]}
  BY LevelsFollow
<1>2. \A x : at \in Below(x) <=> /\ SD!IsObject(x[2])
                                 /\ \E k \in DOMAIN x[2].members :
                                       at = <<Append(x[1], k), x[2].members[k]>>
  BY DEF Below
<1> QED BY <1>1, <1>2

(* A level has pointers of one length, each at one node. *)
LevelIsSound(value, n) ==
    /\ \A at \in Levels(value)[n] : at = <<at[1], at[2]>> /\ IsPointer(at[1], n)
    /\ \A at, bt \in Levels(value)[n] : at[1] = bt[1] => at = bt

LEMMA LevelsAreSound ==
  ASSUME NEW value, NEW n \in 0..MaxDepth
  PROVE  LevelIsSound(value, n)
<1> DEFINE Sound == {d \in 0..MaxDepth : LevelIsSound(value, d)}
<1>0. MaxDepth \in Nat
  BY SemanticDiffAssumption
<1>1. 0 \in Sound
  <2>1. IsPointer(<<>>, 0)
    BY DEF IsPointer
  <2>2. LevelIsSound(value, 0)
    BY <2>1, AtTheTop DEF LevelIsSound
  <2> QED BY <1>0, <2>2
<1>2. ASSUME NEW d \in 0..MaxDepth, d \in Sound, d < MaxDepth PROVE d + 1 \in Sound
  <2>1. d + 1 \in 0..MaxDepth /\ LevelIsSound(value, d)
    BY <1>0, <1>2
  <2>2. ASSUME NEW at \in Levels(value)[d + 1] PROVE at = <<at[1], at[2]>> /\ IsPointer(at[1], d + 1)
    <3>1. PICK above \in Levels(value)[d] :
             \E k \in DOMAIN above[2].members : at = <<Append(above[1], k), above[2].members[k]>>
      BY <2>1, OneDown
    <3>2. PICK k \in DOMAIN above[2].members : at = <<Append(above[1], k), above[2].members[k]>>
      BY <3>1
    <3>3. IsPointer(Append(above[1], k), d + 1)
      BY <2>1, Longer DEF LevelIsSound, Extends
    <3> QED BY <3>2, <3>3
  <2>3. ASSUME NEW at \in Levels(value)[d + 1], NEW bt \in Levels(value)[d + 1], at[1] = bt[1]
        PROVE  at = bt
    <3>1. PICK above \in Levels(value)[d] :
             \E k \in DOMAIN above[2].members : at = <<Append(above[1], k), above[2].members[k]>>
      BY <2>1, OneDown
    <3>2. PICK j \in DOMAIN above[2].members : at = <<Append(above[1], j), above[2].members[j]>>
      BY <3>1
    <3>3. PICK over \in Levels(value)[d] :
             \E k \in DOMAIN over[2].members : bt = <<Append(over[1], k), over[2].members[k]>>
      BY <2>1, OneDown
    <3>4. PICK k \in DOMAIN over[2].members : bt = <<Append(over[1], k), over[2].members[k]>>
      BY <3>3
    <3>5. Append(above[1], j) = Append(over[1], k)
      BY <2>3, <3>2, <3>4
    <3>6. IsPointer(above[1], d) /\ IsPointer(over[1], d)
      BY <2>1 DEF LevelIsSound
    <3>7. above[1] = over[1] /\ j = k
      BY <3>5, <3>6, OneWayLonger
    <3>8. above = over
      BY <2>1, <3>7 DEF LevelIsSound
    <3> QED BY <3>2, <3>4, <3>7, <3>8
  <2>4. LevelIsSound(value, d + 1)
    BY <2>2, <2>3 DEF LevelIsSound
  <2> QED BY <2>1, <2>4
<1> HIDE DEF Sound
<1>3. \A d \in 0..MaxDepth : d \in Sound
  BY <1>0, <1>1, <1>2, ByDepth
<1> QED BY <1>3 DEF Sound

(* What a value holds at a pointer of n keys: x, or nothing.               *)
Holds(value, n, p, x) ==
    IF x = Missing THEN ~\E y : <<p, y>> \in Levels(value)[n] ELSE <<p, x>> \in Levels(value)[n]

FullyHeld(value) == \A n \in 0..MaxDepth : \A at \in Levels(value)[n] : at[2] # Missing

Under(p, c, j) == \A i \in 1..j : p[i] = c[i]

(* Where two values hold the same, they hold the same further down.        *)
LEMMA SameBelow ==
  ASSUME NEW v, NEW w, NEW j \in 0..MaxDepth, NEW c, IsPointer(c, j), NEW x,
         Holds(v, j, c, x), Holds(w, j, c, x),
         NEW n \in 0..MaxDepth, j <= n, NEW at \in Levels(v)[n], Under(at[1], c, j)
  PROVE  at \in Levels(w)[n]
<1> DEFINE Same(d) == \A bt \in Levels(v)[d] : Under(bt[1], c, j) => bt \in Levels(w)[d]
           S == {d \in 0..MaxDepth : j <= d => Same(d)}
<1>0. MaxDepth \in Nat
  BY SemanticDiffAssumption
<1>1. Same(j)
  <2> SUFFICES ASSUME NEW bt \in Levels(v)[j], Under(bt[1], c, j) PROVE bt \in Levels(w)[j]
    OBVIOUS
  <2>1. bt = <<bt[1], bt[2]>> /\ IsPointer(bt[1], j)
    BY LevelsAreSound DEF LevelIsSound
  <2>2. bt[1] = c
    BY <2>1, SamePointer DEF Under
  <2>3. <<c, bt[2]>> \in Levels(v)[j]
    BY <2>1, <2>2
  <2>4. x # Missing
    BY <2>3 DEF Holds
  <2>5. <<c, x>> \in Levels(v)[j] /\ <<c, x>> \in Levels(w)[j]
    BY <2>4 DEF Holds
  <2>6. bt = <<c, x>>
    BY <2>2, <2>5, LevelsAreSound DEF LevelIsSound
  <2> QED BY <2>5, <2>6
<1>2. ASSUME NEW d \in 0..MaxDepth, d + 1 \in 0..MaxDepth, j <= d, Same(d) PROVE Same(d + 1)
  <2> SUFFICES ASSUME NEW bt \in Levels(v)[d + 1], Under(bt[1], c, j) PROVE bt \in Levels(w)[d + 1]
    OBVIOUS
  <2>1. PICK above \in Levels(v)[d] :
           /\ SD!IsObject(above[2])
           /\ \E k \in DOMAIN above[2].members :
                 bt = <<Append(above[1], k), above[2].members[k]>>
    BY <1>2, OneDown
  <2>2. PICK k \in DOMAIN above[2].members : bt = <<Append(above[1], k), above[2].members[k]>>
    BY <2>1
  <2>3. Extends(bt[1], above[1], d, k)
    <3>1. IsPointer(above[1], d)
      BY LevelsAreSound DEF LevelIsSound
    <3> QED BY <2>2, <3>1, Longer
  <2>4. Under(above[1], c, j)
    BY <1>0, <1>2, <2>3 DEF Under, Extends
  <2>5. above \in Levels(w)[d]
    BY <1>2, <2>4
  <2> QED BY <1>2, <2>1, <2>2, <2>5, OneDown
<1>3. 0 \in S
  BY <1>0, <1>1
<1>4. ASSUME NEW d \in 0..MaxDepth, d \in S, d < MaxDepth PROVE d + 1 \in S
  <2>1. d + 1 \in 0..MaxDepth /\ (j <= d + 1 => j = d + 1 \/ j <= d)
    BY <1>0, <1>4
  <2> HIDE DEF Same
  <2> QED BY <1>1, <1>2, <1>4, <2>1
<1> HIDE DEF S
<1>5. \A d \in 0..MaxDepth : d \in S
  BY <1>0, <1>3, <1>4, ByDepth
<1>6. Same(n)
  BY <1>5 DEF S
<1> QED BY <1>6

(* The members of an object that is held are held.                         *)
LEMMA HeldMember ==
  ASSUME NEW value, FullyHeld(value), NEW n \in 0..MaxDepth, n + 1 \in 0..MaxDepth,
         NEW p, IsPointer(p, n), NEW x, Holds(value, n, p, x), SD!IsObject(x), NEW k
  PROVE  Holds(value, n + 1, Append(p, k), SD!Get(x.members, k))
<1> DEFINE q == Append(p, k)
<1>1. <<p, x>> \in Levels(value)[n]
  BY DEF Holds, SD!IsObject
<1>2. CASE k \in DOMAIN x.members
  <2>1. <<q, x.members[k]>> \in Levels(value)[n + 1]
    <3> DEFINE top == <<p, x>>
    <3>1. top[1] = p /\ top[2] = x /\ top \in Levels(value)[n]
      BY <1>1
    <3> HIDE DEF top
    <3> QED BY <1>2, <3>1, OneDown
  <2> DEFINE at == <<q, x.members[k]>>
  <2>2. at[2] # Missing /\ at[2] = x.members[k]
    BY <2>1 DEF FullyHeld
  <2> QED BY <1>2, <2>1, <2>2 DEF Holds, SD!Get
<1>3. CASE k \notin DOMAIN x.members
  <2>1. ASSUME NEW y, <<q, y>> \in Levels(value)[n + 1] PROVE FALSE
    <3>1. PICK above \in Levels(value)[n] :
             \E j \in DOMAIN above[2].members :
                <<q, y>> = <<Append(above[1], j), above[2].members[j]>>
      BY <2>1, OneDown
    <3>2. PICK j \in DOMAIN above[2].members : q = Append(above[1], j)
      BY <3>1
    <3>3. IsPointer(above[1], n)
      BY LevelsAreSound DEF LevelIsSound
    <3>4. p = above[1] /\ j = k
      BY <3>2, <3>3, OneWayLonger
    <3> DEFINE top == <<p, x>>
    <3>5. top \in Levels(value)[n] /\ top[1] = above[1] /\ top[2] = x
      BY <1>1, <3>4
    <3> HIDE DEF top
    <3>6. top = above
      BY <3>5, LevelsAreSound DEF LevelIsSound
    <3> QED BY <1>3, <3>2, <3>4, <3>5, <3>6
  <2>2. SD!Get(x.members, k) = Missing
    BY <1>3 DEF SD!Get
  <2> QED BY <2>1, <2>2 DEF Holds
<1> QED BY <1>2, <1>3

Objects(d) == SD!IsObject(d.old) /\ SD!IsObject(d.new)

(* An item of a walk is a difference at its pointer, and one that has to   *)
(* be looked into is as deep as the round.                                 *)
IsItemAt(v, w, d, k) ==
    /\ IsPointer(d.pointer, k)
    /\ Holds(v, k, d.pointer, d.old) /\ Holds(w, k, d.pointer, d.new)
    /\ d.old # d.new

IsItem(v, w, d, n) == \E k \in 0..n : IsItemAt(v, w, d, k) /\ (Objects(d) => k = n)

Start(v, w) == [pointer |-> <<>>, old |-> v, new |-> w]

LEMMA WalksDown ==
  ASSUME NEW d
  PROVE  /\ ~Objects(d) => SD!Walk(d) = {d}
         /\ Objects(d) => SD!Walk(d) = {SD!At(d, k) : k \in SD!MovedKeys(d)}
BY DEF SD!Walk, Objects

LEMMA MemberAt ==
  ASSUME NEW d, NEW k
  PROVE  /\ SD!At(d, k).pointer = Append(d.pointer, k)
         /\ SD!At(d, k).old = SD!Get(d.old.members, k)
         /\ SD!At(d, k).new = SD!Get(d.new.members, k)
BY DEF SD!At

LEMMA MemberIsItem ==
  ASSUME NEW v, NEW w, FullyHeld(v), FullyHeld(w), NEW n \in 0..MaxDepth, n + 1 \in 0..MaxDepth,
         NEW d, IsItemAt(v, w, d, n), Objects(d), NEW k
  PROVE  /\ IsPointer(SD!At(d, k).pointer, n + 1)
         /\ Holds(v, n + 1, SD!At(d, k).pointer, SD!At(d, k).old)
         /\ Holds(w, n + 1, SD!At(d, k).pointer, SD!At(d, k).new)
<1>1. IsPointer(Append(d.pointer, k), n + 1)
  BY Longer DEF IsItemAt, Extends
<1>2. Holds(v, n + 1, Append(d.pointer, k), SD!Get(d.old.members, k))
  BY HeldMember DEF IsItemAt, Objects
<1>3. Holds(w, n + 1, Append(d.pointer, k), SD!Get(d.new.members, k))
  BY HeldMember DEF IsItemAt, Objects
<1> QED BY <1>1, <1>2, <1>3, MemberAt

LEMMA ItemsAreDifferences ==
  ASSUME NEW v, NEW w, FullyHeld(v), FullyHeld(w), v # w,
         NEW n \in 0..MaxDepth, NEW d \in Rounds(Start(v, w))[n]
  PROVE  IsItem(v, w, d, n)
<1> DEFINE R == Rounds(Start(v, w))
           All(i) == \A e \in R[i] : IsItem(v, w, e, i)
           S == {i \in 0..MaxDepth : All(i)}
<1>0. MaxDepth \in Nat
  BY SemanticDiffAssumption
<1>1. /\ R[0] = {Start(v, w)}
      /\ \A i \in 0..MaxDepth : i + 1 \in 0..MaxDepth =>
            R[i + 1] = UNION {SD!Walk(x) : x \in R[i]}
  BY RoundsFollow
<1> HIDE DEF R
<1>2. 0 \in S
  <2> DEFINE e == Start(v, w)
  <2>1. e.pointer = <<>> /\ e.old = v /\ e.new = w
    BY DEF Start
  <2>2. <<<<>>, v>> \in Levels(v)[0] /\ <<<<>>, w>> \in Levels(w)[0]
    BY AtTheTop
  <2>3. v # Missing /\ w # Missing
    <3>1. <<<<>>, v>>[2] = v /\ <<<<>>, w>>[2] = w
      OBVIOUS
    <3> QED BY <1>0, <2>2, <3>1 DEF FullyHeld
  <2>4. IsPointer(<<>>, 0)
    BY DEF IsPointer
  <2> HIDE DEF e
  <2>5. IsItemAt(v, w, e, 0)
    BY <2>1, <2>2, <2>3, <2>4 DEF IsItemAt, Holds
  <2>6. IsItem(v, w, e, 0)
    BY <2>5 DEF IsItem
  <2> QED BY <1>0, <1>1, <2>6 DEF e
<1>3. ASSUME NEW i \in 0..MaxDepth, i \in S, i < MaxDepth PROVE i + 1 \in S
  <2>1. i + 1 \in 0..MaxDepth
    BY <1>0, <1>3
  <2> SUFFICES ASSUME NEW e \in R[i + 1] PROVE IsItem(v, w, e, i + 1)
    BY <2>1
  <2>2. PICK above \in R[i] : e \in SD!Walk(above)
    BY <1>1, <2>1
  <2>3. PICK k \in 0..i : IsItemAt(v, w, above, k) /\ (Objects(above) => k = i)
    BY <1>3, <2>2 DEF IsItem
  <2>4. CASE ~Objects(above)
    <3>1. e = above
      BY <2>2, <2>4, WalksDown
    <3>2. k \in 0..(i + 1)
      BY <1>0, <2>3
    <3> QED BY <2>3, <2>4, <3>1, <3>2 DEF IsItem
  <2>5. CASE Objects(above)
    <3>1. PICK key \in SD!MovedKeys(above) : e = SD!At(above, key)
      BY <2>2, <2>5, WalksDown
    <3>2. IsItemAt(v, w, above, i)
      BY <2>3, <2>5
    <3>3. e.old # e.new
      BY <3>1 DEF SD!MovedKeys
    <3>4. /\ IsPointer(e.pointer, i + 1)
          /\ Holds(v, i + 1, e.pointer, e.old)
          /\ Holds(w, i + 1, e.pointer, e.new)
      BY <2>1, <2>5, <3>1, <3>2, MemberIsItem
    <3>5. IsItemAt(v, w, e, i + 1)
      BY <3>3, <3>4 DEF IsItemAt
    <3>6. i + 1 \in 0..(i + 1)
      BY <2>1
    <3> QED BY <3>5, <3>6 DEF IsItem
  <2> QED BY <2>4, <2>5
<1> HIDE DEF S
<1>4. \A i \in 0..MaxDepth : i \in S
  BY <1>0, <1>2, <1>3, ByDepth
<1> QED BY <1>4 DEF S, R

LEMMA OneLength ==
  ASSUME NEW p, NEW n, NEW k, IsPointer(p, n), IsPointer(p, k)
  PROVE  n = k
<1>1. n \in Nat /\ k \in Nat /\ 1..n = 1..k
  BY PointerIsSeq DEF IsPointer
<1>2. \A i, j \in Nat : 1..i = 1..j => i = j
  OBVIOUS
<1> QED BY <1>1, <1>2

(* The item d of a walk leads to what is held at the m keys of p.          *)
LeadsTo(d, p, m) == \E k \in 0..m : IsPointer(d.pointer, k) /\ Under(p, d.pointer, k)

(* at is held by one of two values, n keys down, and not by the other.     *)
HeldByOne(v, w, n, at) ==
    \/ at \in Levels(v)[n] /\ at \notin Levels(w)[n]
    \/ at \in Levels(w)[n] /\ at \notin Levels(v)[n]

(* A walk goes on towards each scalar that only one of the values holds.   *)
LEMMA WalksTowards ==
  ASSUME NEW v, NEW w, FullyHeld(v), FullyHeld(w), NEW m \in 0..MaxDepth, NEW at,
         HeldByOne(v, w, m, at), ~SD!IsObject(at[2]),
         NEW n \in 0..MaxDepth, NEW d, IsItemAt(v, w, d, n), Objects(d), LeadsTo(d, at[1], m)
  PROVE  \E e \in SD!Walk(d) : LeadsTo(e, at[1], m)
<1>0. MaxDepth \in Nat
  BY SemanticDiffAssumption
<1>1. PICK k \in 0..m : IsPointer(d.pointer, k) /\ Under(at[1], d.pointer, k)
  BY DEF LeadsTo
<1>2. k = n /\ n \in 0..m
  BY <1>1, OneLength DEF IsItemAt
<1>3. <<d.pointer, d.old>> \in Levels(v)[n] /\ <<d.pointer, d.new>> \in Levels(w)[n]
  BY DEF IsItemAt, Holds, Objects, SD!IsObject
<1>4. at = <<at[1], at[2]>> /\ IsPointer(at[1], m)
  BY LevelsAreSound DEF HeldByOne, LevelIsSound
<1>5. n # m
  <2> SUFFICES ASSUME n = m PROVE FALSE
    OBVIOUS
  <2>1. at[1] = d.pointer
    BY <1>1, <1>2, <1>4, SamePointer DEF Under
  <2> DEFINE old == <<d.pointer, d.old>>
             new == <<d.pointer, d.new>>
  <2>2. /\ old[1] = d.pointer /\ old[2] = d.old /\ new[1] = d.pointer /\ new[2] = d.new
        /\ old \in Levels(v)[m] /\ new \in Levels(w)[m]
    BY <1>3
  <2> HIDE DEF old, new
  <2>3. at = old \/ at = new
    BY <2>1, <2>2, LevelsAreSound DEF LevelIsSound, HeldByOne
  <2> QED BY <2>2, <2>3 DEF Objects
<1>6. n + 1 \in 0..m /\ n + 1 \in 0..MaxDepth
  BY <1>0, <1>2, <1>5
<1> DEFINE key == at[1][n + 1]
           e == SD!At(d, key)
<1>7. /\ IsPointer(e.pointer, n + 1)
      /\ Holds(v, n + 1, e.pointer, e.old) /\ Holds(w, n + 1, e.pointer, e.new)
  BY <1>6, MemberIsItem
<1>8. Under(at[1], e.pointer, n + 1)
  <2>1. e.pointer = Append(d.pointer, key)
    BY MemberAt
  <2>2. Extends(e.pointer, d.pointer, n, key)
    BY <2>1, Longer DEF IsItemAt
  <2> HIDE DEF e
  <2> QED BY <1>1, <1>2, <2>2 DEF Under, Extends
<1>9. e.old # e.new
  <2> SUFFICES ASSUME e.old = e.new PROVE FALSE
    OBVIOUS
  <2> HIDE DEF e
  <2>1. Holds(v, n + 1, e.pointer, e.old) /\ Holds(w, n + 1, e.pointer, e.old)
    BY <1>7
  <2>2. CASE at \in Levels(v)[m]
    <3>1. at \in Levels(w)[m]
      BY <1>6, <1>7, <1>8, <2>1, <2>2, SameBelow
    <3> QED BY <2>2, <3>1 DEF HeldByOne
  <2>3. CASE at \in Levels(w)[m]
    <3>1. at \in Levels(v)[m]
      BY <1>6, <1>7, <1>8, <2>1, <2>3, SameBelow
    <3> QED BY <2>3, <3>1 DEF HeldByOne
  <2> QED BY <2>2, <2>3 DEF HeldByOne
<1>10. key \in SD!MovedKeys(d)
  <2> HIDE DEF key
  <2>1. key \in DOMAIN d.old.members \cup DOMAIN d.new.members
    BY <1>9, MemberAt DEF SD!Get
  <2> QED BY <1>9, <2>1 DEF SD!MovedKeys
<1>11. LeadsTo(e, at[1], m)
  <2> HIDE DEF e
  <2> QED BY <1>6, <1>7, <1>8 DEF LeadsTo
<1> HIDE DEF key
<1>12. e \in SD!Walk(d)
  BY <1>10, WalksDown
<1> HIDE DEF e
<1> QED BY <1>11, <1>12

(* Some item of each round leads to such a scalar.                         *)
LEMMA ItemsCover ==
  ASSUME NEW v, NEW w, FullyHeld(v), FullyHeld(w), v # w, NEW m \in 0..MaxDepth, NEW at,
         HeldByOne(v, w, m, at), ~SD!IsObject(at[2]), NEW n \in 0..MaxDepth
  PROVE  \E d \in Rounds(Start(v, w))[n] : LeadsTo(d, at[1], m)
<1> DEFINE R == Rounds(Start(v, w))
           S == {i \in 0..MaxDepth : \E d \in R[i] : LeadsTo(d, at[1], m)}
<1>0. MaxDepth \in Nat
  BY SemanticDiffAssumption
<1>1. /\ R[0] = {Start(v, w)}
      /\ \A i \in 0..MaxDepth : i + 1 \in 0..MaxDepth =>
            R[i + 1] = UNION {SD!Walk(x) : x \in R[i]}
  BY RoundsFollow
<1>1a. ASSUME NEW i \in 0..MaxDepth, NEW d \in R[i] PROVE IsItem(v, w, d, i)
  BY <1>1a, ItemsAreDifferences
<1> HIDE DEF R
<1>2. 0 \in S
  <2> DEFINE e == Start(v, w)
  <2>1. e.pointer = <<>> /\ IsPointer(<<>>, 0)
    BY DEF Start, IsPointer
  <2> HIDE DEF e
  <2>2. IsPointer(e.pointer, 0) /\ Under(at[1], e.pointer, 0) /\ 0 \in 0..m
    BY <1>0, <2>1 DEF Under
  <2>3. LeadsTo(e, at[1], m)
    BY <2>2 DEF LeadsTo
  <2> QED BY <1>0, <1>1, <2>3 DEF e
<1>3. ASSUME NEW i \in 0..MaxDepth, i \in S, i < MaxDepth PROVE i + 1 \in S
  <2>1. i + 1 \in 0..MaxDepth
    BY <1>0, <1>3
  <2>2. PICK d \in R[i] : LeadsTo(d, at[1], m)
    BY <1>3
  <2>3. \A e \in SD!Walk(d) : e \in R[i + 1]
    BY <1>1, <2>1
  <2>4. \E e \in SD!Walk(d) : LeadsTo(e, at[1], m)
    <3>1. CASE ~Objects(d)
      BY <2>2, <3>1, WalksDown
    <3>2. CASE Objects(d)
      <4>1. IsItemAt(v, w, d, i)
        BY <1>1a, <3>2 DEF IsItem
      <4> QED BY <2>2, <3>2, <4>1, WalksTowards
    <3> QED BY <3>1, <3>2
  <2> QED BY <2>1, <2>3, <2>4
<1> HIDE DEF S
<1>4. \A i \in 0..MaxDepth : i \in S
  BY <1>0, <1>2, <1>3, ByDepth
<1> QED BY <1>4 DEF S, R

LEMMA PointedAt ==
  ASSUME NEW old, NEW new, NEW q
  PROVE  q \in SD!PointersOf(old, new)
         <=> \E d \in Rounds(Start(old, new))[MaxDepth] : q = d.pointer
BY PointersByRounds DEF Start

LEMMA LeadsIsPrefix ==
  ASSUME NEW p, NEW q, NEW m, NEW k \in 0..m, IsPointer(p, m), IsPointer(q, k), Under(p, q, k)
  PROVE  StartsWith(p, q)
<1> DEFINE part == SubSeq(p, 1, k)
<1>1. m \in Nat /\ k \in Nat
  BY DEF IsPointer
<1>2. Len(p) = m /\ Len(q) = k /\ DOMAIN p = 1..m /\ q \in Seq({q[i] : i \in 1..k})
  BY PointerIsSeq
<1> DEFINE S == {p[i] : i \in 1..m}
<1>3. \A i \in 1..k : p[i] \in S
  BY <1>1
<1> HIDE DEF S
<1>4. /\ part \in Seq(S) /\ Len(part) = k
      /\ \A i \in 1..k : part[i] = p[i]
  <2>1. 1 \in Int /\ k \in Int
    BY <1>1
  <2>2. /\ SubSeq(p, 1, k) \in Seq(S)
        /\ Len(SubSeq(p, 1, k)) = IF 1 <= k THEN k - 1 + 1 ELSE 0
        /\ \A i \in 1 .. k - 1 + 1 : SubSeq(p, 1, k)[i] = p[1 + i - 1]
    BY <1>3, <2>1, SubSeqProperties
  <2> HIDE DEF part
  <2>3. k - 1 + 1 = k /\ (\A i \in 1..k : 1 + i - 1 = i) /\ (~(1 <= k) => k = 0)
    BY <1>1
  <2> QED BY <2>2, <2>3 DEF part
<1>5. part = q
  <2> HIDE DEF part
  <2>1. part = [i \in 1..k |-> part[i]]
    <3>1. part \in [1..Len(part) -> S]
      BY <1>4, LenProperties
    <3> QED BY <1>4, <3>1
  <2>2. IsPointer(part, k)
    BY <1>1, <2>1 DEF IsPointer
  <2> QED BY <1>4, <2>2, SamePointer DEF Under
<1> HIDE DEF part
<1>6. Len(q) <= Len(p)
  BY <1>1, <1>2
<1> QED BY <1>2, <1>5, <1>6 DEF part, StartsWith

LEMMA NodesByLevels ==
  ASSUME NEW value, NEW at
  PROVE  at \in Nodes(value) <=> \E n \in 0..MaxDepth : at \in Levels(value)[n]
BY HeldByLevels DEF Nodes

(* What a value holds at a pointer, as the property reads it.              *)
LEMMA HeldIsHeld ==
  ASSUME NEW value, NEW n \in 0..MaxDepth, NEW q, IsPointer(q, n), NEW x, Holds(value, n, q, x)
  PROVE  HeldAt(value, q) = IF x = Missing THEN {} ELSE {x}
<1>1. ASSUME NEW at \in Nodes(value), at[1] = q PROVE at \in Levels(value)[n]
  <2>1. PICK k \in 0..MaxDepth : at \in Levels(value)[k]
    BY <1>1, NodesByLevels
  <2>2. IsPointer(q, k)
    BY <1>1, <2>1, LevelsAreSound DEF LevelIsSound
  <2> QED BY <2>1, <2>2, OneLength
<1>2. \A at \in Levels(value)[n] : at = <<at[1], at[2]>> /\ at \in Nodes(value)
  BY NodesByLevels, LevelsAreSound DEF LevelIsSound
<1>3. CASE x = Missing
  <2>1. ASSUME NEW at \in Nodes(value), at[1] = q PROVE FALSE
    <3>1. at \in Levels(value)[n] /\ at = <<q, at[2]>>
      BY <1>1, <1>2, <2>1
    <3> QED BY <1>3, <3>1 DEF Holds
  <2> QED BY <1>3, <2>1 DEF HeldAt
<1>4. CASE x # Missing
  <2> DEFINE here == <<q, x>>
  <2>1. here[1] = q /\ here[2] = x /\ here \in Levels(value)[n]
    BY <1>4 DEF Holds
  <2> HIDE DEF here
  <2>2. \A at \in Nodes(value) : at[1] = q <=> at = here
    BY <1>1, <2>1, LevelsAreSound DEF LevelIsSound
  <2>3. here \in Nodes(value)
    BY <1>2, <2>1
  <2>4. HeldAt(value, q) = {here[2]}
    BY <2>2, <2>3 DEF HeldAt
  <2> QED BY <1>4, <2>1, <2>4
<1> QED BY <1>3, <1>4

(* A file that is read to the end.                                         *)
IsRead(value) ==
    FullyHeld(value) /\ \A at \in Levels(value)[MaxDepth] : ~SD!IsObject(at[2])

LEMMA FilesAreRead ==
  ASSUME Published, NEW b \in {signed, upstream}, NEW f \in DOMAIN b["schemas"].substance
  PROVE  IsRead(File(b, f))
<1>1. /\ \A at \in Nodes(File(b, f)) : at[2] # Missing
      /\ \A at \in HeldBelow(File(b, f))[MaxDepth] : ~SD!IsObject(at[2])
  <2>1. docs \in Docs /\ b["schemas"] \in docs["schemas"]
    BY SemanticDiffAssumption DEF Published
  <2> QED BY <2>1, SchemasAssumption DEF File
<1> QED BY <1>1, NodesByLevels, HeldByLevels DEF IsRead, FullyHeld

LEMMA MovedScalarsAreCovered ==
  ASSUME NEW v, NEW w, IsRead(v), IsRead(w), v # w, NEW at,
         \/ at \in Scalars(v) \ Scalars(w)
         \/ at \in Scalars(w) \ Scalars(v)
  PROVE  \E q \in SD!PointersOf(v, w) : StartsWith(at[1], q)
<1>0. MaxDepth \in 0..MaxDepth
  <2>1. MaxDepth \in Nat
    BY SemanticDiffAssumption
  <2> QED BY <2>1
<1>1. PICK m \in 0..MaxDepth : HeldByOne(v, w, m, at) /\ ~SD!IsObject(at[2])
  BY NodesByLevels DEF Scalars, HeldByOne
<1>2. PICK d \in Rounds(Start(v, w))[MaxDepth] : LeadsTo(d, at[1], m)
  BY <1>0, <1>1, ItemsCover DEF IsRead
<1>3. PICK k \in 0..m : IsPointer(d.pointer, k) /\ Under(at[1], d.pointer, k)
  BY <1>2 DEF LeadsTo
<1>4. IsPointer(at[1], m)
  BY <1>1, LevelsAreSound DEF HeldByOne, LevelIsSound
<1>5. StartsWith(at[1], d.pointer)
  BY <1>3, <1>4, LeadsIsPrefix
<1> QED BY <1>2, <1>5, PointedAt

LEMMA PointersAreDifferences ==
  ASSUME NEW v, NEW w, IsRead(v), IsRead(w), v # w, NEW q \in SD!PointersOf(v, w)
  PROVE  /\ HeldAt(v, q) # HeldAt(w, q)
         /\ ~\E x \in HeldAt(v, q), y \in HeldAt(w, q) : SD!IsObject(x) /\ SD!IsObject(y)
<1>0. MaxDepth \in 0..MaxDepth
  <2>1. MaxDepth \in Nat
    BY SemanticDiffAssumption
  <2> QED BY <2>1
<1>1. PICK d \in Rounds(Start(v, w))[MaxDepth] : q = d.pointer
  BY PointedAt
<1>2. IsItem(v, w, d, MaxDepth)
  BY <1>0, <1>1, ItemsAreDifferences DEF IsRead
<1>3. PICK k \in 0..MaxDepth : IsItemAt(v, w, d, k) /\ (Objects(d) => k = MaxDepth)
  BY <1>2 DEF IsItem
<1>4. /\ HeldAt(v, q) = IF d.old = Missing THEN {} ELSE {d.old}
      /\ HeldAt(w, q) = IF d.new = Missing THEN {} ELSE {d.new}
  BY <1>1, <1>3, HeldIsHeld DEF IsItemAt
<1>5. d.old # d.new
  BY <1>3 DEF IsItemAt
<1>6. ~Objects(d)
  <2> SUFFICES ASSUME Objects(d) PROVE FALSE
    OBVIOUS
  <2>1. <<q, d.old>> \in Levels(v)[MaxDepth]
    BY <1>1, <1>3 DEF IsItemAt, Holds, Objects, SD!IsObject
  <2> DEFINE here == <<q, d.old>>
  <2>2. here[2] = d.old
    OBVIOUS
  <2> HIDE DEF here
  <2> QED BY <2>1, <2>2 DEF here, IsRead, Objects
<1> QED BY <1>4, <1>5, <1>6 DEF Objects

(* What the delta says of the files that stayed and moved.                 *)
LEMMA SchemasCompared ==
  ASSUME NEW f \in DOMAIN SchemasDelta.modified
  PROVE  /\ f \in DOMAIN signed["schemas"].substance /\ f \in DOMAIN upstream["schemas"].substance
         /\ File(signed, f) # File(upstream, f)
         /\ SchemasDelta.modified[f] = SD!Reported(SD!PointersOf(File(signed, f), File(upstream, f)))
         /\ SD!Truncates(SD!PointersOf(File(signed, f), File(upstream, f)))
              => <<"truncated", f>> \in SchemasDelta.drift
<1> DEFINE old   == signed["schemas"].substance
           new   == upstream["schemas"].substance
           moved == {g \in DOMAIN old \cap DOMAIN new : old[g] # new[g]}
<1>1. /\ SchemasDelta.modified = [g \in moved |-> SD!Reported(SD!PointersOf(old[g], new[g]))]
      /\ SchemasDelta.drift
           = {<<"truncated", g>> : g \in {h \in moved : SD!Truncates(SD!PointersOf(old[h], new[h]))}}
  BY DEF SchemasDelta, SD!Compared, SD!NoDelta
<1>2. f \in moved
  BY <1>1
<1> QED BY <1>1, <1>2 DEF File

LEMMA DifferencesArePointedAt == Published => EveryDifferenceIsPointedAt
<1> SUFFICES ASSUME Published, NEW f \in DOMAIN SchemasDelta.modified
             PROVE
               LET listed == SchemasDelta.modified[f]
               IN  /\ <<"truncated", f>> \in SchemasDelta.drift
                      \/ \A p \in MovedPointers(f) : \E q \in listed : StartsWith(p, q)
                   /\ \A q \in listed :
                        LET old == HeldAt(File(signed, f), q)
                            new == HeldAt(File(upstream, f), q)
                        IN  old # new /\ ~\E v \in old, w \in new : SD!IsObject(v) /\ SD!IsObject(w)
  BY DEF EveryDifferenceIsPointedAt
<1> DEFINE v == File(signed, f)
           w == File(upstream, f)
           all == SD!PointersOf(v, w)
<1>1. IsRead(v) /\ IsRead(w) /\ v # w
  BY SchemasCompared, FilesAreRead
<1>2. /\ SchemasDelta.modified[f] = SD!Reported(all)
      /\ SD!Truncates(all) => <<"truncated", f>> \in SchemasDelta.drift
  BY SchemasCompared
<1>3. SD!Reported(all) \subseteq all /\ (~SD!Truncates(all) => SD!Reported(all) = all)
  BY DEF SD!Reported
<1>4. ASSUME NEW p \in MovedPointers(f) PROVE \E q \in all : StartsWith(p, q)
  <2>1. PICK at : /\ p = at[1]
                  /\ at \in Scalars(v) \ Scalars(w) \/ at \in Scalars(w) \ Scalars(v)
    BY DEF MovedPointers
  <2> QED BY <1>1, <2>1, MovedScalarsAreCovered
<1>5. \A q \in all :
        /\ HeldAt(v, q) # HeldAt(w, q)
        /\ ~\E x \in HeldAt(v, q), y \in HeldAt(w, q) : SD!IsObject(x) /\ SD!IsObject(y)
  BY <1>1, PointersAreDifferences
<1> HIDE DEF all, v, w
<1> QED BY <1>2, <1>3, <1>4, <1>5 DEF v, w

(* No difference between two versions of a file escapes the pointers in    *)
(* the report, unless it says so, and each pointer is at a difference.     *)
THEOREM DifferencesPointedAt == Spec => []EveryDifferenceIsPointedAt
BY AllIsPublished, DifferencesArePointedAt, PTL

-----------------------------------------------------------------------------
(* The 800-53 catalog.                                                     *)

(* Where a visit begins.                                                   *)
Top(catalog) == [place |-> <<>>, kind |-> "group", node |-> catalog]

LEMMA CollectByVisits ==
  ASSUME NEW catalog
  PROVE  OD!Collect(catalog) = {x \in Visits(Top(catalog))[MaxDepth] : x.kind = "listed"}
BY DEF OD!Collect, OD!Unfolded, Visits, AreVisits, Top

(* Visits and levels: one depth further down.                              *)
LEMMA IsWithin ==
  ASSUME NEW node, NEW x
  PROVE  x \in Within(node) <=>
            \/ \E i \in DOMAIN OD!Child(node, "groups") : x = OD!Child(node, "groups")[i]
            \/ \E i \in DOMAIN OD!Child(node, "controls") : x = OD!Child(node, "controls")[i]
BY DEF Within, Parts

LEMMA VisitsInside ==
  ASSUME NEW item, item.kind # "listed", NEW x \in OD!Visit(item)
  PROVE  \/ x.kind = "group" /\ x.node \in Parts(item.node, "groups")
         \/ x.kind = "control" /\ x.node \in Parts(item.node, "controls")
         \/ /\ x.kind = "listed" /\ x.node = item.node
            /\ item.kind = "control" /\ "id" \in DOMAIN item.node
<1>1. x \in OD!Inside(item) \/ x \in OD!Listing(item)
  BY DEF OD!Visit
<1>2. CASE x \in OD!Inside(item)
  <2>1. \/ \E i \in DOMAIN OD!Child(item.node, "groups") :
              x.kind = "group" /\ x.node = OD!Child(item.node, "groups")[i]
        \/ \E i \in DOMAIN OD!Child(item.node, "controls") :
              x.kind = "control" /\ x.node = OD!Child(item.node, "controls")[i]
    BY <1>2 DEF OD!Inside, OD!Items
  <2> QED BY <2>1 DEF Parts
<1>3. CASE x \in OD!Listing(item)
  BY <1>3 DEF OD!Listing
<1> QED BY <1>1, <1>2, <1>3

LEMMA VisitsAll ==
  ASSUME NEW item, item.kind # "listed"
  PROVE  /\ \A node \in Parts(item.node, "groups") :
               \E x \in OD!Visit(item) : x.kind = "group" /\ x.node = node
         /\ \A node \in Parts(item.node, "controls") :
               \E x \in OD!Visit(item) : x.kind = "control" /\ x.node = node
         /\ item.kind = "control" /\ "id" \in DOMAIN item.node =>
               \E x \in OD!Visit(item) : x.kind = "listed" /\ x.node = item.node
<1>1. OD!Visit(item) = OD!Inside(item) \cup OD!Listing(item)
  BY DEF OD!Visit
<1>2. ASSUME NEW node \in Parts(item.node, "groups")
      PROVE  \E x \in OD!Visit(item) : x.kind = "group" /\ x.node = node
  <2>1. PICK i \in DOMAIN OD!Child(item.node, "groups") : node = OD!Child(item.node, "groups")[i]
    BY DEF Parts
  <2> DEFINE x == [place |-> Append(Append(item.place, 1), i), kind |-> "group",
                   node |-> OD!Child(item.node, "groups")[i]]
  <2>2. x \in OD!Inside(item)
    BY DEF OD!Inside, OD!Items
  <2>3. x.kind = "group" /\ x.node = node
    BY <2>1
  <2> QED BY <1>1, <2>2, <2>3
<1>3. ASSUME NEW node \in Parts(item.node, "controls")
      PROVE  \E x \in OD!Visit(item) : x.kind = "control" /\ x.node = node
  <2>1. PICK i \in DOMAIN OD!Child(item.node, "controls") : node = OD!Child(item.node, "controls")[i]
    BY DEF Parts
  <2> DEFINE x == [place |-> Append(Append(item.place, 2), i), kind |-> "control",
                   node |-> OD!Child(item.node, "controls")[i]]
  <2>2. x \in OD!Inside(item)
    BY DEF OD!Inside, OD!Items
  <2>3. x.kind = "control" /\ x.node = node
    BY <2>1
  <2> QED BY <1>1, <2>2, <2>3
<1>4. ASSUME item.kind = "control", "id" \in DOMAIN item.node
      PROVE  \E x \in OD!Visit(item) : x.kind = "listed" /\ x.node = item.node
  <2> DEFINE x == [place |-> item.place, kind |-> "listed", node |-> item.node]
  <2>1. x \in OD!Listing(item)
    BY <1>4 DEF OD!Listing
  <2>2. x.kind = "listed" /\ x.node = item.node
    OBVIOUS
  <2> QED BY <1>1, <2>1, <2>2
<1> QED BY <1>2, <1>3, <1>4

LEMMA ListedStays ==
  ASSUME NEW item, item.kind = "listed"
  PROVE  OD!Visit(item) = {item}
BY DEF OD!Visit

(* A visit finds, at each depth, what the catalog has there, and lists     *)
(* nothing but controls of the catalog.                                    *)
IsControl(catalog, n, node) == \E above \in Tiers(catalog)[n] : node \in Parts(above, "controls")

FoundAt(catalog, n, x) ==
    /\ x.kind # "listed" => x.node \in Tiers(catalog)[n]
    /\ x.kind = "control" => \E d \in 0..MaxDepth : IsControl(catalog, d, x.node)
    /\ x.kind = "listed" =>
          "id" \in DOMAIN x.node /\ \E d \in 0..MaxDepth : IsControl(catalog, d, x.node)

LEMMA FoundInside ==
  ASSUME NEW catalog, NEW n \in 0..MaxDepth, n + 1 \in 0..MaxDepth,
         NEW item, FoundAt(catalog, n, item), NEW x \in OD!Visit(item)
  PROVE  FoundAt(catalog, n + 1, x)
<1>1. CASE item.kind = "listed"
  <2>1. x = item
    BY <1>1, ListedStays
  <2> QED BY <1>1, <2>1 DEF FoundAt
<1>2. CASE item.kind # "listed"
  <2>1. item.node \in Tiers(catalog)[n]
    BY <1>2 DEF FoundAt
  <2>2. \A node \in Within(item.node) : node \in Tiers(catalog)[n + 1]
    BY <2>1, TiersFollow
  <2>3. CASE x.kind = "group" /\ x.node \in Parts(item.node, "groups")
    BY <2>2, <2>3 DEF FoundAt, Within
  <2>4. CASE x.kind = "control" /\ x.node \in Parts(item.node, "controls")
    <3>1. IsControl(catalog, n, x.node)
      BY <2>1, <2>4 DEF IsControl
    <3> QED BY <2>2, <2>4, <3>1 DEF FoundAt, Within
  <2>5. CASE /\ x.kind = "listed" /\ x.node = item.node
             /\ item.kind = "control" /\ "id" \in DOMAIN item.node
    BY <2>5 DEF FoundAt
  <2> QED BY <1>2, <2>3, <2>4, <2>5, VisitsInside
<1> QED BY <1>1, <1>2

LEMMA AllIsFound ==
  ASSUME NEW catalog, NEW n \in 0..MaxDepth, NEW x \in Visits(Top(catalog))[n]
  PROVE  FoundAt(catalog, n, x)
<1> DEFINE R == Visits(Top(catalog))
           S == {d \in 0..MaxDepth : \A y \in R[d] : FoundAt(catalog, d, y)}
<1>0. MaxDepth \in Nat
  BY SemanticDiffAssumption
<1>1. /\ R[0] = {Top(catalog)}
      /\ \A d \in 0..MaxDepth : d + 1 \in 0..MaxDepth =>
            R[d + 1] = UNION {OD!Visit(y) : y \in R[d]}
  BY VisitsFollow
<1> HIDE DEF R
<1>2. 0 \in S
  <2>1. Tiers(catalog)[0] = {catalog}
    BY TiersFollow
  <2>2. Top(catalog).kind = "group" /\ Top(catalog).node = catalog
    BY DEF Top
  <2>3. FoundAt(catalog, 0, Top(catalog))
    BY <2>1, <2>2 DEF FoundAt
  <2> QED BY <1>0, <1>1, <2>3
<1>3. ASSUME NEW d \in 0..MaxDepth, d \in S, d < MaxDepth PROVE d + 1 \in S
  <2>1. d + 1 \in 0..MaxDepth
    BY <1>0, <1>3
  <2>2. ASSUME NEW y \in R[d + 1] PROVE FoundAt(catalog, d + 1, y)
    <3>1. PICK item \in R[d] : y \in OD!Visit(item)
      BY <1>1, <2>1
    <3> QED BY <1>3, <2>1, <3>1, FoundInside
  <2> QED BY <2>1, <2>2
<1> HIDE DEF S
<1>4. \A d \in 0..MaxDepth : d \in S
  BY <1>0, <1>2, <1>3, ByDepth
<1> QED BY <1>4 DEF S, R

(* A visit reaches everything a catalog has.                               *)
Reaches(catalog, n, node) ==
    \E x \in Visits(Top(catalog))[n] : x.kind # "listed" /\ x.node = node

LEMMA ReachesAll ==
  ASSUME NEW catalog, NEW n \in 0..MaxDepth, NEW node \in Tiers(catalog)[n]
  PROVE  Reaches(catalog, n, node)
<1> DEFINE R == Visits(Top(catalog))
           T == Tiers(catalog)
           S == {d \in 0..MaxDepth : \A y \in T[d] : \E x \in R[d] : x.kind # "listed" /\ x.node = y}
<1>0. MaxDepth \in Nat
  BY SemanticDiffAssumption
<1>1. /\ R[0] = {Top(catalog)}
      /\ \A d \in 0..MaxDepth : d + 1 \in 0..MaxDepth =>
            R[d + 1] = UNION {OD!Visit(y) : y \in R[d]}
  BY VisitsFollow
<1>2. /\ T[0] = {catalog}
      /\ \A d \in 0..MaxDepth : d + 1 \in 0..MaxDepth =>
            T[d + 1] = UNION {Within(y) : y \in T[d]}
  BY TiersFollow
<1> HIDE DEF R, T
<1>3. 0 \in S
  <2>1. Top(catalog).kind = "group" /\ Top(catalog).node = catalog
    BY DEF Top
  <2> QED BY <1>0, <1>1, <1>2, <2>1
<1>4. ASSUME NEW d \in 0..MaxDepth, d \in S, d < MaxDepth PROVE d + 1 \in S
  <2>1. d + 1 \in 0..MaxDepth
    BY <1>0, <1>4
  <2>2. ASSUME NEW y \in T[d + 1] PROVE \E x \in R[d + 1] : x.kind # "listed" /\ x.node = y
    <3>1. PICK above \in T[d] : y \in Within(above)
      BY <1>2, <2>1, <2>2
    <3>2. PICK item \in R[d] : item.kind # "listed" /\ item.node = above
      BY <1>4
    <3>3. \E x \in OD!Visit(item) : x.kind # "listed" /\ x.node = y
      BY <3>1, <3>2, VisitsAll DEF Within
    <3> QED BY <1>1, <2>1, <3>3
  <2> QED BY <2>1, <2>2
<1> HIDE DEF S
<1>5. \A d \in 0..MaxDepth : d \in S
  BY <1>0, <1>3, <1>4, ByDepth
<1> QED BY <1>5 DEF S, R, T, Reaches

LEMMA ListedToTheEnd ==
  ASSUME NEW root, NEW n \in 0..MaxDepth, NEW x \in Visits(root)[n], x.kind = "listed"
  PROVE  x \in Visits(root)[MaxDepth]
<1> DEFINE R == Visits(root)
           S == {d \in 0..MaxDepth : n <= d => x \in R[d]}
<1>0. MaxDepth \in Nat
  BY SemanticDiffAssumption
<1>1. /\ x \in R[n]
      /\ \A d \in 0..MaxDepth : d + 1 \in 0..MaxDepth =>
            R[d + 1] = UNION {OD!Visit(y) : y \in R[d]}
  BY VisitsFollow
<1> HIDE DEF R
<1>2. 0 \in S
  <2>1. n <= 0 => n = 0
    BY <1>0
  <2> QED BY <1>0, <1>1, <2>1
<1>3. ASSUME NEW d \in 0..MaxDepth, d \in S, d < MaxDepth PROVE d + 1 \in S
  <2>1. d + 1 \in 0..MaxDepth /\ (n <= d + 1 => n <= d \/ n = d + 1)
    BY <1>0, <1>3
  <2>2. ASSUME x \in R[d] PROVE x \in R[d + 1]
    <3>1. x \in OD!Visit(x)
      BY ListedStays
    <3> QED BY <1>1, <2>1, <2>2, <3>1
  <2> QED BY <1>1, <1>3, <2>1, <2>2
<1> HIDE DEF S
<1>4. \A d \in 0..MaxDepth : d \in S
  BY <1>0, <1>2, <1>3, ByDepth
<1>5. MaxDepth \in 0..MaxDepth /\ n <= MaxDepth
  BY <1>0
<1> QED BY <1>4, <1>5 DEF S, R

(* A catalog that is read to the end.                                      *)
Ends(catalog) == NodesBelow(catalog)[MaxDepth] = {}

LEMMA ControlsByTiers ==
  ASSUME NEW catalog, NEW c
  PROVE  c \in ControlsIn(catalog) <=>
            "id" \in DOMAIN c /\ \E n \in 0..MaxDepth : IsControl(catalog, n, c)
BY NodesByTiers DEF ControlsIn, IsControl

LEMMA ControlsAreListed ==
  ASSUME NEW catalog, Ends(catalog), NEW c \in ControlsIn(catalog)
  PROVE  \E x \in OD!Collect(catalog) : x.node = c
<1> DEFINE R == Visits(Top(catalog))
<1>0. MaxDepth \in Nat
  BY SemanticDiffAssumption
<1>1. PICK n \in 0..MaxDepth : IsControl(catalog, n, c)
  BY ControlsByTiers
<1>2. PICK above \in Tiers(catalog)[n] : c \in Parts(above, "controls")
  BY <1>1 DEF IsControl
<1>3. Tiers(catalog)[MaxDepth] = {}
  BY NodesByTiers DEF Ends
<1>4. \A d \in 0..MaxDepth : d + 1 \in 0..MaxDepth =>
         R[d + 1] = UNION {OD!Visit(y) : y \in R[d]}
  BY VisitsFollow
<1>5. n # MaxDepth /\ n + 1 \in 0..MaxDepth
  <2>1. n # MaxDepth
    BY <1>2, <1>3
  <2> QED BY <1>0, <2>1
<1>6. c \in Tiers(catalog)[n + 1]
  <2>1. Tiers(catalog)[n + 1] = UNION {Within(y) : y \in Tiers(catalog)[n]}
    BY <1>5, TiersFollow
  <2>2. c \in Within(above)
    BY <1>2 DEF Within
  <2> QED BY <1>2, <2>1, <2>2
<1>7. n + 2 \in 0..MaxDepth /\ (n + 1) + 1 = n + 2
  <2>1. n + 1 # MaxDepth
    BY <1>3, <1>6
  <2> QED BY <1>0, <1>5, <2>1
<1>8. PICK item \in R[n] : item.kind # "listed" /\ item.node = above
  BY <1>2, ReachesAll DEF Reaches
<1>9. PICK x \in OD!Visit(item) : x.kind = "control" /\ x.node = c
  BY <1>2, <1>8, VisitsAll
<1>10. x \in R[n + 1]
  <2> HIDE DEF R
  <2>1. R[n + 1] = UNION {OD!Visit(y) : y \in R[n]}
    BY <1>4, <1>5
  <2> QED BY <1>9, <2>1
<1>11. "id" \in DOMAIN c
  BY ControlsByTiers
<1>12. PICK y \in OD!Visit(x) : y.kind = "listed" /\ y.node = c
  BY <1>9, <1>11, VisitsAll
<1>13. y \in R[n + 2]
  <2> HIDE DEF R
  <2>1. R[(n + 1) + 1] = UNION {OD!Visit(z) : z \in R[n + 1]}
    BY <1>4, <1>5, <1>7
  <2> QED BY <1>7, <1>10, <1>12, <2>1
<1>14. y \in R[MaxDepth]
  BY <1>7, <1>12, <1>13, ListedToTheEnd
<1> QED BY <1>12, <1>14, CollectByVisits

LEMMA ListedAreControls ==
  ASSUME NEW catalog, NEW x \in OD!Collect(catalog)
  PROVE  x.node \in ControlsIn(catalog)
<1>1. MaxDepth \in 0..MaxDepth
  <2>1. MaxDepth \in Nat
    BY SemanticDiffAssumption
  <2> QED BY <2>1
<1>2. x \in Visits(Top(catalog))[MaxDepth] /\ x.kind = "listed"
  BY CollectByVisits
<1>3. FoundAt(catalog, MaxDepth, x)
  BY <1>1, <1>2, AllIsFound
<1> QED BY <1>2, <1>3, ControlsByTiers DEF FoundAt

(* The map of a catalog whose controls have ids of their own.              *)
Unique(catalog) == \A c, d \in ControlsIn(catalog) : c.id = d.id => c = d

LEMMA CatalogFlattened ==
  ASSUME NEW doc, Ends(doc.substance.catalog), Unique(doc.substance.catalog)
  PROVE  /\ DOMAIN OD!FlattenCatalog(doc) = {c.id : c \in ControlsIn(doc.substance.catalog)}
         /\ \A c \in ControlsIn(doc.substance.catalog) : OD!FlattenCatalog(doc)[c.id] = c
<1> DEFINE catalog   == doc.substance.catalog
           listed    == OD!Collect(catalog)
           Named(id) == {item \in listed : item.node.id = id}
           Last(id)  == CHOOSE item \in Named(id) :
                           \A other \in Named(id) :
                              OD!Precedes(item.place, other.place) => other.node = item.node
           controls  == ControlsIn(catalog)
<1>1. OD!FlattenCatalog(doc) = [id \in {item.node.id : item \in listed} |-> Last(id).node]
  BY DEF OD!FlattenCatalog
<1>2. /\ \A c \in controls : \E x \in listed : x.node = c
      /\ \A x \in listed : x.node \in controls
  BY ControlsAreListed, ListedAreControls
<1>3. \A c, d \in controls : c.id = d.id => c = d
  BY DEF Unique
<1> HIDE DEF catalog, listed, controls
<1>4. {item.node.id : item \in listed} = {c.id : c \in controls}
  BY <1>2
<1>5. ASSUME NEW c \in controls PROVE Last(c.id).node = c
  <2>1. \A item \in Named(c.id) : item.node = c
    BY <1>2, <1>3
  <2>2. Named(c.id) # {}
    BY <1>2
  <2> HIDE DEF Named
  <2>3. Last(c.id) \in Named(c.id)
    BY <2>1, <2>2
  <2> QED BY <2>1, <2>3
<1> HIDE DEF Last
<1>6. DOMAIN OD!FlattenCatalog(doc) = {c.id : c \in controls}
  BY <1>1, <1>4
<1>7. ASSUME NEW c \in controls PROVE OD!FlattenCatalog(doc)[c.id] = c
  BY <1>1, <1>4, <1>5
<1> QED BY <1>6, <1>7 DEF controls, catalog

(* The controls the strategy finds to have moved.                          *)
MovedIn(before, after) ==
    LET old == ControlsIn(before.substance.catalog)
        new == ControlsIn(after.substance.catalog)
    IN  (old \ new) \cup (new \ old)

CatalogDelta(before, after) ==
    OD!CompareMaps(OD!FlattenCatalog(before), OD!FlattenCatalog(after), OD!OscalHighlights)

LEMMA TouchedAreMoved ==
  ASSUME NEW before, NEW after,
         Ends(before.substance.catalog), Unique(before.substance.catalog),
         Ends(after.substance.catalog), Unique(after.substance.catalog)
  PROVE  OD!Touched(CatalogDelta(before, after)) = {c.id : c \in MovedIn(before, after)}
<1> DEFINE old == OD!FlattenCatalog(before)
           new == OD!FlattenCatalog(after)
           was == ControlsIn(before.substance.catalog)
           is  == ControlsIn(after.substance.catalog)
           stayed == {id \in DOMAIN old \cap DOMAIN new : old[id] # new[id]}
           delta  == CatalogDelta(before, after)
<1>1. /\ DOMAIN old = {c.id : c \in was} /\ \A c \in was : old[c.id] = c
      /\ DOMAIN new = {c.id : c \in is} /\ \A c \in is : new[c.id] = c
  BY CatalogFlattened
<1>2. /\ delta.added = DOMAIN new \ DOMAIN old /\ delta.removed = DOMAIN old \ DOMAIN new
      /\ DOMAIN delta.modified = stayed
  BY DEF CatalogDelta, OD!CompareMaps
<1>3. OD!Touched(delta) = (DOMAIN new \ DOMAIN old) \cup (DOMAIN old \ DOMAIN new) \cup stayed
  <2> HIDE DEF delta, old, new, stayed
  <2> QED BY <1>2 DEF OD!Touched
<1>4. MovedIn(before, after) = (was \ is) \cup (is \ was)
  BY DEF MovedIn
<1> HIDE DEF old, new, was, is, delta
<1>5. ASSUME NEW c \in (was \ is) \cup (is \ was) PROVE c.id \in OD!Touched(delta)
  <2>1. CASE c \in was \ is
    BY <1>1, <1>3, <2>1
  <2>2. CASE c \in is \ was
    BY <1>1, <1>3, <2>2
  <2> QED BY <2>1, <2>2
<1>6. ASSUME NEW id \in OD!Touched(delta) PROVE \E c \in (was \ is) \cup (is \ was) : c.id = id
  <2>1. CASE id \in DOMAIN old
    <3>1. PICK c \in was : c.id = id /\ old[id] = c
      BY <1>1, <2>1
    <3>2. c \notin is
      BY <1>1, <1>3, <1>6, <3>1
    <3> QED BY <3>1, <3>2
  <2>2. CASE id \notin DOMAIN old
    <3>1. PICK c \in is : c.id = id
      BY <1>1, <1>3, <1>6, <2>2
    <3>2. c \notin was
      BY <1>1, <2>2, <3>1
    <3> QED BY <3>1, <3>2
  <2> QED BY <2>1, <2>2
<1> QED BY <1>4, <1>5, <1>6 DEF delta

-----------------------------------------------------------------------------
(* The controls that the rules reference.                                  *)

HasControl(sections, f, id) ==
    /\ "CTL" \in DOMAIN sections /\ f \in DOMAIN sections["CTL"]
    /\ id \in DOMAIN sections["CTL"][f]

IndicatorsOf(sections, f) == RD!Child(sections["KSI"][f], "indicators")

HasIndicator(sections, f, i) ==
    /\ "KSI" \in DOMAIN sections /\ f \in DOMAIN sections["KSI"]
    /\ i \in DOMAIN IndicatorsOf(sections, f)

Names(indicator, id) == "controls" \in DOMAIN indicator /\ id \in indicator["controls"]

(* Where a reference is read: a control of CTL, or one an indicator names. *)
LEMMA WhereReferenced ==
  ASSUME NEW sections, NEW id
  PROVE  id \in OD!Referenced(sections) <=>
            \/ \E f, raw : HasControl(sections, f, raw) /\ id = OD!Normalise(raw)
            \/ \E f, i, raw : /\ HasIndicator(sections, f, i)
                              /\ Names(IndicatorsOf(sections, f)[i], raw)
                              /\ id = OD!Normalise(raw)
<1> DEFINE ksi == OD!Child(sections, "KSI")
           Indicators(f) == OD!Child(ksi[f], "indicators")
           Named(indicator) ==
              IF "controls" \in DOMAIN indicator THEN indicator["controls"] ELSE {}
           listed == OD!InControls(sections)
           named  == OD!InIndicators(sections)
<1>1. id \in OD!Referenced(sections) <=> \E raw \in listed \cup named : id = OD!Normalise(raw)
  BY DEF OD!Referenced
<1>2. \A raw : raw \in listed <=> \E f : HasControl(sections, f, raw)
  BY DEF OD!InControls, OD!Child, HasControl
<1>3. \A raw : raw \in named <=>
         \E f, i : HasIndicator(sections, f, i) /\ Names(IndicatorsOf(sections, f)[i], raw)
  <2>1. \A f : f \in DOMAIN ksi <=> "KSI" \in DOMAIN sections /\ f \in DOMAIN sections["KSI"]
    BY DEF OD!Child
  <2>2. \A f \in DOMAIN ksi : Indicators(f) = IndicatorsOf(sections, f)
    BY DEF OD!Child, RD!Child, IndicatorsOf
  <2>3. \A indicator, raw : raw \in Named(indicator) <=> Names(indicator, raw)
    BY DEF Names
  <2>4. named = UNION {UNION {Named(Indicators(f)[i]) : i \in DOMAIN Indicators(f)} : f \in DOMAIN ksi}
    BY DEF OD!InIndicators
  <2> HIDE DEF ksi, Indicators, Named
  <2> HIDE DEF named
  <2> QED BY <2>1, <2>2, <2>3, <2>4 DEF HasIndicator
<1> HIDE DEF listed, named
<1> QED BY <1>1, <1>2, <1>3

(* A leaf three keys down is in the section its path begins with.          *)
LEMMA SectionOfLeaf ==
  ASSUME NEW sections, NEW s \in DOMAIN sections, NEW leaf \in RD!FlattenSection(s, sections[s]),
         NEW a, NEW f, NEW k, leaf[1] = <<a, f, k>>
  PROVE  s = a
<1>1. Len(leaf[1]) = 3 /\ leaf[1][1] = a
  OBVIOUS
<1>2. CASE s = "FRR"
  <2>1. IsRuleLeaf(leaf, sections) \/ IsInfoLeaf(leaf, sections)
    BY <1>2, FrrLeaf
  <2>2. leaf[1][1] = "FRR"
    BY <2>1 DEF IsRuleLeaf, IsInfoLeaf
  <2> QED BY <1>1, <1>2, <2>2
<1>3. CASE s # "FRR"
  BY <1>1, <1>3, OtherLeaves
<1> QED BY <1>2, <1>3

PathTo(a, f, k) == <<a, f, k>>

IsAt(leaf, a, f, k) == leaf[1] = <<a, f, k>>

LEMMA ControlLeaf ==
  ASSUME NEW body, NEW f, NEW k
  PROVE  (\E leaf \in RD!FlattenSection("CTL", body) : IsAt(leaf, "CTL", f, k))
         <=> f \in DOMAIN body /\ k \in DOMAIN body[f]
<1>1. RD!FlattenSection("CTL", body) = UNION {RD!Leaves(<<"CTL", g>>, body[g]) : g \in DOMAIN body}
  BY DEF RD!FlattenSection, RD!FlattenCtl
<1>2. ASSUME NEW g \in DOMAIN body, NEW leaf \in RD!Leaves(<<"CTL", g>>, body[g])
      PROVE  \E j \in DOMAIN body[g] : leaf = <<<<"CTL", g, j>>, body[g][j]>>
  <2>1. PICK j \in DOMAIN body[g] : leaf = <<Append(<<"CTL", g>>, j), body[g][j]>>
    BY DEF RD!Leaves
  <2> QED BY <2>1, LeafPath
<1>3. ASSUME f \in DOMAIN body, k \in DOMAIN body[f]
      PROVE  <<<<"CTL", f, k>>, body[f][k]>> \in RD!Leaves(<<"CTL", f>>, body[f])
  <2>1. <<Append(<<"CTL", f>>, k), body[f][k]>> \in RD!Leaves(<<"CTL", f>>, body[f])
    BY <1>3 DEF RD!Leaves
  <2> QED BY <2>1, LeafPath
<1>4. ASSUME f \in DOMAIN body, k \in DOMAIN body[f]
      PROVE  \E leaf \in RD!FlattenSection("CTL", body) : IsAt(leaf, "CTL", f, k)
  <2> DEFINE leaf == <<<<"CTL", f, k>>, body[f][k]>>
  <2>1. IsAt(leaf, "CTL", f, k)
    BY DEF IsAt
  <2>2. leaf \in RD!FlattenSection("CTL", body)
    BY <1>1, <1>3, <1>4
  <2> QED BY <2>1, <2>2
<1>5. ASSUME NEW leaf \in RD!FlattenSection("CTL", body), IsAt(leaf, "CTL", f, k)
      PROVE  f \in DOMAIN body /\ k \in DOMAIN body[f]
  <2>1. PICK g \in DOMAIN body : leaf \in RD!Leaves(<<"CTL", g>>, body[g])
    BY <1>1
  <2>2. PICK j \in DOMAIN body[g] : leaf = <<<<"CTL", g, j>>, body[g][j]>>
    BY <1>2, <2>1
  <2>3. g = f /\ j = k
    BY <1>5, <2>2 DEF IsAt
  <2> QED BY <2>1, <2>2, <2>3
<1> QED BY <1>4, <1>5

(* The indicator k of family f in a KSI section, and the leaf it becomes.  *)
IndicatorAt(body, f, k, map) ==
    /\ (\E leaf \in RD!FlattenSection("KSI", body) : IsAt(leaf, "KSI", f, k))
         <=> f \in DOMAIN body /\ k \in DOMAIN map
    /\ \A leaf \in RD!FlattenSection("KSI", body) : IsAt(leaf, "KSI", f, k) => leaf[2] = map[k]

LEMMA IndicatorLeaf ==
  ASSUME NEW body, NEW f, NEW k, k # "info", NEW map, map = RD!Child(body[f], "indicators")
  PROVE  IndicatorAt(body, f, k, map)
<1> DEFINE Inner(g) == RD!Leaves(<<"KSI", g>>, RD!Child(body[g], "indicators"))
           Header(g) == <<<<"KSI", g, "info">>, RD!Without(body[g], {"indicators"})>>
<1>1. RD!FlattenSection("KSI", body) = UNION {{Header(g)} \cup Inner(g) : g \in DOMAIN body}
  BY DEF RD!FlattenSection, RD!FlattenKsi
<1>2. ASSUME NEW g \in DOMAIN body, NEW leaf \in Inner(g)
      PROVE  \E j \in DOMAIN RD!Child(body[g], "indicators") :
                leaf = <<<<"KSI", g, j>>, RD!Child(body[g], "indicators")[j]>>
  <2>1. PICK j \in DOMAIN RD!Child(body[g], "indicators") :
           leaf = <<Append(<<"KSI", g>>, j), RD!Child(body[g], "indicators")[j]>>
    BY DEF RD!Leaves
  <2> QED BY <2>1, LeafPath
<1>3. ASSUME f \in DOMAIN body, k \in DOMAIN map
      PROVE  <<<<"KSI", f, k>>, map[k]>> \in Inner(f)
  <2>1. <<Append(<<"KSI", f>>, k), map[k]>> \in Inner(f)
    BY <1>3 DEF RD!Leaves
  <2> QED BY <2>1, LeafPath
<1>4. \A g : Header(g)[1] = <<"KSI", g, "info">>
  OBVIOUS
<1> HIDE DEF Inner, Header
<1>5. ASSUME f \in DOMAIN body, k \in DOMAIN map
      PROVE  \E leaf \in RD!FlattenSection("KSI", body) : IsAt(leaf, "KSI", f, k)
  <2> DEFINE leaf == <<<<"KSI", f, k>>, map[k]>>
  <2>1. IsAt(leaf, "KSI", f, k)
    BY DEF IsAt
  <2>2. leaf \in RD!FlattenSection("KSI", body)
    BY <1>1, <1>3, <1>5
  <2> QED BY <2>1, <2>2
<1>6. ASSUME NEW leaf \in RD!FlattenSection("KSI", body), IsAt(leaf, "KSI", f, k)
      PROVE  f \in DOMAIN body /\ k \in DOMAIN map /\ leaf[2] = map[k]
  <2>1. PICK g \in DOMAIN body : leaf = Header(g) \/ leaf \in Inner(g)
    BY <1>1
  <2>2. leaf # Header(g)
    BY <1>4, <1>6 DEF IsAt
  <2>3. PICK j \in DOMAIN RD!Child(body[g], "indicators") :
           leaf = <<<<"KSI", g, j>>, RD!Child(body[g], "indicators")[j]>>
    BY <1>2, <2>1, <2>2
  <2>4. g = f /\ j = k
    BY <1>6, <2>3 DEF IsAt
  <2> QED BY <2>1, <2>3, <2>4
<1> QED BY <1>5, <1>6 DEF IndicatorAt

LEMMA FlattenedAt ==
  ASSUME NEW sections, NEW a, NEW f, NEW k
  PROVE  /\ PathTo(a, f, k) \in DOMAIN RD!Flatten(sections) <=>
               /\ a \in DOMAIN sections
               /\ \E leaf \in RD!FlattenSection(a, sections[a]) : IsAt(leaf, a, f, k)
         /\ PathTo(a, f, k) \in DOMAIN RD!Flatten(sections) =>
               \E leaf \in RD!FlattenSection(a, sections[a]) :
                  IsAt(leaf, a, f, k) /\ RD!Flatten(sections)[PathTo(a, f, k)] = leaf[2]
<1> DEFINE path   == PathTo(a, f, k)
           leaves == UNION {RD!FlattenSection(s, sections[s]) : s \in DOMAIN sections}
           Chosen == CHOOSE leaf \in leaves : leaf[1] = path
<1>1. RD!Flatten(sections)
        = [p \in {leaf[1] : leaf \in leaves} |-> (CHOOSE leaf \in leaves : leaf[1] = p)[2]]
  BY DEF RD!Flatten
<1>2. ASSUME NEW leaf \in leaves, leaf[1] = path
      PROVE  a \in DOMAIN sections /\ leaf \in RD!FlattenSection(a, sections[a])
  <2>1. PICK s \in DOMAIN sections : leaf \in RD!FlattenSection(s, sections[s])
    OBVIOUS
  <2>2. s = a
    BY <1>2, <2>1, SectionOfLeaf DEF PathTo
  <2> QED BY <2>1, <2>2
<1>3. ASSUME a \in DOMAIN sections, NEW leaf \in RD!FlattenSection(a, sections[a])
      PROVE  leaf \in leaves
  BY <1>3
<1> HIDE DEF leaves, path
<1>4. path \in DOMAIN RD!Flatten(sections) <=> \E leaf \in leaves : leaf[1] = path
  BY <1>1
<1>5. ASSUME \E leaf \in leaves : leaf[1] = path
      PROVE  Chosen \in leaves /\ Chosen[1] = path
  BY <1>5
<1>6. ASSUME path \in DOMAIN RD!Flatten(sections)
      PROVE  RD!Flatten(sections)[path] = Chosen[2]
  BY <1>1, <1>6
<1> HIDE DEF Chosen
<1> HIDE DEF path
<1>7. \A leaf : IsAt(leaf, a, f, k) <=> leaf[1] = path
  BY DEF IsAt, PathTo, path
<1> QED BY <1>2, <1>3, <1>4, <1>5, <1>6, <1>7 DEF path

(* No indicator is named as the header of its family is.                   *)
HasPlainIndicators(sections) ==
    \A f, i : HasIndicator(sections, f, i) => i # "info"

LEMMA FlattenedControl ==
  ASSUME NEW sections, NEW f, NEW k
  PROVE  PathTo("CTL", f, k) \in DOMAIN RD!Flatten(sections) <=> HasControl(sections, f, k)
BY FlattenedAt, ControlLeaf DEF HasControl

LEMMA FlattenedIndicator ==
  ASSUME NEW sections, NEW f, NEW k, k # "info"
  PROVE  /\ PathTo("KSI", f, k) \in DOMAIN RD!Flatten(sections) <=> HasIndicator(sections, f, k)
         /\ HasIndicator(sections, f, k) =>
               RD!Flatten(sections)[PathTo("KSI", f, k)] = IndicatorsOf(sections, f)[k]
<1> DEFINE body == sections["KSI"]
           map  == IndicatorsOf(sections, f)
<1>1. map = RD!Child(body[f], "indicators")
  BY DEF IndicatorsOf
<1> HIDE DEF body, map
<1>2. IndicatorAt(body, f, k, map)
  BY <1>1, IndicatorLeaf
<1> QED BY <1>2, FlattenedAt DEF IndicatorAt, HasIndicator, body, map

(* Documents that flatten to the same leaves reference the same controls.  *)
LEMMA ReferencesKept ==
  ASSUME NEW old, NEW new, RD!Flatten(old) = RD!Flatten(new), HasPlainIndicators(old)
  PROVE  OD!Referenced(old) \subseteq OD!Referenced(new)
<1> SUFFICES ASSUME NEW id \in OD!Referenced(old) PROVE id \in OD!Referenced(new)
  OBVIOUS
<1>1. CASE \E f, raw : HasControl(old, f, raw) /\ id = OD!Normalise(raw)
  <2>1. PICK f, raw : HasControl(old, f, raw) /\ id = OD!Normalise(raw)
    BY <1>1
  <2>2. HasControl(new, f, raw)
    BY <2>1, FlattenedControl
  <2> QED BY <2>1, <2>2, WhereReferenced
<1>2. CASE \E f, i, raw : /\ HasIndicator(old, f, i)
                          /\ Names(IndicatorsOf(old, f)[i], raw)
                          /\ id = OD!Normalise(raw)
  <2>1. PICK f, i, raw : /\ HasIndicator(old, f, i)
                         /\ Names(IndicatorsOf(old, f)[i], raw)
                         /\ id = OD!Normalise(raw)
    BY <1>2
  <2>2. i # "info"
    BY <2>1 DEF HasPlainIndicators
  <2>3. HasIndicator(new, f, i) /\ IndicatorsOf(new, f)[i] = IndicatorsOf(old, f)[i]
    BY <2>1, <2>2, FlattenedIndicator
  <2> QED BY <2>1, <2>3, WhereReferenced
<1> QED BY <1>1, <1>2, WhereReferenced

-----------------------------------------------------------------------------
(* What a moved control makes of the sync.                                 *)

IsOscalId(id) ==
    id = [form |-> "oscal", control |-> id.control, enhancement |-> id.enhancement]

LEMMA NormalisedForm ==
  ASSUME NEW sections, NEW id \in OD!Referenced(sections),
         id = [form |-> id.form, control |-> id.control, enhancement |-> id.enhancement]
  PROVE  IsOscalId(id)
<1>1. PICK raw : id = [raw EXCEPT !.form = "oscal"]
  BY WhereReferenced DEF OD!Normalise
<1>2. "form" \in DOMAIN id
  <2>1. DOMAIN id = {"form", "control", "enhancement"}
    OBVIOUS
  <2> QED BY <2>1
<1>3. id.form = "oscal"
  BY <1>1, <1>2
<1> QED BY <1>3 DEF IsOscalId

(* The catalogs and the rules that are published.                          *)
LEMMA CatalogsAreRead ==
  ASSUME Published, NEW b \in {signed, upstream}
  PROVE  /\ Ends(b["oscal"].substance.catalog)
         /\ \A c \in ControlsOf(b) : IsOscalId(c.id)
         /\ \A id \in ReferencedIn(b["rules"]) : IsOscalId(id)
         /\ ReferencedIn(b["rules"]) = OD!Referenced(SectionsOf(b))
         /\ HasPlainIndicators(SectionsOf(b))
<1> DEFINE doc == b["oscal"]
           rules == b["rules"]
<1>1. docs \in Docs /\ doc \in docs["oscal"] /\ rules \in docs["rules"]
  BY SemanticDiffAssumption DEF Published
<1>2. Ends(doc.substance.catalog) /\ \A c \in ControlsOf(b) : IsOscalId(c.id)
  BY <1>1, ControlsAssumption DEF Ends, ControlsOf, IsOscalId
<1>3. /\ \A id \in OD!Referenced(rules.substance.sections) :
            id = [form |-> id.form, control |-> id.control, enhancement |-> id.enhancement]
      /\ \A f \in DOMAIN OD!Child(rules.substance.sections, "KSI") :
            "info" \notin DOMAIN OD!Child(OD!Child(rules.substance.sections, "KSI")[f], "indicators")
  BY <1>1, ControlsAssumption
<1>4. rules # NoDoc
  <2>1. Cut(b)["rules"] # Absent /\ rules = [substance |-> rules.substance, volatile |-> rules.volatile]
    BY SemanticDiffAssumption, CutIsBundle, Shapes
  <2> DEFINE Subs == UNION {UNION {{d.substance : d \in all[s]} : s \in Sources} : all \in Docs}
             Vols == UNION {UNION {{d.volatile : d \in all[s]} : s \in Sources} : all \in Docs}
  <2>2. rules.substance \in Subs /\ rules.volatile \in Vols
    <3>1. "rules" \in Sources
      BY SemanticDiffAssumption
    <3> QED BY <1>1, <3>1
  <2>3. G!Doc = [substance : Subs, volatile : Vols]
    BY DEF G!Doc
  <2> HIDE DEF Subs, Vols, rules
  <2>4. rules \in G!Doc
    BY <2>1, <2>2, <2>3
  <2> QED BY <2>4, NothingAssumption
<1>5. ReferencedIn(rules) = OD!Referenced(SectionsOf(b))
  BY <1>4 DEF ReferencedIn, SectionsOf
<1>6. \A id \in ReferencedIn(rules) : IsOscalId(id)
  BY <1>3, <1>5, NormalisedForm DEF SectionsOf
<1>7. HasPlainIndicators(SectionsOf(b))
  BY <1>3 DEF HasPlainIndicators, HasIndicator, IndicatorsOf, SectionsOf, OD!Child, RD!Child
<1> QED BY <1>2, <1>5, <1>6, <1>7

LEMMA CatalogSeverity ==
  ASSUME NEW before, NEW after, NEW referenced
  PROVE  /\ OD!SeverityOf(before, after, referenced) = Major
              <=> OD!Touched(CatalogDelta(before, after)) \cap referenced # {}
         /\ OD!SeverityOf(before, after, referenced) \in {None, Routine, Major}
<1> DEFINE delta == OD!Compared(before, after, referenced)
<1>1. /\ delta.added = CatalogDelta(before, after).added
      /\ delta.removed = CatalogDelta(before, after).removed
      /\ delta.modified = CatalogDelta(before, after).modified
  BY DEF OD!Compared, CatalogDelta, OD!CompareMaps
<1>2. OD!Touched(delta) = OD!Touched(CatalogDelta(before, after))
  <2> HIDE DEF delta
  <2> QED BY <1>1 DEF OD!Touched
<1>3. OD!SeverityOf(before, after, referenced)
        = CASE OD!Touched(delta) \cap referenced # {} -> OD!Major
            [] /\ OD!Touched(delta) \cap referenced = {}
               /\ ~OD!IsEmpty(delta) \/ delta.highlights # {} -> OD!Routine
            [] OTHER -> OD!None
  BY DEF OD!SeverityOf
<1> HIDE DEF delta
<1>4. CASE OD!Touched(delta) \cap referenced # {}
  BY <1>2, <1>3, <1>4 DEF OD!Major, Major
<1>5. CASE OD!Touched(delta) \cap referenced = {}
  <2>1. OD!SeverityOf(before, after, referenced) \in {OD!Routine, OD!None}
    BY <1>3, <1>5
  <2> QED BY <1>2, <1>5, <2>1 DEF OD!Routine, OD!None, Routine, None, Major
<1> QED BY <1>4, <1>5

(* The controls that moved, when no two share an id.                       *)
LEMMA TouchedAreMovedControls ==
  ASSUME Published, HasUniqueControls(signed), HasUniqueControls(upstream), NEW referenced,
         \A id \in referenced : IsOscalId(id)
  PROVE  OD!Touched(CatalogDelta(signed["oscal"], upstream["oscal"])) \cap referenced # {}
         <=> MovedControls \cap {<<id.control, id.enhancement>> : id \in referenced} # {}
<1> DEFINE moved == (ControlsOf(signed) \ ControlsOf(upstream)) \cup (ControlsOf(upstream) \ ControlsOf(signed))
           touched == OD!Touched(CatalogDelta(signed["oscal"], upstream["oscal"]))
<1>1. touched = {c.id : c \in moved}
  <2>1. /\ Ends(signed["oscal"].substance.catalog) /\ Ends(upstream["oscal"].substance.catalog)
        /\ Unique(signed["oscal"].substance.catalog) /\ Unique(upstream["oscal"].substance.catalog)
    BY CatalogsAreRead DEF HasUniqueControls, ControlsOf, Unique
  <2>2. MovedIn(signed["oscal"], upstream["oscal"]) = moved
    BY DEF MovedIn, ControlsOf
  <2> QED BY <2>1, <2>2, TouchedAreMoved
<1>2. MovedControls = {<<c.id.control, c.id.enhancement>> : c \in moved}
  BY DEF MovedControls
<1>3. \A c \in moved : IsOscalId(c.id)
  BY CatalogsAreRead
<1> HIDE DEF moved, touched
<1>4. \A c \in moved, id \in referenced :
         c.id = id <=> <<c.id.control, c.id.enhancement>> = <<id.control, id.enhancement>>
  BY <1>3 DEF IsOscalId
<1>5. touched \cap referenced # {} <=> \E c \in moved, id \in referenced : c.id = id
  BY <1>1
<1>6. MovedControls \cap {<<id.control, id.enhancement>> : id \in referenced} # {}
        <=> \E c \in moved, id \in referenced :
               <<c.id.control, c.id.enhancement>> = <<id.control, id.enhancement>>
  BY <1>2
<1> QED BY <1>4, <1>5, <1>6 DEF touched

LEMMA MovedReferencesAreMajor == Published => ReferencedMovesAreMajor
<1> SUFFICES ASSUME Published, HasUniqueControls(signed), HasUniqueControls(upstream),
                    MovedControls \cap (Mentioned(signed) \cup Mentioned(upstream)) # {}
             PROVE  SyncPlan.severity = Major
  BY DEF ReferencedMovesAreMajor
<1>0. "oscal" \in Sources /\ "rules" \in Sources
  BY SemanticDiffAssumption
<1>1. ASSUME NEW s \in Sources, Moves(s),
             StrategySeverity(s, signed[s], upstream[s], upstream["rules"]) = Major
      PROVE  SyncPlan.severity = Major
  <2>1. SyncPlan.severity \in Severity /\ SyncPlan.severity >= Major
    BY <1>1, PlanIsAsLoud DEF Moves
  <2> QED BY <2>1 DEF Severity, None, Major
<1>2. CASE MovedControls \cap Mentioned(upstream) # {}
  <2> DEFINE referenced == ReferencedIn(upstream["rules"])
  <2>1. \A id \in referenced : IsOscalId(id)
    BY CatalogsAreRead
  <2>2. MovedControls \cap {<<id.control, id.enhancement>> : id \in referenced} # {}
    BY <1>2 DEF Mentioned
  <2> HIDE DEF referenced
  <2>3. OD!SeverityOf(signed["oscal"], upstream["oscal"], referenced) = Major
    BY <2>1, <2>2, TouchedAreMovedControls, CatalogSeverity
  <2>4. Moves("oscal")
    <3>1. ControlsOf(signed) # ControlsOf(upstream)
      BY <1>2 DEF MovedControls
    <3> QED BY <3>1 DEF Moves, ControlsOf
  <2>5. StrategySeverity("oscal", signed["oscal"], upstream["oscal"], upstream["rules"]) = Major
    BY <2>3 DEF StrategySeverity, referenced
  <2> QED BY <1>0, <1>1, <2>4, <2>5
<1>3. CASE MovedControls \cap Mentioned(upstream) = {}
  <2>1. ~(ReferencedIn(signed["rules"]) \subseteq ReferencedIn(upstream["rules"]))
    BY <1>3 DEF Mentioned
  <2>2. RD!Flatten(SectionsOf(signed)) # RD!Flatten(SectionsOf(upstream))
    BY <2>1, CatalogsAreRead, ReferencesKept
  <2>3. RD!SeverityOf(signed["rules"], upstream["rules"]) = Major
    BY <2>2, MovedLeavesAreMajor DEF SectionsOf
  <2>4. Moves("rules")
    BY <2>2 DEF Moves, SectionsOf
  <2>5. StrategySeverity("rules", signed["rules"], upstream["rules"], upstream["rules"]) = Major
    BY <2>3 DEF StrategySeverity
  <2> QED BY <1>0, <1>1, <2>4, <2>5
<1> QED BY <1>2, <1>3

(* A control or an enhancement that moves and that the rules reference,    *)
(* before or now, makes the sync Major, in any two catalogs and rules whose*)
(* controls have ids of their own (diff/oscal.rs, plan.rs compare).        *)
THEOREM ReferencedControlsMoveAsMajor == Spec => []ReferencedMovesAreMajor
BY AllIsPublished, MovedReferencesAreMajor, PTL

LEMMA MajorsTouchReferenced == Published => MajorTouchesReferenced
<1> SUFFICES ASSUME Published, HasUniqueControls(signed), HasUniqueControls(upstream),
                    \A s \in Sources \ {"oscal"} : signed[s] = upstream[s],
                    SyncPlan.severity = Major
             PROVE  MovedControls \cap Mentioned(upstream) # {}
  BY DEF MajorTouchesReferenced
<1> DEFINE referenced == ReferencedIn(upstream["rules"])
<1>1. PICK s \in Sources : Moves(s) /\ Loudness(s) = Major
  BY PlanIsLoudest DEF None, Major
<1>2. s = "oscal"
  BY <1>1 DEF Moves
<1>3. OD!SeverityOf(signed["oscal"], upstream["oscal"], referenced) = Major
  <2>1. StrategySeverity("oscal", signed["oscal"], upstream["oscal"], upstream["rules"])
          = OD!SeverityOf(signed["oscal"], upstream["oscal"], referenced)
    BY DEF StrategySeverity
  <2>2. OD!SeverityOf(signed["oscal"], upstream["oscal"], referenced) \in {None, Routine, Major}
    BY CatalogSeverity
  <2> HIDE DEF referenced
  <2> QED BY <1>1, <1>2, <2>1, <2>2
      DEF Loudness, G!AtLeast, None, Metadata, Routine, Major
<1>4. \A id \in referenced : IsOscalId(id)
  BY CatalogsAreRead
<1> HIDE DEF referenced
<1>5. MovedControls \cap {<<id.control, id.enhancement>> : id \in referenced} # {}
  BY <1>3, <1>4, TouchedAreMovedControls, CatalogSeverity
<1> QED BY <1>5 DEF Mentioned, referenced

(* A catalog that moves alone is Major only when a control moved that the  *)
(* rules reference (diff/oscal.rs:5), in any catalog whose controls have   *)
(* ids of their own.                                                       *)
THEOREM MajorsAreForReferences == Spec => []MajorTouchesReferenced
BY AllIsPublished, MajorsTouchReferenced, PTL
=============================================================================
