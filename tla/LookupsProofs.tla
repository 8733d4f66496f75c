------------------------------ MODULE LookupsProofs ------------------------------
(***************************************************************************)
(* Proofs about Lookups, for every signed bundle and everything that may   *)
(* be asked of it.                                                         *)
(***************************************************************************)
EXTENDS Lookups, SequenceTheorems, FiniteSetTheorems, WellFoundedInduction, TLAPS

-----------------------------------------------------------------------------
(* Rules as the selection finds them and as flatten names them.            *)

(* A place of the FRR section has a family, a type, a subset and an id. *)
LEMMA RulePlaces ==
  ASSUME NEW sections, NEW at \in OB!Rules(sections)
  PROVE  /\ "FRR" \in DOMAIN sections
         /\ at[1] \in DOMAIN sections["FRR"]
         /\ at[2] \in DOMAIN RD!Child(sections["FRR"][at[1]], "data")
         /\ at[3] \in DOMAIN RD!Child(sections["FRR"][at[1]], "data")[at[2]]
         /\ at[4] \in DOMAIN RD!Child(sections["FRR"][at[1]], "data")[at[2]][at[3]]
         /\ at = <<at[1], at[2], at[3], at[4]>>
         /\ OB!Leaf(sections, at)
              = RD!Child(sections["FRR"][at[1]], "data")[at[2]][at[3]][at[4]]
<1>1. "FRR" \in DOMAIN sections
  BY DEF OB!Rules, OB!Child
<1>2. PICK f \in DOMAIN sections["FRR"] :
        \E t \in DOMAIN OB!Child(sections["FRR"][f], "data") :
          \E s \in DOMAIN OB!Child(sections["FRR"][f], "data")[t] :
            \E id \in DOMAIN OB!Child(sections["FRR"][f], "data")[t][s] : at = <<f, t, s, id>>
  BY <1>1 DEF OB!Rules, OB!Child
<1>3. OB!Child(sections["FRR"][f], "data") = RD!Child(sections["FRR"][f], "data")
  BY DEF OB!Child, RD!Child
<1>4. "data" \in DOMAIN sections["FRR"][f]
  BY <1>2 DEF OB!Child
<1> QED
  BY <1>1, <1>2, <1>3, <1>4 DEF OB!Leaf, RD!Child

(* How paths are put together. *)
LEMMA PairPath ==
  ASSUME NEW a, NEW b
  PROVE  Append(<<a>>, b) = <<a, b>>
<1> DEFINE S == {a, b}
<1>1. <<a>> \in Seq(S) /\ b \in S /\ <<a, b>> \in Seq(S)
  OBVIOUS
<1>2. Len(<<a>>) = 1 /\ Len(<<a, b>>) = 2
  OBVIOUS
<1> HIDE DEF S
<1>3. /\ Append(<<a>>, b) \in Seq(S) /\ Len(Append(<<a>>, b)) = 2
      /\ \A i \in 1..1 : Append(<<a>>, b)[i] = <<a>>[i]
      /\ Append(<<a>>, b)[2] = b
  BY <1>1, <1>2, AppendProperties
<1>4. \A i \in 1..2 : Append(<<a>>, b)[i] = <<a, b>>[i]
  BY <1>3
<1> QED BY <1>1, <1>2, <1>3, <1>4, SeqEqual

LEMMA LeafPath ==
  ASSUME NEW a, NEW b, NEW c
  PROVE  Append(<<a, b>>, c) = <<a, b, c>>
<1> DEFINE S == {a, b, c}
<1>1. <<a, b>> \in Seq(S) /\ c \in S /\ <<a, b, c>> \in Seq(S)
  OBVIOUS
<1>2. Len(<<a, b>>) = 2 /\ Len(<<a, b, c>>) = 3
  OBVIOUS
<1> HIDE DEF S
<1>3. /\ Append(<<a, b>>, c) \in Seq(S) /\ Len(Append(<<a, b>>, c)) = 3
      /\ \A i \in 1..2 : Append(<<a, b>>, c)[i] = <<a, b>>[i]
      /\ Append(<<a, b>>, c)[3] = c
  BY <1>1, <1>2, AppendProperties
<1>4. \A i \in 1..3 : Append(<<a, b>>, c)[i] = <<a, b, c>>[i]
  BY <1>3
<1> QED BY <1>1, <1>2, <1>3, <1>4, SeqEqual

LEMMA RulePath ==
  ASSUME NEW a, NEW b, NEW c, NEW d, NEW e
  PROVE  Append(<<a, b, c, d>>, e) = <<a, b, c, d, e>>
<1> DEFINE S == {a, b, c, d, e}
<1>1. <<a, b, c, d>> \in Seq(S) /\ e \in S /\ <<a, b, c, d, e>> \in Seq(S)
  OBVIOUS
<1>2. Len(<<a, b, c, d>>) = 4 /\ Len(<<a, b, c, d, e>>) = 5
  OBVIOUS
<1> HIDE DEF S
<1>3. /\ Append(<<a, b, c, d>>, e) \in Seq(S) /\ Len(Append(<<a, b, c, d>>, e)) = 5
      /\ \A i \in 1..4 : Append(<<a, b, c, d>>, e)[i] = <<a, b, c, d>>[i]
      /\ Append(<<a, b, c, d>>, e)[5] = e
  BY <1>1, <1>2, AppendProperties
<1>4. \A i \in 1..5 : Append(<<a, b, c, d>>, e)[i] = <<a, b, c, d, e>>[i]
  BY <1>3
<1> QED BY <1>1, <1>2, <1>3, <1>4, SeqEqual

LEMMA PlacePath ==
  ASSUME NEW a, NEW b, NEW c, NEW d, NEW e
  PROVE  <<a>> \o <<b, c, d, e>> = <<a, b, c, d, e>>
<1> DEFINE S == {a, b, c, d, e}
<1>1. <<a>> \in Seq(S) /\ <<b, c, d, e>> \in Seq(S) /\ <<a, b, c, d, e>> \in Seq(S)
  OBVIOUS
<1>2. Len(<<a>>) = 1 /\ Len(<<b, c, d, e>>) = 4 /\ Len(<<a, b, c, d, e>>) = 5
  OBVIOUS
<1> HIDE DEF S
<1>3. /\ <<a>> \o <<b, c, d, e>> \in Seq(S) /\ Len(<<a>> \o <<b, c, d, e>>) = 5
      /\ \A i \in 1..5 : (<<a>> \o <<b, c, d, e>>)[i]
                            = IF i <= 1 THEN <<a>>[i] ELSE <<b, c, d, e>>[i - 1]
  BY <1>1, <1>2, ConcatProperties
<1>4. \A i \in 1..5 : (<<a>> \o <<b, c, d, e>>)[i] = <<a, b, c, d, e>>[i]
  BY <1>3
<1> QED BY <1>1, <1>2, <1>3, <1>4, SeqEqual

(* The leaves of a section other than FRR, told from those of the rules. *)
LEMMA OtherLeaves ==
  ASSUME NEW section, NEW body, section # "FRR",
         NEW leaf \in RD!FlattenSection(section, body)
  PROVE  \/ Len(leaf[1]) = 1
         \/ Len(leaf[1]) \in {2, 3} /\ leaf[1][1] \in {"FRD", "KSI", "CTL"}
<1>1. CASE section = "FRD"
  <2>1. leaf \in RD!FlattenFrd(body)
    BY <1>1 DEF RD!FlattenSection
  <2>2. CASE leaf \in RD!InfoLeaf(<<"FRD">>, body)
    <3>1. leaf[1] = <<"FRD", "info">>
      BY <2>2, PairPath DEF RD!InfoLeaf
    <3> QED BY <3>1
  <2>3. CASE leaf \notin RD!InfoLeaf(<<"FRD">>, body)
    <3>1. PICK group \in DOMAIN RD!Child(body, "data") :
             leaf \in RD!Leaves(<<"FRD", group>>, RD!Child(body, "data")[group])
      BY <2>1, <2>3 DEF RD!FlattenFrd
    <3>2. PICK x : leaf[1] = Append(<<"FRD", group>>, x)
      BY <3>1 DEF RD!Leaves
    <3>3. leaf[1] = <<"FRD", group, x>>
      BY <3>2, LeafPath
    <3> QED BY <3>3
  <2> QED BY <2>2, <2>3
<1>2. CASE section = "KSI"
  <2>1. PICK g \in DOMAIN body :
           \/ leaf[1] = <<"KSI", g, "info">>
           \/ leaf \in RD!Leaves(<<"KSI", g>>, RD!Child(body[g], "indicators"))
    BY <1>2 DEF RD!FlattenSection, RD!FlattenKsi
  <2>2. CASE leaf[1] = <<"KSI", g, "info">>
    BY <2>2
  <2>3. CASE leaf \in RD!Leaves(<<"KSI", g>>, RD!Child(body[g], "indicators"))
    <3>1. PICK x : leaf[1] = Append(<<"KSI", g>>, x)
      BY <2>3 DEF RD!Leaves
    <3>2. leaf[1] = <<"KSI", g, x>>
      BY <3>1, LeafPath
    <3> QED BY <3>2
  <2> QED BY <2>1, <2>2, <2>3
<1>3. CASE section = "CTL"
  <2>1. PICK g \in DOMAIN body : leaf \in RD!Leaves(<<"CTL", g>>, body[g])
    BY <1>3 DEF RD!FlattenSection, RD!FlattenCtl
  <2>2. PICK x : leaf[1] = Append(<<"CTL", g>>, x)
    BY <2>1 DEF RD!Leaves
  <2>3. leaf[1] = <<"CTL", g, x>>
    BY <2>2, LeafPath
  <2> QED BY <2>3
<1>4. CASE section \notin {"FRD", "KSI", "CTL"}
  <2>1. leaf = <<<<section>>, body>>
    BY <1>4 DEF RD!FlattenSection
  <2> QED BY <2>1
<1> QED BY <1>1, <1>2, <1>3, <1>4

(* The leaf of a rule is at the path of its place. *)
IsRuleLeaf(leaf, sections) ==
    \E at \in OB!Rules(sections) :
        leaf = <<<<"FRR", at[1], at[2], at[3], at[4]>>, OB!Leaf(sections, at)>>

(* The leaf of the info block of a family. *)
IsInfoLeaf(leaf, sections) ==
    \E f \in DOMAIN sections["FRR"] :
        /\ "info" \in DOMAIN sections["FRR"][f]
        /\ leaf = <<<<"FRR", f, "info">>, sections["FRR"][f]["info"]>>

LEMMA RuleLeafIsLeaf ==
  ASSUME NEW sections, NEW at \in OB!Rules(sections)
  PROVE  <<<<"FRR", at[1], at[2], at[3], at[4]>>, OB!Leaf(sections, at)>>
            \in RD!FlattenSection("FRR", sections["FRR"])
<1> DEFINE f == at[1]
           data == RD!Child(sections["FRR"][f], "data")
<1>1. /\ f \in DOMAIN sections["FRR"] /\ at[2] \in DOMAIN data
      /\ at[3] \in DOMAIN data[at[2]] /\ at[4] \in DOMAIN data[at[2]][at[3]]
      /\ OB!Leaf(sections, at) = data[at[2]][at[3]][at[4]]
  BY RulePlaces
<1>2. <<Append(<<"FRR", f, at[2], at[3]>>, at[4]), OB!Leaf(sections, at)>>
         \in RD!Leaves(<<"FRR", f, at[2], at[3]>>, data[at[2]][at[3]])
  BY <1>1 DEF RD!Leaves
<1>3. \A leaf \in RD!Leaves(<<"FRR", f, at[2], at[3]>>, data[at[2]][at[3]]) :
         leaf \in RD!FlattenFrr(sections["FRR"])
  <2> SUFFICES ASSUME NEW leaf \in RD!Leaves(<<"FRR", f, at[2], at[3]>>, data[at[2]][at[3]])
               PROVE  leaf \in RD!FlattenFrr(sections["FRR"])
    OBVIOUS
  <2>1. leaf \in UNION {RD!Leaves(<<"FRR", f, at[2], s>>, data[at[2]][s]) : s \in DOMAIN data[at[2]]}
    BY <1>1
  <2>2. leaf \in UNION {UNION {RD!Leaves(<<"FRR", f, t, s>>, data[t][s]) : s \in DOMAIN data[t]}
                          : t \in DOMAIN data}
    BY <1>1, <2>1
  <2> DEFINE Family(g) ==
               RD!InfoLeaf(<<"FRR", g>>, sections["FRR"][g])
               \cup UNION {UNION {RD!Leaves(<<"FRR", g, t, s>>,
                                            RD!Child(sections["FRR"][g], "data")[t][s])
                                    : s \in DOMAIN RD!Child(sections["FRR"][g], "data")[t]}
                             : t \in DOMAIN RD!Child(sections["FRR"][g], "data")}
  <2>3. RD!FlattenFrr(sections["FRR"]) = UNION {Family(g) : g \in DOMAIN sections["FRR"]}
    BY DEF RD!FlattenFrr
  <2>4. leaf \in Family(f)
    BY <2>2
  <2> HIDE DEF Family
  <2> QED BY <1>1, <2>3, <2>4
<1> QED
  BY <1>2, <1>3, RulePath DEF RD!FlattenSection

LEMMA FrrLeaf ==
  ASSUME NEW sections, "FRR" \in DOMAIN sections,
         NEW leaf \in RD!FlattenSection("FRR", sections["FRR"])
  PROVE  IsRuleLeaf(leaf, sections) \/ IsInfoLeaf(leaf, sections)
<1> DEFINE body == sections["FRR"]
           data(f) == RD!Child(body[f], "data")
<1>1. PICK f \in DOMAIN body :
         \/ leaf \in RD!InfoLeaf(<<"FRR", f>>, body[f])
         \/ leaf \in UNION {UNION {RD!Leaves(<<"FRR", f, t, s>>, data(f)[t][s])
                                     : s \in DOMAIN data(f)[t]}
                              : t \in DOMAIN data(f)}
  BY DEF RD!FlattenSection, RD!FlattenFrr
<1>2. CASE leaf \in RD!InfoLeaf(<<"FRR", f>>, body[f])
  <2>1. "info" \in DOMAIN body[f] /\ leaf = <<Append(<<"FRR", f>>, "info"), body[f]["info"]>>
    BY <1>2 DEF RD!InfoLeaf
  <2> QED BY <2>1, LeafPath DEF IsInfoLeaf
<1>3. CASE leaf \notin RD!InfoLeaf(<<"FRR", f>>, body[f])
  <2>1. PICK t \in DOMAIN data(f) : \E s \in DOMAIN data(f)[t] :
           leaf \in RD!Leaves(<<"FRR", f, t, s>>, data(f)[t][s])
    BY <1>1, <1>3
  <2>2. PICK s \in DOMAIN data(f)[t] : leaf \in RD!Leaves(<<"FRR", f, t, s>>, data(f)[t][s])
    BY <2>1
  <2>3. PICK id \in DOMAIN data(f)[t][s] :
           leaf = <<Append(<<"FRR", f, t, s>>, id), data(f)[t][s][id]>>
    BY <2>2 DEF RD!Leaves
  <2>4. <<f, t, s, id>> \in OB!Rules(sections)
    BY <2>1, <2>2, <2>3 DEF OB!Rules, OB!Child, RD!Child
  <2>5. OB!Leaf(sections, <<f, t, s, id>>) = data(f)[t][s][id]
    BY <2>4, RulePlaces
  <2> QED BY <2>3, <2>4, <2>5, RulePath DEF IsRuleLeaf
<1> QED BY <1>2, <1>3

(* A rule is in the flattened document, at the path of its place; a path   *)
(* of that form is the path of a rule.                                     *)
LEMMA FlattenedRules ==
  ASSUME NEW sections, NEW at \in OB!Rules(sections)
  PROVE  /\ <<"FRR">> \o at \in DOMAIN RD!Flatten(sections)
         /\ RD!Flatten(sections)[<<"FRR">> \o at] = OB!Leaf(sections, at)
<1> DEFINE path   == <<"FRR", at[1], at[2], at[3], at[4]>>
           leaves == UNION {RD!FlattenSection(s, sections[s]) : s \in DOMAIN sections}
<1>1. "FRR" \in DOMAIN sections /\ at = <<at[1], at[2], at[3], at[4]>> /\ <<"FRR">> \o at = path
  <2>1. "FRR" \in DOMAIN sections /\ at = <<at[1], at[2], at[3], at[4]>>
    BY RulePlaces
  <2>2. <<"FRR">> \o <<at[1], at[2], at[3], at[4]>> = path
    BY PlacePath
  <2> QED BY <2>1, <2>2
<1>2. <<path, OB!Leaf(sections, at)>> \in leaves
  BY <1>1, RuleLeafIsLeaf
<1>3. ASSUME NEW leaf \in leaves, leaf[1] = path PROVE leaf[2] = OB!Leaf(sections, at)
  <2>1. PICK s \in DOMAIN sections : leaf \in RD!FlattenSection(s, sections[s])
    OBVIOUS
  <2>2. Len(path) = 5
    OBVIOUS
  <2>3. s = "FRR"
    BY <1>3, <2>1, <2>2, OtherLeaves
  <2>4. IsRuleLeaf(leaf, sections) \/ IsInfoLeaf(leaf, sections)
    BY <2>1, <2>3, FrrLeaf
  <2>5. ~IsInfoLeaf(leaf, sections)
    BY <1>3 DEF IsInfoLeaf
  <2>6. PICK other \in OB!Rules(sections) :
           leaf = <<<<"FRR", other[1], other[2], other[3], other[4]>>, OB!Leaf(sections, other)>>
    BY <2>4, <2>5 DEF IsRuleLeaf
  <2>7. other = <<other[1], other[2], other[3], other[4]>>
    BY RulePlaces
  <2>8. other = at
    BY <1>1, <1>3, <2>6, <2>7
  <2> QED BY <2>6, <2>8
<1>4. RD!Flatten(sections)
        = [p \in {leaf[1] : leaf \in leaves} |-> (CHOOSE leaf \in leaves : leaf[1] = p)[2]]
  BY DEF RD!Flatten
<1> HIDE DEF leaves, path
<1>5. path \in {leaf[1] : leaf \in leaves}
  <2>1. <<path, OB!Leaf(sections, at)>>[1] = path
    OBVIOUS
  <2> QED BY <1>2, <2>1
<1>6. /\ (CHOOSE leaf \in leaves : leaf[1] = path) \in leaves
      /\ (CHOOSE leaf \in leaves : leaf[1] = path)[1] = path
  <2>1. \E leaf \in leaves : leaf[1] = path
    BY <1>5
  <2> QED BY <2>1
<1>7. path \in DOMAIN RD!Flatten(sections)
  BY <1>4, <1>5
<1>8. RD!Flatten(sections)[path] = (CHOOSE leaf \in leaves : leaf[1] = path)[2]
  BY <1>4, <1>5
<1>9. RD!Flatten(sections)[path] = OB!Leaf(sections, at)
  BY <1>3, <1>6, <1>8
<1> QED BY <1>1, <1>7, <1>9

(* The id of a rule, as the path of its place gives it.                    *)
LEMMA RuleIds ==
  ASSUME NEW sections, NEW at \in OB!Rules(sections)
  PROVE  IdOf(<<"FRR">> \o at) = <<FALSE, at[4]>> /\ (<<"FRR">> \o at)[1] = "FRR"
<1>1. <<"FRR">> \o at = <<"FRR", at[1], at[2], at[3], at[4]>>
  <2>1. at = <<at[1], at[2], at[3], at[4]>>
    BY RulePlaces
  <2>2. <<"FRR">> \o <<at[1], at[2], at[3], at[4]>> = <<"FRR", at[1], at[2], at[3], at[4]>>
    BY PlacePath
  <2> QED BY <2>1, <2>2
<1>2. /\ Len(<<"FRR", at[1], at[2], at[3], at[4]>>) = 5
      /\ <<"FRR", at[1], at[2], at[3], at[4]>>[5] = at[4]
      /\ <<"FRR", at[1], at[2], at[3], at[4]>>[1] = "FRR"
  OBVIOUS
<1>3. (<<"FRR">> \o at)[1] = "FRR" /\ (<<"FRR">> \o at)[Len(<<"FRR">> \o at)] = at[4]
  BY <1>1, <1>2
<1>4. ("FRR" = "CTL") = FALSE
  OBVIOUS
<1> QED BY <1>3, <1>4 DEF IdOf

-----------------------------------------------------------------------------
(* Selections.                                                             *)

(* Every place up to n that is taken has a last one. *)
LEMMA Greatest ==
  ASSUME NEW n \in Nat, NEW A \in SUBSET (0..n), A # {}
  PROVE  \E x \in A : \A y \in A : y <= x
<1> DEFINE above == {a..n : a \in A}
<1>1. above \subseteq FiniteSubsetsOf(Nat) /\ above # {}
  <2>1. \A a \in A : IsFiniteSet(a..n) /\ a..n \subseteq Nat
    BY FS_Interval
  <2> QED BY <2>1 DEF FiniteSubsetsOf
<1>2. IsWellFoundedOn(StrictSubsetOrdering(Nat), FiniteSubsetsOf(Nat))
  BY FS_StrictSubsetOrderingWellFounded
<1> HIDE DEF above
<1>3. PICK least \in above : \A other \in above : <<other, least>> \notin StrictSubsetOrdering(Nat)
  BY <1>1, <1>2, WFMin
<1>4. PICK x \in A : least = x..n
  BY <1>3 DEF above
<1>5. ASSUME NEW y \in A, x < y PROVE FALSE
  <2>1. y..n \in above
    BY DEF above
  <2>2. y..n \subseteq x..n /\ x..n \subseteq Nat /\ x \in x..n /\ x \notin y..n
    BY <1>5
  <2>3. <<y..n, x..n>> \in StrictSubsetOrdering(Nat)
    BY <2>2 DEF StrictSubsetOrdering
  <2> QED BY <1>3, <1>4, <2>1, <2>3
<1> QED BY <1>5

Keys == {KeyOrder[i] : i \in DOMAIN KeyOrder}

LEMMA Places ==
  ASSUME KeyOrder \in Seq(Keys), NEW key \in Keys
  PROVE  OB!Place(key) \in 0..Len(KeyOrder) /\ KeyOrder[OB!Place(key)] = key
<1>1. Len(KeyOrder) \in Nat /\ DOMAIN KeyOrder = 1..Len(KeyOrder)
  OBVIOUS
<1>2. \E i \in DOMAIN KeyOrder : KeyOrder[i] = key
  BY DEF Keys
<1>3. OB!Place(key) \in DOMAIN KeyOrder /\ KeyOrder[OB!Place(key)] = key
  BY <1>2 DEF OB!Place
<1> QED BY <1>1, <1>3

(* Of the variants there are, one is the strictest, and its class the last *)
(* of those that are as strict.                                            *)
LEMMA StrictestExists ==
  ASSUME KeyOrder \in Seq(Keys), NEW variants, DOMAIN variants \subseteq Keys, DOMAIN variants # {}
  PROVE  /\ OB!Strictest(variants) \in DOMAIN variants
         /\ \A d \in DOMAIN variants :
              LET rank(c) == OB!ForceRank(OB!Get(variants[c], "force")) IN
                \/ rank(d) < rank(OB!Strictest(variants))
                \/ /\ rank(d) = rank(OB!Strictest(variants))
                   /\ OB!Place(d) <= OB!Place(OB!Strictest(variants))
<1> DEFINE rank(c) == OB!ForceRank(OB!Get(variants[c], "force"))
           ranks   == {rank(c) : c \in DOMAIN variants}
<1>1. \A c \in DOMAIN variants : rank(c) \in 0..4
  BY DEF OB!ForceRank
<1>2. ranks \in SUBSET (0..4) /\ ranks # {}
  BY <1>1
<1>3. PICK top \in ranks : \A r \in ranks : r <= top
  <2> HIDE DEF ranks
  <2> QED BY <1>2, Greatest
<1> DEFINE loudest == {c \in DOMAIN variants : rank(c) = top}
           places  == {OB!Place(c) : c \in loudest}
<1>4. /\ Len(KeyOrder) \in Nat
      /\ \A c \in DOMAIN variants : OB!Place(c) \in 0..Len(KeyOrder)
  <2>1. Len(KeyOrder) \in Nat
    OBVIOUS
  <2>2. \A c \in Keys : OB!Place(c) \in 0..Len(KeyOrder)
    BY Places
  <2> QED BY <2>1, <2>2
<1>5. places \in SUBSET (0..Len(KeyOrder)) /\ places # {}
  BY <1>3, <1>4
<1>6. PICK last \in places : \A q \in places : q <= last
  <2> HIDE DEF places
  <2> QED BY <1>4, <1>5, Greatest
<1>7. PICK class \in loudest : OB!Place(class) = last
  BY <1>6
<1>8. \A d \in DOMAIN variants :
         rank(d) < rank(class) \/ (rank(d) = rank(class) /\ OB!Place(d) <= OB!Place(class))
  <2> SUFFICES ASSUME NEW d \in DOMAIN variants
               PROVE  rank(d) < top \/ (rank(d) = top /\ OB!Place(d) <= last)
    BY <1>7
  <2>1. rank(d) <= top /\ rank(d) \in 0..4 /\ top \in 0..4
    BY <1>1, <1>2, <1>3
  <2>2. CASE rank(d) = top
    <3>1. OB!Place(d) \in places
      BY <2>2
    <3> QED BY <1>6, <2>2, <3>1
  <2>3. CASE rank(d) # top
    <3> HIDE DEF rank
    <3> QED BY <2>1, <2>3
  <2> QED BY <2>2, <2>3
<1>9. OB!Strictest(variants)
        = CHOOSE c \in DOMAIN variants : \A d \in DOMAIN variants :
             rank(d) < rank(c) \/ (rank(d) = rank(c) /\ OB!Place(d) <= OB!Place(c))
  BY DEF OB!Strictest
<1>10. class \in DOMAIN variants
  BY <1>7
<1> HIDE DEF rank
<1>11. /\ OB!Strictest(variants) \in DOMAIN variants
       /\ \A d \in DOMAIN variants :
             \/ rank(d) < rank(OB!Strictest(variants))
             \/ /\ rank(d) = rank(OB!Strictest(variants))
                /\ OB!Place(d) <= OB!Place(OB!Strictest(variants))
  BY <1>8, <1>9, <1>10
<1> QED BY <1>11 DEF rank

(* What an obligation is resolved from: its rule, or a variant of it.      *)
LEMMA SelectedFrom ==
  ASSUME KeyOrder \in Seq(Keys),
         NEW sections, NEW p, NEW o \in OB!Select(sections, p),
         "varies_by_class" \in DOMAIN OB!Leaf(sections, o.at)
           => DOMAIN OB!Leaf(sections, o.at)["varies_by_class"] \subseteq Keys
  PROVE  /\ o.at \in OB!Rules(sections)
         /\ \/ /\ "varies_by_class" \notin DOMAIN OB!Leaf(sections, o.at)
               /\ o.terms = OB!Fill(OB!Leaf(sections, o.at), Missing)
            \/ /\ "varies_by_class" \in DOMAIN OB!Leaf(sections, o.at)
               /\ \E c \in DOMAIN OB!Leaf(sections, o.at)["varies_by_class"] :
                     o.terms = OB!Fill(OB!Leaf(sections, o.at)["varies_by_class"][c], c)
<1>1. PICK at \in OB!Rules(sections) :
         /\ o.at = at
         /\ o.terms \in OB!Resolve(OB!Leaf(sections, at),
                                   OB!Applicability(sections["FRR"][at[1]], at[3]), p)
  BY DEF OB!Select
<1> DEFINE leaf     == OB!Leaf(sections, at)
           variants == leaf["varies_by_class"]
<1>2. CASE "varies_by_class" \notin DOMAIN leaf
  BY <1>1, <1>2 DEF OB!Resolve
<1>3. CASE "varies_by_class" \in DOMAIN leaf
  <2>1. CASE p.class # Missing
    BY <1>1, <1>3, <2>1 DEF OB!Resolve
  <2>2. CASE p.class = Missing
    <3>1. DOMAIN variants # {} /\ o.terms = OB!Fill(variants[OB!Strictest(variants)], OB!Strictest(variants))
      BY <1>1, <1>3, <2>2 DEF OB!Resolve
    <3>2. OB!Strictest(variants) \in DOMAIN variants
      <4>1. DOMAIN variants \subseteq Keys
        BY <1>1, <1>3
      <4> HIDE DEF variants
      <4> QED BY <3>1, <4>1, StrictestExists
    <3> QED BY <1>1, <1>3, <3>1, <3>2
  <2> QED BY <2>1, <2>2
<1> QED BY <1>2, <1>3

-----------------------------------------------------------------------------
(***************************************************************************)
(* What every answer stands for: its list is part of a selection, its hits *)
(* are leaves, all that have the phrase unless it says otherwise, and its  *)
(* rules are those that name KEV.                                          *)
(***************************************************************************)
Found(query) == {path \in DOMAIN Leaves : query \in Haystack(Leaves[path])}

Sourced ==
    /\ bundle \in Bundles
    /\ answer.tool = "obligations" =>
          \E p \in Profiles : answer.list \subseteq OB!Select(Sections, p)
    /\ answer.tool = "search" =>
          /\ answer.hits \subseteq Found(answer.query)
          /\ ~answer.truncated => answer.hits = Found(answer.query)
    /\ answer.tool \in {"kev", "summary"} => answer.governedBy = GoverningRules

LEMMA SourcedStarts == Init => Sourced
BY DEF Init, Sourced, Error

LEMMA SourcedKept == Sourced /\ [Next]_vars => Sourced'
<1> SUFFICES ASSUME Sourced, [Next]_vars PROVE Sourced'
  OBVIOUS
<1>1. CASE UNCHANGED vars
  BY <1>1 DEF Sourced, vars, Found, Leaves, Sections, GoverningRules, Aliases
<1>2. CASE Next
  <2>1. bundle' = bundle /\ bundle' \in Bundles
    BY <1>2 DEF Next, Sourced
  <2>2. Sections' = Sections /\ Leaves' = Leaves /\ GoverningRules' = GoverningRules
    BY <2>1 DEF Sections, Leaves, GoverningRules, Aliases
  <2>3. CASE \E p \in Profiles, f \in Forces \cup {Missing}, only \in BOOLEAN :
                Obligations(p, f, only) \/ RunObligations(p, f, only)
    <3>1. PICK p \in Profiles : answer'.tool = "obligations" /\ answer'.list \subseteq OB!Select(Sections, p)
      BY <2>3 DEF Obligations, RunObligations, Selected
    <3> QED BY <2>1, <2>2, <3>1 DEF Sourced
  <2>4. CASE (\E path \in DOMAIN Leaves : Rule(IdOf(path))) \/ Rule(RuleId(Missing))
    <3>1. answer'.tool \in {"error", "rule"}
      BY <2>4 DEF Rule, Error
    <3> QED BY <2>1, <3>1 DEF Sourced
  <2>5. CASE \E q \in Phrases, n \in Limits : Search(q, n)
    <3>1. PICK q \in Phrases, n \in Limits : Search(q, n)
      BY <2>5
    <3>2. PICK hits \in SUBSET Found(q) :
             /\ hits = Found(q) \/ Stops(hits, n)
             /\ answer' = [tool |-> "search", query |-> q, hits |-> hits,
                           truncated |-> Stops(hits, n)]
      BY <3>1 DEF Search, Found
    <3>3. Found(q)' = Found(q)
      BY <2>2 DEF Found
    <3>4. /\ answer'.tool = "search" /\ answer'.query = q /\ answer'.hits = hits
          /\ answer'.truncated = Stops(hits, n)
      BY <3>2
    <3>5. Found(answer.query)' = Found(q)
      BY <2>2, <3>4 DEF Found
    <3>6. (answer.hits \subseteq Found(answer.query))'
      BY <3>4, <3>5
    <3>7. (~answer.truncated => answer.hits = Found(answer.query))'
      BY <3>2, <3>4, <3>5
    <3> QED BY <2>1, <3>4, <3>6, <3>7 DEF Sourced
  <2>6. CASE \E c \in AskedControls : Control(c)
    <3>1. answer'.tool \in {"error", "control"}
      BY <2>6 DEF Control, Error
    <3> QED BY <2>1, <3>1 DEF Sourced
  <2>7. CASE (\E c \in Cves \cup {Missing} : Kev(c)) \/ (\E c \in Cves : RunKev(c))
    <3>1. \/ answer'.tool = "error"
          \/ answer'.tool \in {"kev", "summary"} /\ answer'.governedBy = GoverningRules
      BY <2>7 DEF Kev, RunKev, Error
    <3> QED BY <2>1, <2>2, <3>1 DEF Sourced
  <2> QED BY <1>2, <2>3, <2>4, <2>5, <2>6, <2>7 DEF Next, Call
<1> QED BY <1>1, <1>2

(* Every answer, to any call on any bundle, stands for what Sourced says.  *)
THEOREM AnswersAreSourced == Spec => []Sourced
<1> QED BY SourcedStarts, SourcedKept, PTL DEF Spec

-----------------------------------------------------------------------------
LEMMA SelectedIsLeaf ==
  ASSUME NEW p, NEW o \in OB!Select(Sections, p)
  PROVE  /\ <<"FRR">> \o o.at \in DOMAIN Leaves
         /\ IdOf(<<"FRR">> \o o.at) = RuleId(OB!Id(o))
         /\ (<<"FRR">> \o o.at)[1] = "FRR"
         /\ Leaves[<<"FRR">> \o o.at] = OB!Leaf(Sections, o.at)
<1>1. o.at \in OB!Rules(Sections)
  BY DEF OB!Select
<1> QED BY <1>1, FlattenedRules, RuleIds DEF Leaves, RuleId, OB!Id

(* Ids that are handed out are known to fedramp_rule, with the very leaf.  *)
LEMMA CitedAreFound == Sourced => CitedIdsAreFound
<1> SUFFICES ASSUME Sourced PROVE CitedIdsAreFound
  OBVIOUS
<1>1. ASSUME NEW path \in DOMAIN Leaves PROVE path \in Matches(IdOf(path))
  BY <1>1 DEF Matches
<1>2. answer.tool = "obligations" =>
         \A o \in answer.list : <<"FRR">> \o o.at \in Matches(RuleId(OB!Id(o)))
  BY <1>1, SelectedIsLeaf DEF Sourced
<1>3. answer.tool = "search" => \A path \in answer.hits : path \in Matches(IdOf(path))
  BY <1>1 DEF Sourced, Found
<1>4. \A id \in GoverningRules : Matches(id) # {}
  BY <1>1 DEF GoverningRules
<1>5. ASSUME NEW id \in CitedIds PROVE Matches(id) # {}
  <2>1. CASE answer.tool = "obligations"
    BY <1>2, <1>5, <2>1 DEF CitedIds
  <2>2. CASE answer.tool = "search"
    BY <1>3, <1>5, <2>2 DEF CitedIds
  <2>3. CASE answer.tool \in {"kev", "summary"}
    BY <1>4, <1>5, <2>3 DEF CitedIds, Sourced
  <2>4. CASE answer.tool \notin {"obligations", "search", "kev", "summary"}
    BY <1>5, <2>4 DEF CitedIds
  <2> QED BY <2>1, <2>2, <2>3, <2>4
<1> QED BY <1>2, <1>3, <1>5 DEF CitedIdsAreFound

(* The variants of a rule of the session's bundle are keyed by classes.    *)
LEMMA VariantsAreKeyed ==
  ASSUME Sourced, NEW at \in OB!Rules(Sections)
  PROVE  /\ KeyOrder \in Seq(Keys) /\ Missing \notin Keys
         /\ "varies_by_class" \in DOMAIN OB!Leaf(Sections, at)
              => DOMAIN OB!Leaf(Sections, at)["varies_by_class"] \subseteq Keys
BY LookupsAssumption DEF Sourced, Sections, Keys

(* The text of an obligation is in its leaf.                               *)
LEMMA TextsAreInLeaves ==
  ASSUME Sourced, NEW p, NEW o \in OB!Select(Sections, p), NEW phrase, Bears(phrase, o)
  PROVE  /\ phrase \in Haystack(OB!Leaf(Sections, o.at))
         /\ o.terms.class = Missing => phrase \in OwnText(OB!Leaf(Sections, o.at))
<1> DEFINE leaf     == OB!Leaf(Sections, o.at)
           variants == leaf["varies_by_class"]
<1>1. o.at \in OB!Rules(Sections)
  BY DEF OB!Select
<1>2. KeyOrder \in Seq(Keys) /\ Missing \notin Keys
      /\ ("varies_by_class" \in DOMAIN leaf => DOMAIN variants \subseteq Keys)
  BY <1>1, VariantsAreKeyed
<1>3. \A source, c : phrase \in OB!Fill(source, c).statement => phrase \in OwnText(source)
  BY DEF OB!Fill, OwnText
<1>4. \A source, c : OB!Fill(source, c).class = c
  BY DEF OB!Fill
<1>5. \/ "varies_by_class" \notin DOMAIN leaf /\ o.terms = OB!Fill(leaf, Missing)
      \/ "varies_by_class" \in DOMAIN leaf
         /\ \E c \in DOMAIN variants : o.terms = OB!Fill(variants[c], c)
  BY <1>2, SelectedFrom
<1>6. CASE o.terms = OB!Fill(leaf, Missing)
  BY <1>3, <1>6 DEF Haystack, Bears
<1>7. CASE "varies_by_class" \in DOMAIN leaf
           /\ \E c \in DOMAIN variants : o.terms = OB!Fill(variants[c], c)
  <2>1. PICK c \in DOMAIN variants : o.terms = OB!Fill(variants[c], c)
    BY <1>7
  <2>2. phrase \in OwnText(variants[c])
    BY <1>3, <2>1 DEF Bears
  <2>3. phrase \in VariantTexts(leaf)
    BY <1>7, <2>1, <2>2 DEF VariantTexts, OB!Child
  <2>4. o.terms.class # Missing
    BY <1>2, <1>4, <1>7, <2>1
  <2> QED BY <2>3, <2>4 DEF Haystack
<1> QED BY <1>5, <1>6, <1>7

(* A search that is not truncated has every rule that has the phrase.      *)
LEMMA SearchIsComplete == Sourced => SearchMissesNothing
<1> SUFFICES ASSUME Sourced, answer.tool = "search", ~answer.truncated,
                    NEW p \in Profiles, NEW o \in OB!Select(Sections, p),
                    Bears(answer.query, o)
             PROVE  <<"FRR">> \o o.at \in answer.hits
  BY DEF SearchMissesNothing
<1>1. answer.hits = Found(answer.query)
  BY DEF Sourced
<1>2. answer.query \in Haystack(OB!Leaf(Sections, o.at))
  BY TextsAreInLeaves
<1> QED BY <1>1, <1>2, SelectedIsLeaf DEF Found

(* A rule without variants that names KEV is said to govern it.            *)
LEMMA KevRulesAreNamed == Sourced => PlainKevRulesGovern
<1> SUFFICES ASSUME Sourced, answer.tool \in {"kev", "summary"},
                    NEW p \in Profiles, NEW o \in OB!Select(Sections, p),
                    o.terms.class = Missing, NEW alias \in Aliases, Bears(alias, o)
             PROVE  RuleId(OB!Id(o)) \in answer.governedBy
  BY DEF PlainKevRulesGovern
<1>1. answer.governedBy = GoverningRules
  BY DEF Sourced
<1>2. alias \in OwnText(OB!Leaf(Sections, o.at))
  BY TextsAreInLeaves
<1>3. <<"FRR">> \o o.at \in {p2 \in DOMAIN Leaves :
                               p2[1] = "FRR" /\ OwnText(Leaves[p2]) \cap Aliases # {}}
  BY <1>2, SelectedIsLeaf
<1>4. IdOf(<<"FRR">> \o o.at) \in GoverningRules
  BY <1>3 DEF GoverningRules
<1> QED BY <1>1, <1>4, SelectedIsLeaf

(***************************************************************************)
(* Every id that a session or a command hands out is one that fedramp_rule *)
(* finds, with the leaf it came from (mcp.rs).                             *)
(***************************************************************************)
THEOREM CitedIdsCanBeLookedUp == Spec => []CitedIdsAreFound
BY AnswersAreSourced, CitedAreFound, PTL

(* A search that does not say it is truncated has missed no rule (mcp.rs). *)
THEOREM SearchesAreComplete == Spec => []SearchMissesNothing
BY AnswersAreSourced, SearchIsComplete, PTL

(* The rules said to govern KEV include every plain rule that names it.    *)
THEOREM KevRulesGovern == Spec => []PlainKevRulesGovern
BY AnswersAreSourced, KevRulesAreNamed, PTL
=============================================================================
