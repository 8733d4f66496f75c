--------------------------- MODULE ValidatorProofs ---------------------------
(***************************************************************************)
(* Proofs about Validator, for every set of files and definitions, every   *)
(* schema and every order in which the library follows references.         *)
(*                                                                         *)
(* The places that are reached lie in every set that is closed under       *)
(* references, as each was referred to; and once nothing is pending they   *)
(* are such a set themselves, so they are the least one.                   *)
(***************************************************************************)
EXTENDS Validator, TLAPS

(***************************************************************************)
(* The inductive invariant.                                                *)
(***************************************************************************)
Meaning(place) == [file |-> place.file, def |-> place.def]

Pending(place, ref) == [at |-> place, ref |-> ref]

Note(ref) == [file |-> ref.file, def |-> ref.def]

Typed ==
    /\ schemas \in SchemaSets /\ schema \in Files
    /\ status \in {"naming", "compiling", "failed", "reported"}

(* Nothing is reached that the schema does not lead to, or that is not     *)
(* there; and a definition stands alone when something asked for it by its *)
(* path.                                                                   *)
Reached ==
    \A place \in reached :
        /\ Meaning(place) \in Closure /\ Exists(place)
        /\ place.alone => \E from \in Closure : \E ref \in RefsOf(from) :
              ref.form = "path" /\ Means(from, ref) = Meaning(place)

(* A reference of a place that is reached is pending or was followed: it   *)
(* leads to a place that is reached, too, and if it is in path form it has *)
(* been noted.  What is pending and what is noted is such a reference.     *)
Followed ==
    /\ \A place \in reached : \A ref \in RefsOf(place) :
          \/ Pending(place, ref) \in pending
          \/ /\ ref.form # "outside"
             /\ \E next \in reached : Meaning(next) = Means(place, ref)
             /\ ref.form = "path" => Note(ref) \in repairs
    /\ \A p \in pending : p.at \in reached /\ p.ref \in RefsOf(p.at)
    /\ \A note \in repairs :
          \E place \in reached : \E ref \in RefsOf(place) : ref.form = "path" /\ note = Note(ref)

Rooted ==
    /\ status = "naming" => reached = {} /\ pending = {} /\ repairs = {}
    /\ status = "compiling" => \E place \in reached : Meaning(place) = [file |-> schema, def |-> Root]
    /\ status # "reported" => report = {}

IInv == Typed /\ Reached /\ Followed /\ Rooted /\ ReportsEveryRepair /\ SoundSchemasCompile

-----------------------------------------------------------------------------
(* References and places have their parts. *)
LEMMA RefTyped ==
    ASSUME NEW ref \in Refs
    PROVE  /\ ref.form \in {"local", "fragment", "path", "outside"}
           /\ ref.form # "outside" => ref.def \in Defs
           /\ ref.form \in {"fragment", "path"} => ref.file \in Files
BY DEF Refs

LEMMA PlaceTyped ==
    ASSUME Typed, NEW place, Exists(place)
    PROVE  /\ place.file \in Files /\ place.def \in Defs \cup {Root}
           /\ schemas[place.file][place.def] \subseteq Refs
           /\ RefsOf(place) = schemas[place.file][place.def]
BY ValidatorAssumption DEF Typed, Exists, RefsOf

(* What a place is does not depend on how it was reached. *)
LEMMA MeaningSame ==
    ASSUME NEW place
    PROVE  /\ Exists(Meaning(place)) <=> Exists(place)
           /\ RefsOf(Meaning(place)) = RefsOf(place)
           /\ \A ref : Means(Meaning(place), ref) = Means(place, ref)
BY DEF Meaning, Exists, RefsOf, Means

(* The closure has the root and all that its places lead to, and is the    *)
(* least set that does.                                                    *)
LEMMA RootReached ==
    ASSUME Typed
    PROVE  [file |-> schema, def |-> Root] \in Closure
BY DEF Typed, Closure, Closed, Places

LEMMA ClosureLeads ==
    ASSUME Typed, NEW place \in Closure, Exists(place), NEW ref \in RefsOf(place),
           ref.form # "outside"
    PROVE  Means(place, ref) \in Closure
<1>1. ref \in Refs /\ place.file \in Files
  BY PlaceTyped
<1>2. Means(place, ref) \in Places
  BY <1>1, RefTyped DEF Means, Places
<1>3. Means(place, ref) \in LedTo(place)
  BY DEF LedTo
<1>. QED
  BY <1>2, <1>3 DEF Closure, Closed

LEMMA ClosureLeast ==
    ASSUME NEW places, places \subseteq Places, Closed(places)
    PROVE  Closure \subseteq places
BY DEF Closure

(* The schemas stay as they are, and so does what they mean. *)
LEMMA SchemasStay ==
    ASSUME UNCHANGED <<schemas, schema>>
    PROVE  /\ Closure' = Closure
           /\ \A place : (Exists(place)' <=> Exists(place)) /\ RefsOf(place)' = RefsOf(place)
BY DEF Closure, Closed, Places, LedTo, Means, RefsOf, Exists

-----------------------------------------------------------------------------
(* Following a reference, which leads to a place that is there. *)
LEMMA EnterStep ==
    ASSUME Typed, Reached, Followed,
           NEW p \in pending, p.ref.form # "outside",
           NEW next, Exists(next), Meaning(next) = Means(p.at, p.ref),
           next.alone => p.ref.form = "path",
           Enter(next, p, IF p.ref.form = "path" THEN {Note(p.ref)} ELSE {})
    PROVE  Reached' /\ Followed' /\ UNCHANGED <<schemas, schema, status, report>>
<1>1. /\ UNCHANGED <<schemas, schema, status, report>>
      /\ reached' = reached \cup {next}
      /\ pending' = (pending \ {p}) \cup (IF next \in reached THEN {} ELSE Contents(next))
      /\ repairs' = repairs \cup (IF p.ref.form = "path" THEN {Note(p.ref)} ELSE {})
  BY DEF Enter
<1>2. p.at \in reached /\ p.ref \in RefsOf(p.at)
  BY DEF Followed
<1>3. Exists(p.at) /\ Meaning(p.at) \in Closure
  BY <1>2 DEF Reached
<1>4. Meaning(next) \in Closure
  BY <1>2, <1>3, MeaningSame, ClosureLeads
<1>5. /\ Closure' = Closure
      /\ \A place : (Exists(place)' <=> Exists(place)) /\ RefsOf(place)' = RefsOf(place)
  BY <1>1, SchemasStay
<1>6. Contents(next) = {Pending(next, ref) : ref \in RefsOf(next)}
  BY PlaceTyped DEF Contents, Pending
<1>7. next.alone => \E from \in Closure : \E ref \in RefsOf(from) :
         ref.form = "path" /\ Means(from, ref) = Meaning(next)
  BY <1>2, <1>3, MeaningSame
<1>8. Reached'
  <2>. SUFFICES ASSUME NEW place \in reached'
                PROVE  /\ Meaning(place) \in Closure /\ Exists(place)
                       /\ place.alone => \E from \in Closure : \E ref \in RefsOf(from) :
                             ref.form = "path" /\ Means(from, ref) = Meaning(place)
    BY <1>5 DEF Reached, Meaning, Means
  <2>1. CASE place = next
    BY <1>4, <1>7, <2>1
  <2>2. CASE place \in reached
    BY <2>2 DEF Reached
  <2>. QED
    BY <1>1, <2>1, <2>2
<1>9. \A place \in reached' : \A ref \in RefsOf(place) :
         \/ Pending(place, ref) \in pending'
         \/ /\ ref.form # "outside"
            /\ \E q \in reached' : Meaning(q) = Means(place, ref)
            /\ ref.form = "path" => Note(ref) \in repairs'
  <2>. SUFFICES ASSUME NEW place \in reached', NEW ref \in RefsOf(place),
                       Pending(place, ref) \notin pending'
                PROVE  /\ ref.form # "outside"
                       /\ \E q \in reached' : Meaning(q) = Means(place, ref)
                       /\ ref.form = "path" => Note(ref) \in repairs'
    OBVIOUS
  <2>1. place \in reached
    BY <1>1, <1>6
  <2>2. CASE Pending(place, ref) \in pending
    <3>1. Pending(place, ref) = p
      BY <1>1, <2>2
    <3>2. place = p.at /\ ref = p.ref
      BY <3>1 DEF Pending
    <3>. QED
      BY <1>1, <3>2
  <2>3. CASE Pending(place, ref) \notin pending
    BY <1>1, <2>1, <2>3 DEF Followed
  <2>. QED
    BY <2>2, <2>3
<1>10. \A q \in pending' : q.at \in reached' /\ q.ref \in RefsOf(q.at)
  BY <1>1, <1>6 DEF Followed, Pending
<1>11. \A note \in repairs' :
          \E place \in reached' : \E ref \in RefsOf(place) : ref.form = "path" /\ note = Note(ref)
  BY <1>1, <1>2 DEF Followed
<1>12. Followed'
  BY <1>5, <1>9, <1>10, <1>11 DEF Followed, Pending, Meaning, Means, Note
<1>. QED
  BY <1>1, <1>8, <1>12

(* A reference that is followed is one that leads somewhere. *)
LEMMA FollowStep ==
    ASSUME Typed, Reached, Followed, NEW p \in pending, Local(p) \/ Remote(p)
    PROVE  Reached' /\ Followed' /\ UNCHANGED <<schemas, schema, status, report>>
<1>1. p.at \in reached /\ p.ref \in RefsOf(p.at)
  BY DEF Followed
<1>2. Exists(p.at)
  BY <1>1 DEF Reached
<1>3. CASE Local(p)
  <2>. DEFINE next == Place(p.at.file, p.ref.def, FALSE)
  <2>1. p.ref.form = "local" /\ p.ref.def \in DOMAIN schemas[p.at.file] /\ Enter(next, p, {})
    BY <1>3 DEF Local
  <2>2. Exists(next) /\ Meaning(next) = Means(p.at, p.ref) /\ ~next.alone
    BY <1>2, <2>1 DEF Exists, Meaning, Means, Place
  <2>. HIDE DEF next
  <2>. QED
    BY <2>1, <2>2, EnterStep
<1>4. CASE Remote(p)
  <2>. DEFINE next == Place(p.ref.file, p.ref.def, p.ref.form = "path")
  <2>1. /\ p.ref.form \in {"fragment", "path"} /\ Holds(p.ref)
        /\ Enter(next, p, IF p.ref.form = "path" THEN {Note(p.ref)} ELSE {})
    BY <1>4 DEF Remote, Retrieve, Note
  <2>2. /\ Exists(next) /\ Meaning(next) = Means(p.at, p.ref)
        /\ next.alone => p.ref.form = "path"
    BY <2>1 DEF Holds, Exists, Meaning, Means, Place
  <2>. HIDE DEF next
  <2>. QED
    BY <2>1, <2>2, EnterStep
<1>. QED
  BY <1>3, <1>4

(* One that does not resolve is outside, leads to what is not there, or is *)
(* cut off.                                                                *)
LEMMA FailureExplained ==
    ASSUME Typed, Reached, Followed, NEW p \in pending, Unresolved(p)
    PROVE  ~Sound \/ CutOff
<1>1. p.at \in reached /\ p.ref \in RefsOf(p.at)
  BY DEF Followed
<1>. DEFINE place == Meaning(p.at)
<1>2. /\ place \in Closure /\ Exists(place) /\ p.ref \in RefsOf(place)
      /\ Means(place, p.ref) = Means(p.at, p.ref)
      /\ place.file = p.at.file
  <2>1. place.file = p.at.file
    BY DEF Meaning
  <2>. HIDE DEF place
  <2>. QED
    BY <1>1, <2>1, MeaningSame DEF Reached, place
<1>. HIDE DEF place
<1>3. CASE p.ref.form = "outside"
  BY <1>2, <1>3 DEF Sound
<1>4. CASE p.ref.form # "outside" /\ ~Exists(Means(place, p.ref))
  <2>1. Means(place, p.ref) \in Closure
    BY <1>2, <1>4, ClosureLeads
  <2>. QED
    BY <1>4, <2>1 DEF Sound
<1>5. CASE p.ref.form = "local" /\ p.at.alone
  <2>1. PICK from \in Closure : \E ref \in RefsOf(from) :
           ref.form = "path" /\ Means(from, ref) = place
    BY <1>1, <1>5 DEF Reached, place
  <2>. QED
    BY <1>2, <1>5, <2>1 DEF CutOff
<1>. QED
  BY <1>2, <1>3, <1>4, <1>5 DEF Unresolved, Holds, Exists, Means

(* With nothing pending, what is reached is all the schema leads to. *)
LEMMA AllFollowed ==
    ASSUME Typed, Reached, Followed, Rooted, status = "compiling", pending = {}
    PROVE  /\ Closure = {Meaning(place) : place \in reached}
           /\ Sound
           /\ repairs = UNION {{Note(ref) : ref \in {f \in RefsOf(place) : f.form = "path"}} :
                                  place \in Closure}
<1>. DEFINE meant == {Meaning(place) : place \in reached}
<1>1. meant \subseteq Closure
  BY DEF Reached
<1>2. meant \subseteq Places
  BY <1>1 DEF Closure
<1>3. ASSUME NEW place \in reached, NEW ref \in RefsOf(place)
      PROVE  /\ ref.form # "outside" /\ Means(place, ref) \in meant
             /\ ref.form = "path" => Note(ref) \in repairs
  BY <1>3 DEF Followed
<1>4. Closed(meant)
  <2>1. [file |-> schema, def |-> Root] \in meant
    BY DEF Rooted
  <2>2. ASSUME NEW place \in reached
        PROVE  LedTo(Meaning(place)) \subseteq meant
    BY <1>3, <2>2, MeaningSame DEF LedTo
  <2>. QED
    BY <2>1, <2>2 DEF Closed
<1>5. Closure = meant
  <2>. HIDE DEF meant
  <2>. QED
    BY <1>1, <1>2, <1>4, ClosureLeast
<1>6. Sound
  BY <1>3, <1>5, MeaningSame DEF Sound, Reached
<1>7. ASSUME NEW note
      PROVE  note \in repairs <=>
                \E place \in Closure : \E ref \in RefsOf(place) : ref.form = "path" /\ note = Note(ref)
  <2>1. ASSUME note \in repairs
        PROVE  \E place \in Closure : \E ref \in RefsOf(place) : ref.form = "path" /\ note = Note(ref)
    <3>1. PICK place \in reached : \E ref \in RefsOf(place) : ref.form = "path" /\ note = Note(ref)
      BY <2>1 DEF Followed
    <3>. QED
      BY <1>5, <3>1, MeaningSame
  <2>2. ASSUME NEW place \in reached, NEW ref \in RefsOf(Meaning(place)), ref.form = "path",
               note = Note(ref)
        PROVE  note \in repairs
    BY <1>3, <2>2, MeaningSame
  <2>. QED
    BY <1>5, <2>1, <2>2
<1>8. repairs = UNION {{Note(ref) : ref \in {f \in RefsOf(place) : f.form = "path"}} :
                          place \in Closure}
  BY <1>7
<1>. QED
  BY <1>5, <1>6, <1>8

(* Where nothing is followed, the places and the notes stay explained. *)
LEMMA NothingFollowed ==
    ASSUME Reached, Followed, UNCHANGED <<schemas, schema, reached, pending, repairs>>
    PROVE  Reached' /\ Followed'
<1>1. /\ UNCHANGED <<schemas, schema>> /\ reached' = reached
      /\ pending' = pending /\ repairs' = repairs
  OBVIOUS
<1>2. /\ Closure' = Closure
      /\ \A place : (Exists(place)' <=> Exists(place)) /\ RefsOf(place)' = RefsOf(place)
  BY <1>1, SchemasStay
<1>3. Reached'
  <2>. SUFFICES ASSUME NEW place \in reached
                PROVE  /\ Meaning(place) \in Closure /\ Exists(place)
                       /\ place.alone => \E from \in Closure : \E ref \in RefsOf(from) :
                             ref.form = "path" /\ Means(from, ref) = Meaning(place)
    BY <1>1, <1>2 DEF Reached, Meaning, Means
  <2>. QED
    BY DEF Reached
<1>4. Followed'
  BY <1>1, <1>2 DEF Followed, Meaning, Means, Pending, Note
<1>. QED
  BY <1>3, <1>4

LEMMA IInvHolds == Spec => []IInv
<1>1. ASSUME Init
      PROVE  IInv
  BY <1>1 DEF Init, IInv, Typed, Reached, Followed, Rooted, ReportsEveryRepair, SoundSchemasCompile
<1>2. ASSUME IInv, [Next]_vars
      PROVE  IInv'
  <2>0. Typed /\ Reached /\ Followed /\ Rooted /\ ReportsEveryRepair /\ SoundSchemasCompile
    BY <1>2 DEF IInv
  <2>1. ASSUME UNCHANGED <<schemas, schema>>, UNCHANGED report
        PROVE  ReportsEveryRepair'
    <3>1. Sound' <=> Sound
      BY <2>1, SchemasStay DEF Sound
    <3>. QED
      BY <2>0, <2>1, <3>1, SchemasStay DEF ReportsEveryRepair
  <2>2. CASE ResolveName(schema)
    <3>. DEFINE root == Place(schema, Root, FALSE)
    <3>1. /\ UNCHANGED <<schemas, schema, repairs, report>>
          /\ schema \in DOMAIN schemas /\ status = "naming" /\ status' = "compiling"
          /\ reached' = {root} /\ pending' = Contents(root)
      BY <2>2 DEF ResolveName
    <3>2. Meaning(root) = [file |-> schema, def |-> Root] /\ ~root.alone /\ Exists(root)
      BY <2>0, <3>1, ValidatorAssumption DEF Meaning, Place, Exists, Typed
    <3>. HIDE DEF root
    <3>3. repairs' = {} /\ report' = {}
      BY <2>0, <3>1 DEF Rooted
    <3>4. Contents(root) = {Pending(root, ref) : ref \in RefsOf(root)}
      BY <2>0, <3>2, PlaceTyped DEF Contents, Pending
    <3>5. Meaning(root) \in Closure
      BY <2>0, <3>2, RootReached
    <3>6. Reached'
      BY <3>1, <3>2, <3>5, SchemasStay DEF Reached, Meaning
    <3>7. Followed'
      BY <3>1, <3>3, <3>4, SchemasStay DEF Followed, Pending
    <3>8. Rooted'
      <4>1. \E place \in reached' : Meaning(place) = [file |-> schema, def |-> Root]
        BY <3>1, <3>2
      <4>. QED
        BY <3>1, <3>3, <4>1 DEF Rooted, Meaning
    <3>. QED
      BY <2>0, <2>1, <3>1, <3>6, <3>7, <3>8 DEF IInv, Typed, SoundSchemasCompile
  <2>3. CASE UnknownName(schema)
    <3>1. /\ UNCHANGED <<schemas, schema, pending, reached, repairs, report>>
          /\ schema \notin DOMAIN schemas /\ status = "naming" /\ status' = "failed"
      BY <2>3 DEF UnknownName, Failure
    <3>2. Reached' /\ Followed' /\ Rooted'
      BY <2>0, <3>1, NothingFollowed DEF Rooted
    <3>. QED
      BY <2>0, <2>1, <3>1, <3>2 DEF IInv, Typed, SoundSchemasCompile
  <2>4. ASSUME NEW p \in pending, status = "compiling", Local(p) \/ Remote(p)
        PROVE  IInv'
    <3>1. Reached' /\ Followed' /\ UNCHANGED <<schemas, schema, status, report>>
      BY <2>0, <2>4, FollowStep
    <3>2. reached \subseteq reached'
      BY <2>4 DEF Local, Remote, Enter
    <3>3. Rooted'
      BY <2>0, <2>4, <3>1, <3>2 DEF Rooted, Meaning
    <3>. QED
      BY <2>0, <2>1, <2>4, <3>1, <3>3 DEF IInv, Typed, SoundSchemasCompile
  <2>5. ASSUME NEW p \in pending, status = "compiling", Unresolvable(p)
        PROVE  IInv'
    <3>1. /\ UNCHANGED <<schemas, schema, pending, reached, repairs, report>>
          /\ status' = "failed" /\ Unresolved(p)
      BY <2>5 DEF Unresolvable, Failure
    <3>2. ~Sound \/ CutOff
      BY <2>0, <2>5, <3>1, FailureExplained
    <3>3. Sound' <=> Sound
      BY <3>1, SchemasStay DEF Sound
    <3>4. CutOff' <=> CutOff
      BY <3>1, SchemasStay DEF CutOff, Means
    <3>5. Reached' /\ Followed'
      BY <2>0, <3>1, NothingFollowed
    <3>6. Rooted'
      BY <2>0, <2>5, <3>1 DEF Rooted
    <3>. QED
      BY <2>0, <2>1, <3>1, <3>2, <3>3, <3>4, <3>5, <3>6 DEF IInv, Typed, SoundSchemasCompile
  <2>6. ASSUME NEW valid \in BOOLEAN, Report(valid)
        PROVE  IInv'
    <3>1. /\ UNCHANGED <<schemas, schema, pending, reached, repairs>>
          /\ status = "compiling" /\ pending = {} /\ status' = "reported"
          /\ \A r \in report' : r.repairs = repairs
      BY <2>6 DEF Report
    <3>2. /\ Sound
          /\ repairs = UNION {{Note(ref) : ref \in {f \in RefsOf(place) : f.form = "path"}} :
                                 place \in Closure}
      BY <2>0, <3>1, AllFollowed
    <3>3. Sound'
      BY <3>1, <3>2, SchemasStay DEF Sound
    <3>4. ReportsEveryRepair'
      BY <3>1, <3>2, <3>3, SchemasStay DEF ReportsEveryRepair, Note
    <3>5. Reached' /\ Followed'
      BY <2>0, <3>1, NothingFollowed
    <3>. QED
      BY <2>0, <3>1, <3>4, <3>5 DEF IInv, Typed, Rooted, SoundSchemasCompile
  <2>7. CASE UNCHANGED vars
    <3>1. UNCHANGED <<schemas, schema, pending, reached, repairs, status, report>>
      BY <2>7 DEF vars
    <3>2. Reached' /\ Followed'
      BY <2>0, <3>1, NothingFollowed
    <3>3. SoundSchemasCompile'
      BY <2>0, <3>1, SchemasStay DEF SoundSchemasCompile, Sound, CutOff, Means
    <3>. QED
      BY <2>0, <2>1, <3>1, <3>2, <3>3 DEF IInv, Typed, Rooted
  <2>. QED
    BY <1>2, <2>2, <2>3, <2>4, <2>5, <2>6, <2>7 DEF Next, Follow, Ended
<1>. QED
  BY <1>1, <1>2, PTL DEF Spec

-----------------------------------------------------------------------------
(***************************************************************************)
(* A verdict is over everything the schema leads to, all of it signed, and *)
(* the report lists exactly the references in path form, in whatever order *)
(* they are followed.                                                      *)
(***************************************************************************)
THEOREM RepairsAreReported == Spec => []ReportsEveryRepair
<1>1. IInv => ReportsEveryRepair
  BY DEF IInv
<1>. QED
  BY <1>1, IInvHolds, PTL

(***************************************************************************)
(* A schema that does not compile leads to something that is not signed,   *)
(* or asks by its path for a definition that refers to its neighbours.     *)
(***************************************************************************)
THEOREM SoundSchemasDoCompile == Spec => []SoundSchemasCompile
<1>1. IInv => SoundSchemasCompile
  BY DEF IInv
<1>. QED
  BY <1>1, IInvHolds, PTL
=============================================================================
