---------------------------- MODULE CaptureProofs ----------------------------
(***************************************************************************)
(* Proofs about Capture, for every registry of sources with different ids, *)
(* every set of files and every bound on commits and captures.             *)
(*                                                                         *)
(* A commit that is there stays as it is, so what was got at a commit is   *)
(* of that commit whatever is committed meanwhile; a running capture       *)
(* leaves the sources before its place settled, and comes back to none.    *)
(***************************************************************************)
EXTENDS Capture, SequenceTheorems, TLAPS

Tree(s) == [FilesOf[s] -> Nat]

(* Every variable has its type, and upstream has had a commit. *)
Typed ==
    /\ DOMAIN history = Ids
    /\ \A s \in Ids : history[s] \in Seq(Tree(s)) /\ Len(history[s]) # 0
    /\ DOMAIN disk = Ids
    /\ \A s \in Ids : disk[s] = [content |-> disk[s].content, pin |-> disk[s].pin]
    /\ step \in {"idle", "resolve", "list", "get", "content", "provenance"}
    /\ place \in 1..Len(Sources)
    /\ snapshot = [commit |-> snapshot.commit, todo |-> snapshot.todo, texts |-> snapshot.texts]
    /\ captures \in Nat

(* The texts are, to the last file, the tree of the commit. *)
TreeAt(s, commit, texts) ==
    /\ commit \in 1..Len(history[s])
    /\ texts = [f \in Present(s, commit) |-> At(s, commit)[f]]

(* What was got is of the commit that was resolved, and what is not got    *)
(* yet is still to be got.                                                 *)
Gathered ==
    LET got == snapshot.texts
    IN  /\ step \in {"list", "get"} =>
              /\ snapshot.commit \in 1..Len(history[Source])
              /\ DOMAIN got \subseteq Present(Source, snapshot.commit)
              /\ got = [f \in DOMAIN got |-> At(Source, snapshot.commit)[f]]
        /\ step = "get" => Present(Source, snapshot.commit) \subseteq snapshot.todo \cup DOMAIN got
        /\ step \in {"content", "provenance"} =>
              got # <<>> /\ TreeAt(Source, snapshot.commit, got)

(* A source is settled when its content is under the pin that explains it. *)
Settled(s) ==
    /\ disk[s].content # <<>>
    /\ disk[s].pin.texts = disk[s].content
    /\ TreeAt(s, disk[s].pin.commit, disk[s].content)

(* A running capture has settled the sources it is past. *)
InOrder ==
    /\ step # "idle" => /\ last # "whole"
                        /\ \A k \in 1..(place - 1) : Settled(Sources[k])
    /\ step = "provenance" => disk[Source].content = snapshot.texts
    /\ last = "whole" => \A s \in Ids : Settled(s)

(* The first capture finds no pin where it is going to write. *)
FirstOne ==
    /\ captures = 0 => step = "idle" /\ \A s \in Ids : disk[s].pin = Nothing
    /\ captures <= 1 =>
          /\ \A s \in Ids : disk[s].pin = Nothing \/ Settled(s)
          /\ step # "idle" => \A k \in place..Len(Sources) : disk[Sources[k]].pin = Nothing

IInv == Typed /\ Gathered /\ InOrder /\ FirstOne

-----------------------------------------------------------------------------
(* The source at the place is a source, and at no other place. *)
LEMMA SourceIsOne ==
    ASSUME Typed
    PROVE  /\ Source \in Ids
           /\ \A k \in 1..Len(Sources) : Sources[k] \in Ids /\ (Sources[k] = Source => k = place)
           /\ Len(Sources) \in Nat \ {0}
<1>1. Len(Sources) \in Nat \ {0}
  BY CaptureAssumption, LenProperties, EmptySeq
<1>2. \A k \in 1..Len(Sources) : Sources[k] \in Ids
  BY DEF Ids
<1>. QED
  BY <1>1, <1>2, CaptureAssumption DEF Typed, Source

SomeCommit == \E s \in Ids : \E f \in FilesOf[s], text \in Texts \cup {Absent} : Commit(s, f, text)

(* Commits are added, and none is changed. *)
LEMMA CommitsStay ==
    ASSUME Typed, SomeCommit \/ UNCHANGED history,
           NEW s \in Ids, NEW commit \in 1..Len(history[s])
    PROVE  /\ commit \in 1..Len(history'[s])
           /\ history'[s][commit] = history[s][commit]
<1>1. CASE UNCHANGED history
  BY <1>1
<1>2. CASE SomeCommit
  <2>1. PICK r, tree : r \in Ids /\ history' = [history EXCEPT ![r] = Append(@, tree)]
    BY <1>2 DEF SomeCommit, Commit
  <2>2. history[s] \in Seq(Tree(s)) /\ r \in DOMAIN history /\ s \in DOMAIN history
    BY <2>1 DEF Typed
  <2>3. CASE r = s
    <3>1. history'[s] = Append(history[s], tree)
      BY <2>1, <2>2, <2>3
    <3>2. /\ Len(Append(history[s], tree)) = Len(history[s]) + 1
          /\ Append(history[s], tree)[commit] = history[s][commit]
          /\ Len(history[s]) \in Nat
      BY <2>2
    <3>. QED
      BY <3>1, <3>2
  <2>4. CASE r # s
    BY <2>1, <2>2, <2>4
  <2>. QED
    BY <2>3, <2>4
<1>. QED
  BY <1>1, <1>2

(* So what is the tree of a commit stays the tree of it, and what is       *)
(* settled stays settled while its part of the directory is left alone.    *)
LEMMA TreesStay ==
    ASSUME Typed, SomeCommit \/ UNCHANGED history,
           NEW s \in Ids
    PROVE  /\ \A commit \in 1..Len(history[s]) :
                 {f \in FilesOf[s] : history'[s][commit][f] # Absent} = Present(s, commit)
           /\ \A commit, texts : TreeAt(s, commit, texts) =>
                 /\ commit \in 1..Len(history'[s])
                 /\ texts = [f \in {g \in FilesOf[s] : history'[s][commit][g] # Absent}
                               |-> history'[s][commit][f]]
           /\ Settled(s) /\ disk'[s] = disk[s] => Settled(s)'
<1>1. \A commit \in 1..Len(history[s]) :
          {f \in FilesOf[s] : history'[s][commit][f] # Absent} = Present(s, commit)
  BY CommitsStay DEF Present, At
<1>2. \A commit, texts : TreeAt(s, commit, texts) =>
          /\ commit \in 1..Len(history'[s])
          /\ texts = [f \in {g \in FilesOf[s] : history'[s][commit][g] # Absent}
                        |-> history'[s][commit][f]]
  BY CommitsStay DEF TreeAt, Present, At
<1>3. Settled(s) /\ disk'[s] = disk[s] => Settled(s)'
  <2>. SUFFICES ASSUME Settled(s), disk'[s] = disk[s]
                PROVE  Settled(s)'
    OBVIOUS
  <2>. DEFINE commit == disk[s].pin.commit
              texts == disk[s].content
  <2>1. TreeAt(s, commit, texts)
    BY DEF Settled
  <2>2. /\ commit \in 1..Len(history'[s])
        /\ texts = [f \in {g \in FilesOf[s] : history'[s][commit][g] # Absent}
                      |-> history'[s][commit][f]]
    <3>. HIDE DEF commit, texts
    <3>. QED
      BY <1>2, <2>1
  <2>3. TreeAt(s, disk[s].pin.commit, disk[s].content)'
    BY <2>2 DEF TreeAt, Present, At
  <2>. QED
    BY <2>3 DEF Settled
<1>. QED
  BY <1>1, <1>2, <1>3

-----------------------------------------------------------------------------
(* The steps of the directory. *)
LEMMA DiskWritten ==
    ASSUME Typed
    PROVE  /\ WriteContent => /\ disk'[Source].content = snapshot.texts
                              /\ disk'[Source].pin = disk[Source].pin
                              /\ \A s \in Ids \ {Source} : disk'[s] = disk[s]
           /\ WriteProvenance => /\ disk'[Source].pin = Pin
                                 /\ disk'[Source].content = disk[Source].content
                                 /\ \A s \in Ids \ {Source} : disk'[s] = disk[s]
<1>1. Source \in DOMAIN disk /\ \A s \in Ids : s \in DOMAIN disk
  BY SourceIsOne DEF Typed
<1>2. disk[Source] = [content |-> disk[Source].content, pin |-> disk[Source].pin]
  BY SourceIsOne DEF Typed
<1>3. WriteContent => disk'[Source] = [content |-> snapshot.texts, pin |-> disk[Source].pin]
  BY <1>1, <1>2 DEF WriteContent
<1>4. WriteProvenance => disk'[Source] = [content |-> disk[Source].content, pin |-> Pin]
  BY <1>1, <1>2 DEF WriteProvenance
<1>5. WriteContent \/ WriteProvenance => \A s \in Ids \ {Source} : disk'[s] = disk[s]
  BY <1>1 DEF WriteContent, WriteProvenance
<1>. QED
  BY <1>3, <1>4, <1>5

LEMMA TypeStep ==
    ASSUME Typed, Next
    PROVE  Typed'
<1>1. ASSUME NEW s \in Ids, NEW f \in FilesOf[s], NEW text \in Texts \cup {Absent}, Commit(s, f, text)
      PROVE  Typed'
  <2>1. text \in Nat
    BY CaptureAssumption DEF Texts, Absent
  <2>2. Tip(s) \in Tree(s)
    BY DEF Typed, Tip
  <2>3. [Tip(s) EXCEPT ![f] = text] \in Tree(s)
    BY <2>1, <2>2 DEF Tree
  <2>. DEFINE tree == [Tip(s) EXCEPT ![f] = text]
  <2>4. history' = [history EXCEPT ![s] = Append(@, tree)]
    BY <1>1 DEF Commit
  <2>. HIDE DEF tree
  <2>5. \A r \in Ids : history'[r] \in Seq(Tree(r)) /\ Len(history'[r]) # 0
    <3>. SUFFICES ASSUME NEW r \in Ids
                  PROVE  history'[r] \in Seq(Tree(r)) /\ Len(history'[r]) # 0
      OBVIOUS
    <3>1. history[r] \in Seq(Tree(r)) /\ Len(history[r]) # 0
      BY DEF Typed
    <3>2. CASE r = s
      <4>1. history'[r] = Append(history[r], tree)
        BY <2>4, <3>2 DEF Typed
      <4>2. tree \in Tree(r)
        BY <2>3, <3>2 DEF tree
      <4>3. /\ Append(history[r], tree) \in Seq(Tree(r))
            /\ Len(Append(history[r], tree)) = Len(history[r]) + 1
        BY <3>1, <4>2, AppendProperties
      <4>. QED
        BY <3>1, <4>1, <4>3
    <3>3. CASE r # s
      BY <2>4, <3>1, <3>3 DEF Typed
    <3>. QED
      BY <3>2, <3>3
  <2>6. DOMAIN history' = Ids
    BY <2>4 DEF Typed
  <2>. QED
    BY <1>1, <2>5, <2>6 DEF Commit, Typed, Ids
<1>2. CASE WriteContent \/ WriteProvenance
  <2>1. DOMAIN disk' = Ids
    BY <1>2 DEF Typed, WriteContent, WriteProvenance
  <2>2. \A s \in Ids : disk'[s] = [content |-> disk'[s].content, pin |-> disk'[s].pin]
    <3>1. disk[Source] = [content |-> disk[Source].content, pin |-> disk[Source].pin]
      BY SourceIsOne DEF Typed
    <3>2. WriteContent => disk'[Source] = [content |-> snapshot.texts, pin |-> disk[Source].pin]
      BY <3>1, SourceIsOne DEF WriteContent, Typed
    <3>3. WriteProvenance => disk'[Source] = [content |-> disk[Source].content, pin |-> Pin]
      BY <3>1, SourceIsOne DEF WriteProvenance, Typed
    <3>4. \A s \in Ids \ {Source} : disk'[s] = [content |-> disk'[s].content, pin |-> disk'[s].pin]
      BY <1>2, DiskWritten DEF Typed
    <3>. QED
      BY <1>2, <3>2, <3>3, <3>4
  <2>3. place' \in 1..Len(Sources)
    BY <1>2, SourceIsOne DEF Typed, WriteContent, WriteProvenance
  <2>. QED
    BY <1>2, <2>1, <2>2, <2>3 DEF Typed, WriteContent, WriteProvenance, Blank, Ids
<1>3. CASE Begin
  BY <1>3, SourceIsOne DEF Typed, Begin, Blank, Ids
<1>4. CASE ResolveCommit
  BY <1>4 DEF Typed, ResolveCommit, Ids
<1>5. CASE Listing
  <2>1. /\ snapshot' = [commit |-> snapshot.commit, todo |-> snapshot'.todo, texts |-> snapshot.texts]
        /\ step' = "get" /\ UNCHANGED <<history, disk, place, captures>>
    BY <1>5 DEF Typed, Listing
  <2>. QED
    BY <2>1 DEF Typed, Ids
<1>6. ASSUME NEW f, GetFile(f)
      PROVE  Typed'
  <2>1. /\ snapshot' = [commit |-> snapshot.commit, todo |-> snapshot'.todo, texts |-> snapshot'.texts]
        /\ step' \in {"get", "content"} /\ UNCHANGED <<history, disk, place, captures>>
    BY <1>6 DEF Typed, GetFile
  <2>. QED
    BY <2>1 DEF Typed, Ids
<1>7. CASE CutShort
  BY <1>7 DEF Typed, CutShort, Blank, Ids
<1>. QED
  BY <1>1, <1>2, <1>3, <1>4, <1>5, <1>6, <1>7 DEF Next

LEMMA GatheredStep ==
    ASSUME Typed, Gathered, Next
    PROVE  Gathered'
<1>0. Source \in Ids /\ history[Source] \in Seq(Tree(Source)) /\ Len(history[Source]) # 0
  BY SourceIsOne DEF Typed
<1>1. CASE SomeCommit
  <2>1. UNCHANGED <<step, place, snapshot>> /\ UNCHANGED Source
    BY <1>1 DEF SomeCommit, Commit, Source
  <2>2. CASE step \in {"list", "get"}
    BY <1>0, <1>1, <2>1, <2>2, CommitsStay, TreesStay DEF Gathered, Present, At
  <2>3. CASE step \in {"content", "provenance"}
    <3>1. snapshot.texts # <<>> /\ TreeAt(Source, snapshot.commit, snapshot.texts)
      BY <2>3 DEF Gathered
    <3>2. TreeAt(Source, snapshot.commit, snapshot.texts)'
      <4>. DEFINE commit == snapshot.commit
                  texts == snapshot.texts
                  s == Source
      <4>1. s \in Ids /\ TreeAt(s, commit, texts)
        BY <1>0, <3>1
      <4>2. /\ commit \in 1..Len(history'[s])
            /\ texts = [f \in {g \in FilesOf[s] : history'[s][commit][g] # Absent}
                          |-> history'[s][commit][f]]
        <5>. HIDE DEF commit, texts, s
        <5>. QED
          BY <1>1, <4>1, TreesStay
      <4>. QED
        BY <2>1, <4>2 DEF TreeAt, Present, At
    <3>. QED
      BY <2>1, <2>3, <3>1, <3>2 DEF Gathered
  <2>4. CASE step \notin {"list", "get", "content", "provenance"}
    BY <2>1, <2>4 DEF Gathered
  <2>. QED
    BY <2>2, <2>3, <2>4
<1>2. CASE ResolveCommit
  <2>1. /\ snapshot'.commit = Len(history[Source]) /\ snapshot'.texts = <<>> /\ step' = "list"
        /\ UNCHANGED <<history, place>>
    BY <1>2 DEF ResolveCommit
  <2>2. Len(history[Source]) \in 1..Len(history[Source])
    BY <1>0
  <2>. QED
    BY <2>1, <2>2 DEF Gathered, Source
<1>3. CASE Listing
  <2>1. /\ step = "list" /\ step' = "get" /\ UNCHANGED <<history, place>>
        /\ snapshot'.commit = snapshot.commit /\ snapshot'.texts = snapshot.texts
        /\ snapshot'.todo = IF Source \in IsDir THEN Present(Source, snapshot.commit) ELSE FilesOf[Source]
    BY <1>3 DEF Listing, Typed
  <2>2. Present(Source, snapshot.commit) \subseteq snapshot'.todo
    BY <2>1 DEF Present
  <2>. QED
    BY <2>1, <2>2 DEF Gathered, Source, Present, At
<1>4. ASSUME NEW f \in FilesOf[Source], GetFile(f)
      PROVE  Gathered'
  <2>1. /\ step = "get" /\ UNCHANGED <<history, place>> /\ TextGot(f) # Absent
        /\ snapshot'.commit = snapshot.commit
        /\ snapshot'.todo = snapshot.todo \ {f}
        /\ snapshot'.texts = [g \in DOMAIN snapshot.texts \cup {f} |->
                                 IF g = f THEN TextGot(f) ELSE snapshot.texts[g]]
        /\ step' = IF snapshot'.todo = {} THEN "content" ELSE "get"
    BY <1>4 DEF GetFile, Typed
  <2>2. /\ snapshot.commit \in 1..Len(history[Source])
        /\ DOMAIN snapshot.texts \subseteq Present(Source, snapshot.commit)
        /\ snapshot.texts = [g \in DOMAIN snapshot.texts |-> At(Source, snapshot.commit)[g]]
        /\ Present(Source, snapshot.commit) \subseteq snapshot.todo \cup DOMAIN snapshot.texts
    BY <2>1 DEF Gathered
  <2>3. /\ DOMAIN snapshot'.texts = DOMAIN snapshot.texts \cup {f}
        /\ DOMAIN snapshot'.texts \subseteq Present(Source, snapshot.commit)
    BY <2>1, <2>2 DEF Present, TextGot
  <2>4. snapshot'.texts = [g \in DOMAIN snapshot'.texts |-> At(Source, snapshot.commit)[g]]
    BY <2>1, <2>2, <2>3 DEF TextGot
  <2>5. Present(Source, snapshot.commit) \subseteq snapshot'.todo \cup DOMAIN snapshot'.texts
    BY <2>1, <2>2, <2>3
  <2>6. /\ UNCHANGED Source
        /\ Present(Source, snapshot.commit)' = Present(Source, snapshot.commit)
        /\ At(Source, snapshot.commit)' = At(Source, snapshot.commit)
    BY <2>1 DEF Source, Present, At
  <2>7. CASE step' = "get"
    BY <2>1, <2>2, <2>3, <2>4, <2>5, <2>6, <2>7 DEF Gathered
  <2>8. CASE step' = "content"
    <3>1. snapshot'.todo = {}
      BY <2>1, <2>8
    <3>2. DOMAIN snapshot'.texts = Present(Source, snapshot.commit)
      BY <2>3, <2>5, <3>1
    <3>3. snapshot'.texts # <<>>
      BY <2>3
    <3>4. TreeAt(Source, snapshot.commit, snapshot'.texts)
      BY <2>2, <2>4, <3>2 DEF TreeAt
    <3>5. TreeAt(Source, snapshot.commit, snapshot.texts)'
      BY <2>1, <2>6, <3>4 DEF TreeAt
    <3>. QED
      BY <2>8, <3>3, <3>5 DEF Gathered
  <2>. QED
    BY <2>1, <2>7, <2>8
<1>5. CASE WriteContent
  BY <1>5 DEF WriteContent, Gathered, TreeAt, Source, Present, At
<1>6. CASE Begin \/ WriteProvenance \/ CutShort
  <2>1. step' \in {"idle", "resolve"}
    BY <1>6 DEF Begin, WriteProvenance, CutShort
  <2>. QED
    BY <2>1 DEF Gathered
<1>. QED
  BY <1>1, <1>2, <1>3, <1>4, <1>5, <1>6 DEF Next, SomeCommit

(* The provenance settles the source it is written for. *)
LEMMA ProvenanceSettles ==
    ASSUME Typed, Gathered, InOrder, WriteProvenance, NEW s \in Ids, s = Source
    PROVE  Settled(s)'
<1>1. /\ step = "provenance" /\ UNCHANGED history
      /\ disk'[s].pin = [commit |-> snapshot.commit, texts |-> snapshot.texts]
      /\ disk'[s].content = disk[s].content
  BY DiskWritten DEF WriteProvenance, Pin
<1>2. disk[s].content = snapshot.texts
  BY <1>1 DEF InOrder
<1>3. snapshot.texts # <<>> /\ TreeAt(s, snapshot.commit, snapshot.texts)
  BY <1>1 DEF Gathered
<1>4. /\ disk'[s].pin.commit = snapshot.commit
      /\ disk'[s].pin.texts = snapshot.texts
      /\ disk'[s].content = snapshot.texts
  BY <1>1, <1>2
<1>5. TreeAt(s, disk[s].pin.commit, disk[s].content)'
  BY <1>1, <1>3, <1>4 DEF TreeAt, Present, At
<1>. QED
  BY <1>3, <1>4, <1>5 DEF Settled

(* What writes to a source settles it, or takes it back. *)
LEMMA InOrderStep ==
    ASSUME Typed, Gathered, InOrder, Next
    PROVE  InOrder'
<1>0. /\ Source \in Ids /\ Len(Sources) \in Nat \ {0} /\ place \in 1..Len(Sources)
      /\ \A k \in 1..Len(Sources) : Sources[k] \in Ids /\ (Sources[k] = Source => k = place)
      /\ Source = Sources[place]
  BY SourceIsOne DEF Typed, Source
<1>1. ASSUME SomeCommit \/ UNCHANGED history,
             NEW s \in Ids, Settled(s), disk'[s] = disk[s]
      PROVE  Settled(s)'
  BY <1>1, TreesStay
<1>2. CASE SomeCommit
  <2>1. UNCHANGED <<disk, step, place, snapshot, last, Source>>
    BY <1>2 DEF SomeCommit, Commit, Source
  <2>2. \A s \in Ids : Settled(s) => Settled(s)'
    BY <1>1, <1>2, <2>1
  <2>. QED
    BY <1>0, <2>1, <2>2 DEF InOrder
<1>3. CASE WriteContent
  <2>1. /\ step = "content" /\ step' = "provenance" /\ UNCHANGED <<history, place, snapshot, last, Source>>
        /\ disk'[Source].content = snapshot.texts
        /\ \A s \in Ids \ {Source} : disk'[s] = disk[s]
    BY <1>3, DiskWritten DEF WriteContent, Source
  <2>2. last # "whole" /\ \A k \in 1..(place - 1) : Settled(Sources[k])
    BY <2>1 DEF InOrder
  <2>3. \A k \in 1..(place - 1) : Settled(Sources[k])'
    BY <1>0, <1>1, <2>1, <2>2
  <2>. QED
    BY <2>1, <2>2, <2>3 DEF InOrder
<1>4. CASE WriteProvenance
  <2>1. /\ step = "provenance" /\ UNCHANGED history
        /\ disk'[Source].pin = Pin
        /\ disk'[Source].content = disk[Source].content
        /\ \A s \in Ids \ {Source} : disk'[s] = disk[s]
    BY <1>4, DiskWritten DEF WriteProvenance
  <2>2. disk[Source].content = snapshot.texts /\ last # "whole"
        /\ \A k \in 1..(place - 1) : Settled(Sources[k])
    BY <2>1 DEF InOrder
  <2>5. \A k \in 1..place : Settled(Sources[k])'
    <3>1. \A s \in Ids : s = Source => Settled(s)'
      BY <1>4, ProvenanceSettles
    <3>2. \A k \in 1..(place - 1) : Settled(Sources[k])'
      BY <1>0, <1>1, <2>1, <2>2
    <3>. QED
      BY <1>0, <3>1, <3>2
  <2>6. CASE place < Len(Sources)
    <3>1. place' = place + 1 /\ step' = "resolve" /\ UNCHANGED last
      BY <1>4, <2>6 DEF WriteProvenance
    <3>. QED
      BY <1>0, <2>2, <2>5, <3>1 DEF InOrder
  <2>7. CASE ~(place < Len(Sources))
    <3>1. step' = "idle" /\ last' = "whole"
      BY <1>4, <2>7 DEF WriteProvenance
    <3>2. place = Len(Sources)
      BY <1>0, <2>7
    <3>3. \A s \in Ids : Settled(s)'
      BY <2>5, <3>2 DEF Ids
    <3>. QED
      BY <3>1, <3>3 DEF InOrder
  <2>. QED
    BY <2>6, <2>7
<1>5. CASE Begin
  <2>1. step' = "resolve" /\ place' = 1 /\ last' = "short"
    BY <1>5 DEF Begin
  <2>. QED
    BY <2>1 DEF InOrder
<1>6. CASE CutShort
  <2>1. step # "idle" /\ step' = "idle" /\ UNCHANGED last
    BY <1>6 DEF CutShort
  <2>. QED
    BY <2>1 DEF InOrder
<1>7. ASSUME step # "idle", step' # "idle", step' # "provenance", UNCHANGED <<history, disk, place, last>>
      PROVE  InOrder'
  BY <1>0, <1>1, <1>7 DEF InOrder
<1>8. CASE ResolveCommit \/ Listing
  BY <1>7, <1>8 DEF ResolveCommit, Listing
<1>9. ASSUME NEW f, GetFile(f)
      PROVE  InOrder'
  BY <1>7, <1>9 DEF GetFile
<1>. QED
  BY <1>2, <1>3, <1>4, <1>5, <1>6, <1>8, <1>9 DEF Next, SomeCommit

LEMMA FirstOneStep ==
    ASSUME Typed, Gathered, InOrder, FirstOne, Next
    PROVE  FirstOne'
<1>0. /\ Source \in Ids /\ Len(Sources) \in Nat \ {0} /\ place \in 1..Len(Sources)
      /\ \A k \in 1..Len(Sources) : Sources[k] \in Ids /\ (Sources[k] = Source => k = place)
      /\ Source = Sources[place] /\ captures \in Nat
  BY SourceIsOne DEF Typed, Source
<1>1. CASE SomeCommit
  <2>1. UNCHANGED <<disk, step, place, captures>>
    BY <1>1 DEF SomeCommit, Commit
  <2>2. \A s \in Ids : Settled(s) => Settled(s)'
    BY <1>1, <2>1, TreesStay
  <2>. QED
    BY <2>1, <2>2 DEF FirstOne
<1>2. CASE Begin
  <2>1. step = "idle" /\ captures' = captures + 1 /\ UNCHANGED <<history, disk>> /\ place' = 1
    BY <1>2 DEF Begin
  <2>2. CASE captures = 0
    BY <1>0, <2>1, <2>2 DEF FirstOne
  <2>3. CASE captures # 0
    BY <1>0, <2>1, <2>3 DEF FirstOne
  <2>. QED
    BY <2>2, <2>3
<1>3. CASE WriteContent
  <2>1. /\ step = "content" /\ step' = "provenance" /\ UNCHANGED <<history, place, captures>>
        /\ disk'[Source].pin = disk[Source].pin
        /\ \A s \in Ids \ {Source} : disk'[s] = disk[s]
    BY <1>3, DiskWritten DEF WriteContent
  <2>2. captures # 0
    BY <2>1 DEF FirstOne
  <2>3. captures <= 1 => disk[Source].pin = Nothing
    BY <1>0, <2>1 DEF FirstOne
  <2>4. \A s \in Ids \ {Source} : Settled(s) => Settled(s)'
    BY <2>1, TreesStay
  <2>5. captures <= 1 => \A s \in Ids : disk'[s].pin = Nothing \/ Settled(s)'
    BY <2>1, <2>3, <2>4 DEF FirstOne
  <2>6. \A s \in Ids : disk'[s].pin = disk[s].pin
    BY <2>1
  <2>7. captures <= 1 => \A k \in place..Len(Sources) : disk[Sources[k]].pin = Nothing
    BY <2>1 DEF FirstOne
  <2>8. captures <= 1 => \A k \in place..Len(Sources) : disk'[Sources[k]].pin = Nothing
    BY <1>0, <2>6, <2>7
  <2>. QED
    BY <2>1, <2>2, <2>5, <2>8 DEF FirstOne
<1>4. CASE WriteProvenance
  <2>1. /\ step = "provenance" /\ UNCHANGED <<history, captures>>
        /\ \A s \in Ids \ {Source} : disk'[s] = disk[s]
        /\ disk'[Source].pin = Pin /\ disk'[Source].content = disk[Source].content
        /\ disk[Source].content = snapshot.texts
        /\ snapshot.texts # <<>> /\ TreeAt(Source, snapshot.commit, snapshot.texts)
        /\ captures # 0
    BY <1>4, DiskWritten DEF WriteProvenance, InOrder, Gathered, FirstOne
  <2>2. \A s \in Ids : s = Source => Settled(s)'
    BY <1>4, ProvenanceSettles
  <2>3. \A s \in Ids \ {Source} : Settled(s) => Settled(s)'
    BY <2>1, TreesStay
  <2>. QED
    BY <1>0, <1>4, <2>1, <2>2, <2>3 DEF FirstOne, WriteProvenance
<1>5. CASE CutShort
  BY <1>5, TreesStay DEF CutShort, FirstOne
<1>6. ASSUME step # "idle", UNCHANGED <<history, disk, place, captures>>
      PROVE  FirstOne'
  BY <1>6, TreesStay DEF FirstOne
<1>7. CASE ResolveCommit \/ Listing
  BY <1>6, <1>7 DEF ResolveCommit, Listing
<1>8. ASSUME NEW f, GetFile(f)
      PROVE  FirstOne'
  BY <1>6, <1>8 DEF GetFile
<1>. QED
  BY <1>1, <1>2, <1>3, <1>4, <1>5, <1>7, <1>8 DEF Next, SomeCommit

LEMMA IInvHolds == Spec => []IInv
<1>1. ASSUME Init
      PROVE  IInv
  <2>1. \A s \in Ids : [f \in FilesOf[s] |-> 1] \in Tree(s)
    BY DEF Tree
  <2>2. \A s \in Ids : history[s] = <<[f \in FilesOf[s] |-> 1]>>
    BY <1>1 DEF Init
  <2>3. \A s \in Ids : history[s] \in Seq(Tree(s)) /\ Len(history[s]) # 0
    <3>1. ASSUME NEW s \in Ids, NEW tree \in Tree(s)
          PROVE  <<tree>> \in Seq(Tree(s)) /\ Len(<<tree>>) = 1
      OBVIOUS
    <3>. SUFFICES ASSUME NEW s \in Ids
                  PROVE  history[s] \in Seq(Tree(s)) /\ Len(history[s]) # 0
      OBVIOUS
    <3>2. PICK tree \in Tree(s) : history[s] = <<tree>>
      BY <2>1, <2>2
    <3>3. <<tree>> \in Seq(Tree(s)) /\ Len(<<tree>>) = 1
      BY <3>1
    <3>. QED
      BY <3>2, <3>3
  <2>4. Typed
    BY <1>1, <2>3, CaptureAssumption DEF Init, Typed, Blank
  <2>. QED
    BY <1>1, <2>4 DEF IInv, Init, Gathered, InOrder, FirstOne
<1>2. ASSUME IInv, [Next]_vars
      PROVE  IInv'
  <2>1. CASE Next
    BY <1>2, <2>1, TypeStep, GatheredStep, InOrderStep, FirstOneStep DEF IInv
  <2>2. CASE UNCHANGED vars
    <3>1. UNCHANGED <<history, disk, step, place, snapshot, captures, last>>
      BY <2>2 DEF vars
    <3>2. Typed' /\ Gathered'
      BY <1>2, <3>1 DEF IInv, Typed, Gathered, TreeAt, Present, At, Source, Ids
    <3>3. \A s \in Ids : Settled(s) => Settled(s)'
      BY <3>1 DEF Settled, TreeAt, Present, At
    <3>4. InOrder'
      BY <1>2, <3>1, <3>3, SourceIsOne DEF IInv, InOrder, Source, Typed
    <3>5. FirstOne'
      BY <1>2, <3>1, <3>3 DEF IInv, FirstOne
    <3>. QED
      BY <3>2, <3>4, <3>5 DEF IInv
  <2>. QED
    BY <1>2, <2>1, <2>2
<1>. QED
  BY <1>1, <1>2, PTL DEF Spec

(* A settled source is replayed as the tree of the commit it is pinned to. *)
LEMMA SettledIsExplained ==
    ASSUME NEW s \in Ids, Settled(s), disk[s].pin # Nothing
    PROVE  CanReplay(s) /\ Explained(s, Replayed(s))
BY DEF Settled, CanReplay, Explained, Replayed, TreeAt

-----------------------------------------------------------------------------
(***************************************************************************)
(* A capture that ended well replays every source as the tree of the       *)
(* commit it is pinned to, whatever is committed while its requests go out *)
(* and wherever captures before it were cut short.                         *)
(***************************************************************************)
THEOREM CapturesAreExplained == Spec => []WholeCaptureIsExplained
<1>1. ASSUME IInv
      PROVE  WholeCaptureIsExplained
  <2>1. ASSUME NEW s \in Ids, Settled(s)
        PROVE  disk[s].pin # Nothing
    BY <2>1 DEF Settled, Nothing
  <2>. QED
    BY <1>1, <2>1, SettledIsExplained DEF IInv, InOrder, WholeCaptureIsExplained
<1>. QED
  BY <1>1, IInvHolds, PTL

(***************************************************************************)
(* Up to the end of the first capture into a directory no replay passes    *)
(* text off as that of a commit it is not of.                              *)
(***************************************************************************)
THEOREM ReplaysAreHonest == Spec => []ReplayIsHonest
<1>1. ASSUME IInv
      PROVE  ReplayIsHonest
  <2>. SUFFICES ASSUME captures <= 1, NEW s \in Ids
                PROVE  Replayed(s).pin.commit = Offline \/ Explained(s, Replayed(s))
    BY DEF ReplayIsHonest
  <2>1. CASE disk[s].pin = Nothing
    BY <2>1 DEF Replayed
  <2>2. CASE disk[s].pin # Nothing
    BY <1>1, <2>2, SettledIsExplained DEF IInv, FirstOne
  <2>. QED
    BY <2>1, <2>2
<1>. QED
  BY <1>1, IInvHolds, PTL
=============================================================================
