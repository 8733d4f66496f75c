------------------------------ MODULE Capture -------------------------------
(***************************************************************************)
(* Fetching sources at a commit, capturing them and replaying the capture  *)
(* (src/src/sources.rs Fetcher, http_snapshot, http_dir_snapshot,          *)
(* dir_snapshot; src/src/lib.rs run_capture).  Pipeline takes the reading  *)
(* of one source as one step; here every request is a step.                *)
(*                                                                         *)
(* Upstream repositories are external: a tree gives each file its text,    *)
(* or Absent, and every commit changes one file.  A text is named by the   *)
(* commit that wrote it, and a digest of texts by the texts.  A capture    *)
(* can fail or be killed between two of its steps.                         *)
(***************************************************************************)
EXTENDS Naturals, Sequences

CONSTANTS
    Sources,     \* the order of the sources, a sequence
    FilesOf,     \* the JSON files of each source
    IsDir,       \* the sources that are whole directories
    MaxCommits,  \* bound: commits after the first, in all
    MaxCaptures  \* bound: captures

Ids == {Sources[k] : k \in 1..Len(Sources)}

ASSUME CaptureAssumption ==
    /\ MaxCommits \in Nat /\ MaxCaptures \in Nat
    /\ Sources \in Seq(Ids) /\ Sources # <<>>
    /\ \A j, k \in 1..Len(Sources) : Sources[j] = Sources[k] => j = k
    /\ IsDir \subseteq Ids
    /\ \A s \in Ids : FilesOf[s] # {}
    /\ \A s \in Ids \ IsDir : \E f \in FilesOf[s] : FilesOf[s] = {f}

Absent  == 0
Offline == 0  \* the commit of a pin made from the content itself
Texts   == 1..(MaxCommits + 1)

VARIABLES
    history,   \* the commits of each source, a sequence of trees
    disk,      \* the capture directory: [content, pin] of each source
    step,      \* "idle", "resolve", "list", "get", "content", "provenance"
    place,     \* the place of the source being captured
    snapshot,  \* what it has so far: [commit, todo, texts]
    captures,  \* number of captures started
    last       \* how the last capture ended: "none", "whole", "short"

vars == <<history, disk, step, place, snapshot, captures, last>>

Nothing == [texts |-> <<>>, commit |-> Absent]  \* no such file
Blank   == [commit |-> Absent, todo |-> {}, texts |-> <<>>]

Source == Sources[place]
Tip(s) == history[s][Len(history[s])]
Moved  == LET count[k \in 0..Len(Sources)] ==
                  IF k = 0 THEN 0 ELSE count[k - 1] + Len(history[Sources[k]]) - 1
          IN  count[Len(Sources)]

(* Someone commits upstream: a file changes, appears or goes away. *)
Commit(s, f, text) ==
    /\ Moved < MaxCommits
    /\ text \in {Absent, Len(history[s]) + 1} /\ text # Tip(s)[f]
    /\ history' = [history EXCEPT ![s] = Append(@, [Tip(s) EXCEPT ![f] = text])]
    /\ UNCHANGED <<disk, step, place, snapshot, captures, last>>

(* run_capture *)
Begin ==
    /\ step = "idle" /\ captures < MaxCaptures
    /\ step' = "resolve" /\ place' = 1 /\ captures' = captures + 1
    /\ snapshot' = Blank /\ last' = "short"
    /\ UNCHANGED <<history, disk>>

(* resolve_commit: the tip of main, or the commit that last touched the    *)
(* file; a directory goes on to its listing.                               *)
ResolveCommit ==
    /\ step = "resolve"
    /\ snapshot' = [commit |-> Len(history[Source]), todo |-> {}, texts |-> <<>>]
    /\ step' = "list"
    /\ UNCHANGED <<history, disk, place, captures, last>>

At(s, commit) == history[s][commit]

Present(s, commit) == {f \in FilesOf[s] : At(s, commit)[f] # Absent}

(* The files to get at the commit: the one path, or those the directory    *)
(* lists, and an error when there is none.                                 *)
Listing ==
    /\ step = "list"
    /\ snapshot' = [snapshot EXCEPT !.todo = IF Source \in IsDir
                                              THEN Present(Source, snapshot.commit)
                                              ELSE FilesOf[Source]]
    /\ snapshot'.todo # {}
    /\ step' = "get"
    /\ UNCHANGED <<history, disk, place, captures, last>>

(* Mutant of TextGot: the file is read from main. *)
TextOnMain(f) == Tip(Source)[f]

TextGot(f) == At(Source, snapshot.commit)[f]

(* Files are got one by one; one that is not there is an error. *)
GetFile(f) ==
    /\ step = "get" /\ f \in snapshot.todo
    /\ TextGot(f) # Absent
    /\ snapshot' = [snapshot EXCEPT !.todo = @ \ {f},
                                    !.texts = [g \in DOMAIN @ \cup {f} |->
                                                  IF g = f THEN TextGot(f) ELSE @[g]]]
    /\ step' = IF snapshot'.todo = {} THEN "content" ELSE "get"
    /\ UNCHANGED <<history, disk, place, captures, last>>

WriteContent ==
    /\ step = "content"
    /\ disk' = [disk EXCEPT ![Source].content = snapshot.texts]
    /\ step' = "provenance"
    /\ UNCHANGED <<history, place, snapshot, captures, last>>

(* The pin of a snapshot: its commit and a digest of the texts. *)
Pin == [commit |-> snapshot.commit, texts |-> snapshot.texts]

(* Mutant of WriteProvenance: a pin that is there already is kept. *)
WriteMissingProvenance ==
    /\ step = "provenance"
    /\ disk' = [disk EXCEPT ![Source].pin = IF @ = Nothing THEN Pin ELSE @]
    /\ snapshot' = Blank
    /\ IF place < Len(Sources)
       THEN place' = place + 1 /\ step' = "resolve" /\ UNCHANGED last
       ELSE UNCHANGED place /\ step' = "idle" /\ last' = "whole"
    /\ UNCHANGED <<history, captures>>

(* After its provenance the next source, or the end. *)
WriteProvenance ==
    /\ step = "provenance"
    /\ disk' = [disk EXCEPT ![Source].pin = Pin]
    /\ snapshot' = Blank
    /\ IF place < Len(Sources)
       THEN place' = place + 1 /\ step' = "resolve" /\ UNCHANGED last
       ELSE UNCHANGED place /\ step' = "idle" /\ last' = "whole"
    /\ UNCHANGED <<history, captures>>

(* A request fails, a write fails or the process is killed. *)
CutShort ==
    /\ step # "idle"
    /\ step' = "idle" /\ snapshot' = Blank
    /\ UNCHANGED <<history, disk, place, captures, last>>

(* dir_snapshot, a reading of the directory: the content, under the pin    *)
(* beside it or, when there is none, one made from the content itself.     *)
CanReplay(s) == disk[s].content # <<>>

Replayed(s) ==
    [content |-> disk[s].content,
     pin |-> IF disk[s].pin = Nothing
             THEN [commit |-> Offline, texts |-> disk[s].content]
             ELSE disk[s].pin]

Init ==
    /\ history = [s \in Ids |-> <<[f \in FilesOf[s] |-> 1]>>]
    /\ disk = [s \in Ids |-> [content |-> <<>>, pin |-> Nothing]]
    /\ step = "idle" /\ place = 1 /\ snapshot = Blank
    /\ captures = 0 /\ last = "none"

Next ==
    \/ \E s \in Ids : \E f \in FilesOf[s], text \in Texts \cup {Absent} : Commit(s, f, text)
    \/ Begin
    \/ ResolveCommit
    \/ Listing
    \/ \E s \in Ids : \E f \in FilesOf[s] : s = Source /\ GetFile(f)
    \/ WriteContent
    \/ WriteProvenance
    \/ CutShort

Spec == Init /\ [][Next]_vars

-----------------------------------------------------------------------------
(***************************************************************************)
(* Properties.                                                             *)
(***************************************************************************)

(* Content is, to the last file, the tree of the commit its pin names. *)
Explained(s, snap) ==
    LET tree == At(s, snap.pin.commit)
    IN  /\ snap.pin.texts = snap.content
        /\ snap.content = [f \in Present(s, snap.pin.commit) |-> tree[f]]

(***************************************************************************)
(* Whatever moves upstream while the requests go out, and however often    *)
(* earlier captures into the same directory were cut short, a capture that *)
(* ended well replays every source as the tree of the commit it is pinned  *)
(* to: no file of another commit, none missing, none left over             *)
(* (sources.rs 179-262, lib.rs 590-609).                                   *)
(***************************************************************************)
WholeCaptureIsExplained ==
    last = "whole" /\ step = "idle" => \A s \in Ids : CanReplay(s) /\ Explained(s, Replayed(s))

(***************************************************************************)
(* Up to the end of the first capture into a directory, cut short anywhere *)
(* or not, a replay never passes text off as that of a commit it is not    *)
(* of: sources.rs 86 calls the provenance the "Immutable pin describing    *)
(* exactly which upstream bytes produced a snapshot".  A later capture     *)
(* writes its content over what is there before it writes the provenance,  *)
(* and loses this when it is cut short in between.                         *)
(***************************************************************************)
ReplayIsHonest ==
    step = "idle" /\ captures <= 1 => \A s \in Ids : CanReplay(s) =>
        Replayed(s).pin.commit = Offline \/ Explained(s, Replayed(s))
=============================================================================
