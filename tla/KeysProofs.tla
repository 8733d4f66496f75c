----------------------------- MODULE KeysProofs -----------------------------
(***************************************************************************)
(* Proofs about Keys, for any ids, authors and number of keys.             *)
(*                                                                         *)
(* A keygen holds, between its steps, a registry that was read before the  *)
(* new key is added to it.  The inductive invariant says what it holds:    *)
(* the registry of the disk, and a key that nobody is pinned to yet.       *)
(***************************************************************************)
EXTENDS Keys, TLAPS

(* No registry file, no pins. *)
Unpinned == ~exists => registry = NoAuthors

(* What a keygen is about to register or to write. *)
Fresh ==
    At("register") =>
        /\ command.key \in 1..made
        /\ \A a \in Authors : command.key \notin registry[a]

Pending ==
    At("write") =>
        /\ command.key \in 1..made
        /\ \A a \in Authors : command.key \notin registry[a]
        /\ registry[command.author] = {}
        /\ command.loaded = [registry EXCEPT ![command.author] = {command.key}]

IInv == TypeOK /\ Unpinned /\ Fresh /\ Pending /\ ShownStaysPinned

LEMMA InitHolds == Init => IInv
<1>. SUFFICES ASSUME Init
              PROVE  IInv
  OBVIOUS
<1>1. TypeOK
  <2>1. made \in 0..MaxKeys
    BY KeysAssumption DEF Init
  <2>2. store \in [Ids -> 0..made]
    BY DEF Init, NoKey
  <2>3. registry \in [Authors -> SUBSET (1..made)]
    BY DEF Init, NoAuthors
  <2>. QED
    BY <2>1, <2>2, <2>3 DEF Init, TypeOK
<1>2. command.step = "idle"
  BY DEF Init, Idle
<1>. QED
  BY <1>1, <1>2 DEF Init, IInv, Unpinned, Fresh, Pending, ShownStaysPinned, At

LEMMA KeygenPreserves ==
    ASSUME IInv, NEW id \in Ids, NEW author \in Authors, NEW append \in BOOLEAN,
           Keygen(id, author, append)
    PROVE  IInv'
<1>. USE DEF IInv
<1>1. TypeOK'
  <2>1. command' \in [step : {"generate", "register", "write"}, id : Ids,
                      author : Authors, key : 0..made, loaded : [Authors -> SUBSET (1..made)]]
    BY DEF Keygen, TypeOK, NoKey, NoAuthors
  <2>. QED
    BY <2>1 DEF Keygen, TypeOK
<1>2. command'.step = "generate"
  BY DEF Keygen
<1>. QED
  BY <1>1, <1>2 DEF Keygen, Unpinned, Fresh, Pending, ShownStaysPinned, At

LEMMA GeneratePreserves == ASSUME IInv, GenerateKeypair PROVE IInv'
<1>. USE DEF IInv
<1>1. /\ At("generate") /\ made \in Nat /\ made < MaxKeys
      /\ made' = made + 1 /\ store' = [store EXCEPT ![command.id] = made + 1]
      /\ command' = Registering(made + 1)
      /\ UNCHANGED <<exists, registry, shown>>
  BY DEF GenerateKeypair, TypeOK
<1>2. command \in [step : {"generate", "register", "write"}, id : Ids,
                   author : Authors, key : 0..made, loaded : [Authors -> SUBSET (1..made)]]
  BY <1>1 DEF TypeOK, At, Idle
<1>3. command' \in [step : {"generate", "register", "write"}, id : Ids,
                    author : Authors, key : 0..made', loaded : [Authors -> SUBSET (1..made')]]
  <2>1. command.loaded \in [Authors -> SUBSET (1..(made + 1))]
    BY <1>1, <1>2
  <2>. QED
    BY <1>1, <1>2, <2>1 DEF Registering
<1>4. TypeOK'
  <2>1. made' \in 0..MaxKeys
    BY <1>1, KeysAssumption
  <2>2. store' \in [Ids -> 0..made']
    BY <1>1, <1>2 DEF TypeOK
  <2>3. registry' \in [Authors -> SUBSET (1..made')]
    BY <1>1 DEF TypeOK
  <2>4. shown' \subseteq [author : Authors, key : 1..made']
    BY <1>1 DEF TypeOK
  <2>. QED
    BY <1>1, <1>3, <2>1, <2>2, <2>3, <2>4 DEF TypeOK
<1>5. command'.step = "register" /\ command'.key = made + 1
  BY <1>1 DEF Registering
<1>6. Fresh'
  <2>1. \A a \in Authors : made + 1 \notin registry[a]
    BY <1>1 DEF TypeOK
  <2>. QED
    BY <1>1, <1>5, <2>1 DEF Fresh
<1>. QED
  BY <1>1, <1>4, <1>5, <1>6 DEF Unpinned, Pending, ShownStaysPinned, At

LEMMA RegisterPreserves == ASSUME IInv, RegisterAuthor PROVE IInv'
<1>. USE DEF IInv
<1>1. /\ At("register")
      /\ command' = Writing([LoadedRegistry EXCEPT ![command.author] = {command.key}])
      /\ UNCHANGED <<made, store, exists, registry, shown>>
      /\ LoadedRegistry[command.author] = {}
  BY DEF RegisterAuthor
<1>2. LoadedRegistry = registry
  BY DEF LoadedRegistry, Unpinned
<1>3. command \in [step : {"generate", "register", "write"}, id : Ids,
                   author : Authors, key : 0..made, loaded : [Authors -> SUBSET (1..made)]]
  BY <1>1 DEF TypeOK, At, Idle
<1>4. /\ command'.step = "write" /\ command'.key = command.key
      /\ command'.author = command.author /\ command.author \in Authors
      /\ command'.loaded = [registry EXCEPT ![command.author] = {command.key}]
  BY <1>1, <1>2, <1>3 DEF Writing
<1>5. command.key \in 1..made /\ \A a \in Authors : command.key \notin registry[a]
  BY <1>1 DEF Fresh
<1>6. TypeOK'
  <2>1. command'.loaded \in [Authors -> SUBSET (1..made)]
    BY <1>4, <1>5 DEF TypeOK
  <2>2. command' \in [step : {"generate", "register", "write"}, id : Ids,
                      author : Authors, key : 0..made, loaded : [Authors -> SUBSET (1..made)]]
    BY <1>1, <1>3, <1>4, <2>1 DEF Writing
  <2>. QED
    BY <1>1, <2>2 DEF TypeOK
<1>. QED
  BY <1>1, <1>2, <1>4, <1>5, <1>6 DEF Unpinned, Fresh, Pending, ShownStaysPinned, At

LEMMA WritePreserves ==
    ASSUME IInv, NEW print \in BOOLEAN, WriteRegistry(print)
    PROVE  IInv'
<1>. USE DEF IInv
<1>1. /\ At("write") /\ exists' = TRUE /\ command' = Idle /\ UNCHANGED <<made, store>>
      /\ registry' = [registry EXCEPT ![command.author] = {command.key}]
      /\ shown' \subseteq shown \cup {[author |-> command.author, key |-> command.key]}
  BY DEF WriteRegistry, Pending
<1>2. command.author \in Authors /\ command.key \in 1..made /\ registry[command.author] = {}
  BY <1>1 DEF TypeOK, Pending, At, Idle
<1>3. registry \in [Authors -> SUBSET (1..made)] /\ shown \subseteq [author : Authors, key : 1..made]
  BY DEF TypeOK
<1>4. TypeOK'
  BY <1>1, <1>2, <1>3 DEF TypeOK
<1>5. ShownStaysPinned'
  <2>. SUFFICES ASSUME NEW s \in shown'
                PROVE  s.key \in registry'[s.author]
    BY DEF ShownStaysPinned
  <2>1. CASE s \in shown
    <3>1. s.author \in Authors /\ s.key \in registry[s.author]
      BY <1>3, <2>1 DEF ShownStaysPinned
    <3>2. s.author # command.author
      BY <1>2, <3>1
    <3>. QED
      BY <1>1, <1>3, <3>1, <3>2
  <2>2. CASE s = [author |-> command.author, key |-> command.key]
    BY <1>1, <1>2, <1>3, <2>2
  <2>. QED
    BY <1>1, <2>1, <2>2
<1>. QED
  BY <1>1, <1>4, <1>5 DEF Unpinned, Fresh, Pending, At, Idle

LEMMA StopPreserves == ASSUME IInv, Stop PROVE IInv'
  BY DEF IInv, Stop, TypeOK, Unpinned, Fresh, Pending, ShownStaysPinned, At, Idle

LEMMA RevealPreserves ==
    ASSUME IInv, NEW id \in Ids, NEW author \in Authors, RevealSecret(id, author)
    PROVE  IInv'
<1>. USE DEF IInv
<1>1. /\ shown' = shown \cup {[author |-> author, key |-> store[id]]}
      /\ store[id] \in registry[author]
      /\ UNCHANGED <<made, store, exists, registry, command>>
  BY DEF RevealSecret, Pinned
<1>2. store[id] \in 1..made
  BY <1>1 DEF TypeOK
<1>. QED
  BY <1>1, <1>2 DEF TypeOK, Unpinned, Fresh, Pending, ShownStaysPinned, At

LEMMA Preserved == IInv /\ [Next]_vars => IInv'
<1>. SUFFICES ASSUME IInv, [Next]_vars
              PROVE  IInv'
  OBVIOUS
<1>1. CASE Next
  BY <1>1, KeygenPreserves, GeneratePreserves, RegisterPreserves, WritePreserves,
     StopPreserves, RevealPreserves DEF Next
<1>2. CASE UNCHANGED vars
  BY <1>2 DEF vars, IInv, TypeOK, Unpinned, Fresh, Pending, ShownStaysPinned, At
<1>. QED
  BY <1>1, <1>2

-----------------------------------------------------------------------------
(***************************************************************************)
(* With a keystore that keeps the key of an id that is taken, keys are     *)
(* never lost: neither those that are pinned nor the one about to be.      *)
(***************************************************************************)
Stored(key) == \E id \in Ids : store[id] = key

KeyStored == At("register") \/ At("write") => Stored(command.key)

LEMMA RecoverablePreserved ==
    ASSUME ~Replaces, IInv, KeyStored, PinnedIsRecoverable, [Next]_vars
    PROVE  KeyStored' /\ PinnedIsRecoverable'
<1>. USE DEF IInv
<1>1. /\ store \in [Ids -> 0..made] /\ registry \in [Authors -> SUBSET (1..made)]
      /\ made \in Nat
  BY DEF TypeOK
<1>2. CASE UNCHANGED <<store, registry>> /\ (KeyStored => KeyStored')
  BY <1>2 DEF PinnedIsRecoverable
<1>3. ASSUME NEW id \in Ids, NEW author \in Authors, NEW append \in BOOLEAN,
             Keygen(id, author, append)
      PROVE  UNCHANGED <<store, registry>> /\ KeyStored'
  BY <1>3 DEF Keygen, KeyStored, At
<1>4. CASE GenerateKeypair
  <2>1. /\ command.id \in Ids /\ store[command.id] = 0
        /\ store' = [store EXCEPT ![command.id] = made + 1] /\ registry' = registry
        /\ command'.key = made + 1
    BY <1>4 DEF GenerateKeypair, TypeOK, At, Idle, Registering, NoKey
  <2>2. KeyStored'
    BY <1>1, <2>1 DEF KeyStored, Stored
  <2>3. ASSUME NEW key \in 1..made, Stored(key)
        PROVE  Stored(key)'
    BY <1>1, <2>1, <2>3 DEF Stored
  <2>4. PinnedIsRecoverable'
    BY <1>1, <2>1, <2>3 DEF PinnedIsRecoverable, Stored
  <2>. QED
    BY <2>2, <2>4
<1>5. CASE RegisterAuthor
  <2>1. UNCHANGED <<store, registry>> /\ command'.key = command.key /\ At("register")
    BY <1>5 DEF RegisterAuthor, Writing
  <2>. QED
    BY <1>2, <2>1 DEF KeyStored, Stored
<1>6. ASSUME NEW print \in BOOLEAN, WriteRegistry(print)
      PROVE  KeyStored' /\ PinnedIsRecoverable'
  <2>1. /\ store' = store /\ command' = Idle
        /\ registry' = [registry EXCEPT ![command.author] = {command.key}]
        /\ \A a \in Authors : command.key \notin registry[a]
        /\ Stored(command.key) /\ command.author \in Authors
    BY <1>6 DEF WriteRegistry, Pending, KeyStored, TypeOK, At, Idle
  <2>2. KeyStored'
    BY <2>1 DEF KeyStored, At, Idle
  <2>3. PinnedIsRecoverable'
    BY <1>1, <2>1 DEF PinnedIsRecoverable, Stored
  <2>. QED
    BY <2>2, <2>3
<1>7. CASE Stop
  <2>1. UNCHANGED <<store, registry>> /\ command'.step = "idle"
    BY <1>7 DEF Stop, Idle
  <2>. QED
    BY <1>2, <2>1 DEF KeyStored, At
<1>8. ASSUME NEW id \in Ids, NEW author \in Authors, RevealSecret(id, author)
      PROVE  UNCHANGED <<store, registry, command>>
  BY <1>8 DEF RevealSecret
<1>9. UNCHANGED <<store, registry, command>> => KeyStored' /\ PinnedIsRecoverable'
  BY DEF KeyStored, Stored, At, PinnedIsRecoverable
<1>. QED
  BY <1>2, <1>3, <1>4, <1>5, <1>6, <1>7, <1>8, <1>9 DEF Next, vars

(***************************************************************************)
(* The variables of keygen and secret keep their types: keys come from the *)
(* keystore, a registry pins only keys that were made (chain.rs keygen).   *)
(***************************************************************************)
THEOREM Types == Spec => []TypeOK
<1>1. IInv => TypeOK
  BY DEF IInv
<1>. QED
  BY <1>1, InitHolds, Preserved, PTL DEF Spec

(***************************************************************************)
(* A printed seed is the key pinned for its author from then on, through   *)
(* every keygen, finished or cut short at any step (chain.rs 98).  Nothing *)
(* is assumed of the keystore.                                             *)
(***************************************************************************)
THEOREM PrintedSeedsStayPinned == Spec => []ShownStaysPinned
<1>1. IInv => ShownStaysPinned
  BY DEF IInv
<1>. QED
  BY <1>1, InitHolds, Preserved, PTL DEF Spec

(***************************************************************************)
(* Every pinned key is in the keystore, and is the key of one author       *)
(* alone, whatever keygens were cut short or repeated, if the keystore     *)
(* does not replace keys: an identity can always be recovered (chain.rs    *)
(* 72).                                                                    *)
(***************************************************************************)
THEOREM PinnedKeysAreRecoverable ==
    ASSUME ~Replaces
    PROVE  Spec => []PinnedIsRecoverable
<1>1. Init => KeyStored /\ PinnedIsRecoverable
  <2>1. Init => command.step = "idle" /\ \A a \in Authors : registry[a] = {}
    BY DEF Init, Idle, NoAuthors
  <2>. QED
    BY <2>1 DEF KeyStored, At, PinnedIsRecoverable
<1>2. IInv /\ KeyStored /\ PinnedIsRecoverable /\ [Next]_vars => KeyStored' /\ PinnedIsRecoverable'
  BY RecoverablePreserved
<1>. QED
  BY <1>1, <1>2, InitHolds, Preserved, PTL DEF Spec
=============================================================================
