-------------------------------- MODULE Keys --------------------------------
(***************************************************************************)
(* Making and revealing signing keys (src/src/chain.rs keygen,             *)
(* reveal_secret, Signer::load; src/src/lib.rs run_keygen, run_secret).    *)
(*                                                                         *)
(* The keystore and the registry format are libraries: a keystore holds a  *)
(* seed for an id, a registry pins public keys for an author and registers *)
(* an author once.  A key is one value, its seed and its public key alike. *)
(* One command runs at a time; it can be killed between two of its steps.  *)
(***************************************************************************)
EXTENDS Naturals

CONSTANTS
    Ids,       \* keystore ids
    Authors,   \* author ids
    MaxKeys,   \* bound: keys generated
    Replaces   \* the keystore overwrites the key of an id that is taken

ASSUME KeysAssumption == MaxKeys \in Nat /\ Replaces \in BOOLEAN

NoKey == 0
Keys  == 1..MaxKeys

VARIABLES
    made,      \* number of keys generated
    store,     \* the keystore: the key of each id, or NoKey
    exists,    \* registry.json exists
    registry,  \* the keys registry.json pins for each author
    command,   \* the command under way: [step, id, author, key, loaded]
    shown      \* history: [author, key] of every seed printed

vars == <<made, store, exists, registry, command, shown>>

NoAuthors == [a \in Authors |-> {}]

Idle == [step |-> "idle"]

At(step) == command.step = step

(* run_keygen: refuses a registry in use unless told to append. *)
Keygen(id, author, append) ==
    /\ At("idle")
    /\ exists => append
    /\ command' = [step |-> "generate", id |-> id, author |-> author, key |-> NoKey,
                   loaded |-> NoAuthors]
    /\ UNCHANGED <<made, store, exists, registry, shown>>

(* The next steps of the keygen under way. *)
Registering(key) ==
    [step |-> "register", id |-> command.id, author |-> command.author, key |-> key,
     loaded |-> command.loaded]

Writing(loaded) ==
    [step |-> "write", id |-> command.id, author |-> command.author, key |-> command.key,
     loaded |-> loaded]

(* Mutant of GenerateKeypair: an id that is taken gets a new key. *)
GenerateAnyway ==
    /\ At("generate") /\ made < MaxKeys
    /\ made' = made + 1
    /\ store' = [store EXCEPT ![command.id] = made + 1]
    /\ command' = Registering(made + 1)
    /\ UNCHANGED <<exists, registry, shown>>

(* Mutant of GenerateKeypair: the key is stored and not counted. *)
GenerateUncounted ==
    /\ At("generate") /\ made < MaxKeys
    /\ store[command.id] = NoKey
    /\ store' = [store EXCEPT ![command.id] = made + 1]
    /\ command' = Registering(made + 1)
    /\ UNCHANGED <<made, exists, registry, shown>>

(* generate_keypair, in the keystore already when keygen goes on. *)
GenerateKeypair ==
    /\ At("generate") /\ made < MaxKeys
    /\ Replaces \/ store[command.id] = NoKey
    /\ made' = made + 1
    /\ store' = [store EXCEPT ![command.id] = made + 1]
    /\ command' = Registering(made + 1)
    /\ UNCHANGED <<exists, registry, shown>>

(* Mutant of LoadedRegistry: keygen starts a new registry. *)
FreshRegistry == NoAuthors

LoadedRegistry == IF exists THEN registry ELSE NoAuthors

(* register_author, which refuses an author that is there. *)
RegisterAuthor ==
    /\ At("register")
    /\ LoadedRegistry[command.author] = {}
    /\ command' = Writing([LoadedRegistry EXCEPT ![command.author] = {command.key}])
    /\ UNCHANGED <<made, store, exists, registry, shown>>

(* Write the registry; --print-secret shows the seed. *)
WriteRegistry(print) ==
    /\ At("write")
    /\ exists' = TRUE
    /\ registry' = command.loaded
    /\ shown' = shown \cup (IF print THEN {[author |-> command.author, key |-> command.key]} ELSE {})
    /\ command' = Idle
    /\ UNCHANGED <<made, store>>

(* An error, or the command is killed. *)
Stop ==
    /\ ~At("idle")
    /\ command' = Idle
    /\ UNCHANGED <<made, store, exists, registry, shown>>

Pinned(author, key) == key \in registry[author]

(* run_secret: the seed of an id, if the registry pins it for the author. *)
RevealSecret(id, author) ==
    /\ At("idle") /\ exists
    /\ store[id] # NoKey /\ Pinned(author, store[id])
    /\ shown' = shown \cup {[author |-> author, key |-> store[id]]}
    /\ UNCHANGED <<made, store, exists, registry, command>>

Init ==
    /\ made = 0
    /\ store = [id \in Ids |-> NoKey]
    /\ exists = FALSE
    /\ registry = NoAuthors
    /\ command = Idle
    /\ shown = {}

Next ==
    \/ \E id \in Ids, author \in Authors, append \in BOOLEAN : Keygen(id, author, append)
    \/ GenerateKeypair
    \/ RegisterAuthor
    \/ \E print \in BOOLEAN : WriteRegistry(print)
    \/ Stop
    \/ \E id \in Ids, author \in Authors : RevealSecret(id, author)

Spec == Init /\ [][Next]_vars

-----------------------------------------------------------------------------
(***************************************************************************)
(* Properties.                                                             *)
(***************************************************************************)

(* Every variable has its type. *)
TypeOK ==
    /\ made \in 0..MaxKeys
    /\ store \in [Ids -> 0..made]
    /\ exists \in BOOLEAN
    /\ registry \in [Authors -> SUBSET (1..made)]
    /\ shown \subseteq [author : Authors, key : 1..made]
    /\ command = Idle \/ command \in [step : {"generate", "register", "write"}, id : Ids,
                                      author : Authors, key : 0..made,
                                      loaded : [Authors -> SUBSET (1..made)]]

(***************************************************************************)
(* A seed that was printed for an author, by keygen or later by secret, is *)
(* the key the registry pins for that author, and stays so through every   *)
(* later keygen, also one cut short: the secret given to CI never stops    *)
(* matching ("signing with it would produce a chain that fails             *)
(* verification", chain.rs 98).                                            *)
(***************************************************************************)
ShownStaysPinned == \A s \in shown : s.key \in registry[s.author]

(***************************************************************************)
(* Every key the registry pins is still in the keystore under some id,     *)
(* for its own author alone, so that the identity can be recovered         *)
(* ("Regenerating instead would orphan the registry", chain.rs 72).  It    *)
(* rests on a keystore that keeps the key of an id that is taken.          *)
(***************************************************************************)
PinnedIsRecoverable ==
    \A a \in Authors : \A key \in registry[a] :
        /\ \E id \in Ids : store[id] = key
        /\ \A b \in Authors \ {a} : key \notin registry[b]
=============================================================================
