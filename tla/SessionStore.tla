---------------------------- MODULE SessionStore ----------------------------
(***************************************************************************)
(* The session files of pkg/storage: saves that go through a temporary     *)
(* file in the same directory (writeFileAtomic), Get, and List, which      *)
(* reads the directory and then file after file while saves run.           *)
(*                                                                         *)
(* The content of a file is the save that wrote it, or Part while only a   *)
(* part is on disk. A save is one call of Save: of a turn, an inbound      *)
(* message or POST /v1/chats.                                              *)
(***************************************************************************)
EXTENDS Naturals, Sequences, SequencesExt

CONSTANTS
    ChatIds,
    Saves,          \* calls of Save
    SavedChat,      \* the chat each of them saves
    MaxLists,       \* bound: calls of List
    MaxCrashes,     \* bound: deaths of the process
    Absent,         \* no such file
    Part            \* a file that does not decode

ASSUME StoreAssumption ==
    /\ SavedChat \in [Saves -> ChatIds]
    /\ {MaxLists, MaxCrashes} \subseteq Nat
    /\ ChatIds \cap Saves = {}
    /\ Absent \notin Saves \cup {Part}
    /\ Part \notin Saves

VARIABLES
    dir,        \* the directory: the file of each chat, the temp of each save
    saving,     \* saving[w]: where the save is
    clock,      \* saves stamped so far
    updatedAt,  \* updatedAt[w]: the time the save stamped
    todo,       \* names List has still to read
    listing,    \* "idle", "reading" or "done"
    out,        \* what List has read
    lists,
    crashes,
    \* history
    held,       \* held[c]: contents the file of c has had since List began
    unread      \* chats whose file List could not read

storeVars == <<dir, saving, clock, updatedAt, todo, listing, out, lists,
               crashes, held, unread>>
listVars == <<todo, listing, out, lists, unread>>

Names == ChatIds \cup Saves
Contents == Saves \cup {Absent, Part}

StoreInit ==
    /\ dir = [n \in Names |-> Absent]
    /\ saving = [w \in Saves |-> "idle"]
    /\ clock = 0
    /\ updatedAt = [w \in Saves |-> 0]
    /\ todo = {} /\ listing = "idle" /\ out = <<>> /\ lists = 0
    /\ crashes = 0
    /\ held = [c \in ChatIds |-> {}] /\ unread = {}

SaveGoto(w, step) == saving' = [saving EXCEPT ![w] = step]

\* Saves of a chat share the name of their temporary file.
MutTempOf(w) == CHOOSE v \in Saves : SavedChat[v] = SavedChat[w]

\* Every CreateTemp gives a name of its own.
TempOf(w) == w

\* Save stamps UpdatedAt, encodes the state and creates the temporary file.
CreateTemp(w) ==
    /\ saving[w] = "idle"
    /\ clock' = clock + 1
    /\ updatedAt' = [updatedAt EXCEPT ![w] = clock + 1]
    /\ dir' = [dir EXCEPT ![TempOf(w)] = Part]
    /\ SaveGoto(w, "created")
    /\ UNCHANGED <<listVars, crashes, held>>

\* Write and Close.
Write(w) ==
    /\ saving[w] = "created"
    /\ dir' = [dir EXCEPT ![TempOf(w)] = w]
    /\ SaveGoto(w, "written")
    /\ UNCHANGED <<clock, updatedAt, listVars, crashes, held>>

\* The rename replaces the file of the chat; nothing is left to remove.
Rename(w) ==
    /\ saving[w] = "written"
    /\ dir' = [dir EXCEPT ![SavedChat[w]] = dir[TempOf(w)],
                          ![TempOf(w)] = Absent]
    /\ held' = [held EXCEPT ![SavedChat[w]] = @ \cup {dir[TempOf(w)]}]
    /\ SaveGoto(w, "done")
    /\ UNCHANGED <<clock, updatedAt, listVars, crashes>>

\* A step fails: the deferred Remove takes the temporary file away and the
\* caller gets the error. CreateTemp itself may fail.
SaveStepFails(w) ==
    /\ saving[w] \in {"idle", "created", "written"}
    /\ dir' = [dir EXCEPT ![TempOf(w)] = Absent]
    /\ SaveGoto(w, "failed")
    /\ UNCHANGED <<clock, updatedAt, listVars, crashes, held>>

\* ReadDir gives the names there are; only chat files end in .json.
ListStart ==
    /\ listing # "reading"
    /\ lists < MaxLists
    /\ lists' = lists + 1
    /\ todo' = {n \in Names : dir[n] # Absent} \cap ChatIds
    /\ listing' = "reading"
    /\ out' = <<>> /\ unread' = {}
    /\ held' = [c \in ChatIds |-> {dir[c]}]
    /\ UNCHANGED <<dir, saving, clock, updatedAt, crashes>>

\* The list ends at the first file that cannot be read.
MutStopAtFirst(c) ==
    /\ listing = "reading"
    /\ c \in todo
    /\ \/ /\ todo' = todo \ {c}
          /\ out' = IF dir[c] \in Saves THEN Append(out, dir[c]) ELSE out
          /\ UNCHANGED unread
       \/ /\ todo' = {}
          /\ unread' = unread \cup {c}
          /\ UNCHANGED out
    /\ UNCHANGED <<dir, saving, clock, updatedAt, listing, lists, crashes,
                   held>>

\* Names are random, so the order of the reads is any. A file that is not
\* there any more, cannot be read or does not decode is skipped without a
\* word.
ListRead(c) ==
    /\ listing = "reading"
    /\ c \in todo
    /\ todo' = todo \ {c}
    /\ \/ /\ out' = IF dir[c] \in Saves THEN Append(out, dir[c]) ELSE out
          /\ UNCHANGED unread
       \/ /\ unread' = unread \cup {c}
          /\ UNCHANGED out
    /\ UNCHANGED <<dir, saving, clock, updatedAt, listing, lists, crashes,
                   held>>

\* The order is taken the wrong way round.
MutNewestFirst(v, w) == updatedAt[v] < updatedAt[w]

NewestFirst(v, w) == updatedAt[v] > updatedAt[w]

\* sort.Slice: the same entries in another order, none behind one that it
\* belongs before.
ListSort ==
    /\ listing = "reading"
    /\ todo = {}
    /\ \E order \in Bijection(DOMAIN out, DOMAIN out) :
         /\ out' = [i \in DOMAIN out |-> out[order[i]]]
         /\ \A i, j \in DOMAIN out :
              i < j => ~NewestFirst(out[order[j]], out[order[i]])
    /\ listing' = "done"
    /\ UNCHANGED <<dir, saving, clock, updatedAt, todo, lists, crashes, held,
                   unread>>

\* The process dies and starts again: what it was doing is gone and its
\* temporary files stay.
StoreCrash ==
    /\ crashes < MaxCrashes
    /\ crashes' = crashes + 1
    /\ saving' = [w \in Saves |->
                    IF saving[w] \in {"created", "written"} THEN "died"
                    ELSE saving[w]]
    /\ todo' = {} /\ listing' = "idle" /\ out' = <<>> /\ unread' = {}
    /\ UNCHANGED <<dir, clock, updatedAt, lists, held>>

SaveStep(w) == CreateTemp(w) \/ Write(w) \/ Rename(w) \/ SaveStepFails(w)
List == ListStart \/ (\E c \in ChatIds : ListRead(c)) \/ ListSort

StoreNext == (\E w \in Saves : SaveStep(w)) \/ List \/ StoreCrash

StoreSpec == StoreInit /\ [][StoreNext]_storeVars

\* Get answers with nothing, a state, or an error when the file does not
\* decode.
Get(c) == IF dir[c] = Part THEN "error" ELSE dir[c]

-----------------------------------------------------------------------------
StoreTypes ==
    /\ dir \in [Names -> Contents]
    /\ saving \in [Saves -> {"idle", "created", "written", "done", "failed",
                             "died"}]
    /\ clock \in Nat /\ updatedAt \in [Saves -> 0..clock]
    /\ todo \subseteq ChatIds
    /\ listing \in {"idle", "reading", "done"}
    /\ out \in Seq(Saves)
    /\ lists \in 0..MaxLists /\ crashes \in 0..MaxCrashes
    /\ held \in [ChatIds -> SUBSET Contents] /\ unread \subseteq ChatIds

\* Whatever fails or dies, and however many saves of one chat run at once, a
\* reader finds the file of a chat absent or holding one whole save of that
\* chat, and a chat that has been saved is never absent again
\* (storage.go:162).
FilesAreWhole ==
    \A c \in ChatIds :
        /\ Get(c) \in {Absent} \cup {w \in Saves : SavedChat[w] = c}
        /\ (\E w \in Saves : SavedChat[w] = c /\ saving[w] = "done")
             => Get(c) # Absent

\* A list made while saves run has every chat that was there when it began
\* and whose file could be read, once, in a state the chat has had since then,
\* most recent first: a file that fails costs the list that chat alone
\* (storage.go:122, 136-139).
ListingIsWhole ==
    listing = "done" =>
        /\ \A c \in ChatIds \ unread : Absent \notin held[c] =>
             \E i \in DOMAIN out :
               \A j \in DOMAIN out : SavedChat[out[j]] = c <=> j = i
        /\ \A i \in DOMAIN out : out[i] \in held[SavedChat[out[i]]]
        /\ \A i \in 1..Len(out) - 1 :
             updatedAt[out[i]] > updatedAt[out[i + 1]]

=============================================================================
