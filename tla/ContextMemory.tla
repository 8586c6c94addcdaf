----------------------------- MODULE ContextMemory -----------------------------
(***************************************************************************)
(* ContextMemoryService (context-memory.service.ts): observations and      *)
(* flags kept between cycles in one KV row.  Every call reads the row,     *)
(* changes what it read and writes it whole.  When there is no row, what   *)
(* it reads is a shallow copy of EMPTY_MEMORY, whose arrays it then        *)
(* changes in place.                                                       *)
(***************************************************************************)
EXTENDS Integers, FiniteSets, Sequences, SequencesExt

CONSTANTS
    MemoryCallers,     \* calls that can be under way together
    FlagKeys,          \* keys of flags
    MAX_OBSERVATIONS,
    MaxNotes           \* bound: observations made

ASSUME ContextMemoryAssumption ==
    MAX_OBSERVATIONS \in Nat \ {0} /\ MaxNotes \in Nat

VARIABLES
    blank,     \* what the arrays of EMPTY_MEMORY hold by now, in this process
    memoryRow, \* the KV row; "stored" is false when there is none
    caller,    \* each call between its read and its write
    notes      \* observations made so far

contextMemoryVars == <<blank, memoryRow, caller, notes>>

EMPTY_MEMORY == [observations |-> <<>>, flags |-> {}]
NoCall == [pc |-> "none", fromRow |-> FALSE, read |-> EMPTY_MEMORY]

ContextMemoryInit ==
    /\ blank = EMPTY_MEMORY
    /\ memoryRow = [stored |-> FALSE, mem |-> EMPTY_MEMORY]
    /\ caller = [c \in MemoryCallers |-> NoCall]
    /\ notes = 0

\* get()
Remembered == IF memoryRow.stored THEN memoryRow.mem ELSE blank

MemoryGet(c) ==
    /\ caller[c].pc = "none"
    /\ caller' = [caller EXCEPT ![c] = [pc |-> "read", fromRow |-> memoryRow.stored,
                                        read |-> Remembered]]
    /\ UNCHANGED <<blank, memoryRow, notes>>

\* What a call that got no row finds is the blank as it is when it goes on.
Got(c) == IF caller[c].fromRow THEN caller[c].read ELSE blank

\* save() has its text before it awaits the write.
MemoryChanged(c, mem) == caller' = [caller EXCEPT ![c] = [pc |-> "save", fromRow |-> FALSE, read |-> mem]]

\* unshift() changes the array in place; slice() makes another one.
AppendObservation(c) ==
    LET noted == <<notes + 1>> \o Got(c).observations
    IN  /\ caller[c].pc = "read" /\ notes < MaxNotes
        /\ notes' = notes + 1
        /\ MemoryChanged(c, [Got(c) EXCEPT !.observations =
                               SubSeq(noted, 1, IF Len(noted) > MAX_OBSERVATIONS THEN MAX_OBSERVATIONS ELSE Len(noted))])
        /\ blank' = IF caller[c].fromRow THEN blank ELSE [blank EXCEPT !.observations = noted]
        /\ UNCHANGED memoryRow

\* The keys that have a flag; the oldest is not cut off at MAX_FLAGS.
FlagsWith(flags, key) == flags \cup {key}

SetFlag(c) ==
    /\ caller[c].pc = "read"
    /\ \E key \in FlagKeys :
         LET mem == [Got(c) EXCEPT !.flags = FlagsWith(@, key)]
         IN  /\ MemoryChanged(c, mem)
             /\ blank' = IF caller[c].fromRow THEN blank ELSE [blank EXCEPT !.flags = mem.flags]
    /\ UNCHANGED <<memoryRow, notes>>

DeleteFlag(c) ==
    /\ caller[c].pc = "read"
    /\ \E key \in FlagKeys :
         MemoryChanged(c, [Got(c) EXCEPT !.flags = @ \ {key}])
    /\ UNCHANGED <<blank, memoryRow, notes>>

MemorySave(c) ==
    /\ caller[c].pc = "save"
    /\ memoryRow' = [stored |-> TRUE, mem |-> caller[c].read]
    /\ caller' = [caller EXCEPT ![c] = NoCall]
    /\ UNCHANGED <<blank, notes>>

ResetMemory ==
    /\ memoryRow.stored
    /\ memoryRow' = [stored |-> FALSE, mem |-> EMPTY_MEMORY]
    /\ UNCHANGED <<blank, caller, notes>>

MemoryRestarts ==
    /\ blank # EMPTY_MEMORY
    /\ blank' = EMPTY_MEMORY
    /\ caller' = [c \in MemoryCallers |-> NoCall]
    /\ UNCHANGED <<memoryRow, notes>>

ContextMemoryNext ==
    \/ \E c \in MemoryCallers : MemoryGet(c) \/ AppendObservation(c) \/ SetFlag(c)
                             \/ DeleteFlag(c) \/ MemorySave(c)
    \/ ResetMemory \/ MemoryRestarts

ContextMemorySpec == ContextMemoryInit /\ [][ContextMemoryNext]_contextMemoryVars

-----------------------------------------------------------------------------
ContextMemoryTypeOK ==
    /\ memoryRow.stored \in BOOLEAN /\ notes \in 0 .. MaxNotes
    /\ \A mem \in {blank, memoryRow.mem} :
         /\ ToSet(mem.observations) \subseteq 1 .. MaxNotes
         /\ mem.flags \subseteq FlagKeys
    /\ \A c \in MemoryCallers : caller[c].pc \in {"none", "read", "save"}

\* reset(): "Elimina toda la memoria acumulada (irreversible)", and get():
\* "Devuelve estado vacio si no existe": with no row, and no call that is
\* writing one, nothing is remembered.
NoRowReadsEmpty ==
    ~memoryRow.stored /\ (\A c \in MemoryCallers : caller[c] = NoCall) => Remembered = EMPTY_MEMORY
=============================================================================
