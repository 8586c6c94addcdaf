----------------------------- MODULE OutcomeLabels -----------------------------
(***************************************************************************)
(* What a cycle leaves to learn from: its episode (LongTermMemoryService)  *)
(* and the vector of its signals (MlSignalRecordService), written without  *)
(* an outcome, and the NAV snapshot of SnapshotService that gives both of  *)
(* them one; the lessons of a reflection; the rows a training reads.       *)
(*                                                                         *)
(* Every write of these services is fail-soft: it is made or it is not,    *)
(* and the cycle goes on.  Profit and loss is told by the time at which    *)
(* the wallet was last priced, which only the intents of a cycle do.       *)
(***************************************************************************)
EXTENDS Integers, Sequences, FiniteSets

CONSTANTS
    LabelledCycles,   \* bound: the cycles, in order 1 .. LabelledCycles
    MAX_LESSON_ROWS,
    MIN_ML_SAMPLES,
    MaxPrices, MaxLessons  \* bounds: price moves, lessons

ASSUME OutcomeAssumption ==
    /\ {LabelledCycles, MAX_LESSON_ROWS, MIN_ML_SAMPLES, MaxPrices, MaxLessons} \subseteq Nat
    /\ MAX_LESSON_ROWS > 0

VARIABLES
    prices,     \* how often prices have moved
    wallet,     \* the row "paper" of portfolio: the prices it was last priced at
    ending,     \* the cycle under way: where it is, its id, what it has read
    nav,        \* the snapshot of each cycle, none when it has none
    episodes,   \* episode_memory: the outcome of each cycle's row, absent, unknown
    mlRows,     \* ml_signal_record, likewise
    lessons, lessonsMade,
    decidedAt,  \* history: the prices at which each cycle decided
    trainedOn   \* history: the rows the last training was given

outcomeVars == <<prices, wallet, ending, nav, episodes, mlRows, lessons, lessonsMade, decidedAt, trainedOn>>

LabelCycles == 1 .. LabelledCycles
None == -1      \* no wallet, no snapshot, no row
Unknown == -2   \* a row whose outcome is NULL
NoEnding == [pc |-> "idle", id |-> 0, pnl |-> None, signalled |-> FALSE]

OutcomeInit ==
    /\ prices = 0
    /\ wallet = None
    /\ ending = NoEnding
    /\ nav = [c \in LabelCycles |-> None]
    /\ episodes = [c \in LabelCycles |-> None]
    /\ mlRows = [c \in LabelCycles |-> None]
    /\ lessons = <<>> /\ lessonsMade = 0
    /\ decidedAt = [c \in LabelCycles |-> 0]
    /\ trainedOn = {}

TurnAt(pc) == ending.pc = pc
TurnGoes(pc) == ending' = [ending EXCEPT !.pc = pc]

PricesMove ==
    /\ prices < MaxPrices
    /\ prices' = prices + 1
    /\ UNCHANGED <<wallet, ending, nav, episodes, mlRows, lessons, lessonsMade, decidedAt, trainedOn>>

-----------------------------------------------------------------------------
(* The end of a cycle.  One runs at a time: CycleExecutorService.runState. *)

\* The governed turn: it emits signals or none; an entry that fills, and one the
\* gate measures, prices the wallet anew.
TurnDecides ==
    /\ TurnAt("idle")
    /\ \E id \in LabelCycles, signalled, priced \in BOOLEAN :
         /\ id = ending.id + 1
         /\ ending' = [pc |-> "episode", id |-> id, pnl |-> None, signalled |-> signalled]
         /\ wallet' = IF signalled /\ priced THEN prices ELSE wallet
         /\ decidedAt' = [decidedAt EXCEPT ![id] = prices]
    /\ UNCHANGED <<prices, nav, episodes, mlRows, lessons, lessonsMade, trainedOn>>

\* record(): one row, outcome NULL.
EpisodeRow == [episodes EXCEPT ![ending.id] = Unknown]

\* _ltmRecordEpisode: of every cycle, the ones with no signal too.
RecordEpisode ==
    /\ TurnAt("episode")
    /\ episodes' \in {episodes, EpisodeRow}
    /\ TurnGoes("capture")
    /\ UNCHANGED <<prices, wallet, nav, mlRows, lessons, lessonsMade, decidedAt, trainedOn>>

\* recordSignals(): a row for each symbol, here one, outcome NULL.
SignalRows == [mlRows EXCEPT ![ending.id] = Unknown]

\* _mlCaptureSignals: only symbols that have an action.
CaptureSignals ==
    /\ TurnAt("capture")
    /\ \/ ending.signalled /\ mlRows' = SignalRows
       \/ UNCHANGED mlRows
    /\ TurnGoes("snapshot")
    /\ UNCHANGED <<prices, wallet, nav, episodes, lessons, lessonsMade, decidedAt, trainedOn>>

\* takeSnapshot(cycleId): the wallet's row as it is, with no new prices.
TakeSnapshot ==
    /\ TurnAt("snapshot")
    /\ \/ /\ wallet # None
          /\ nav' = [nav EXCEPT ![ending.id] = wallet]
          /\ ending' = [ending EXCEPT !.pc = "labelEpisode", !.pnl = wallet]
       \/ TurnGoes("idle") /\ UNCHANGED nav   \* no row, a row that is corrupt, a failure
    /\ UNCHANGED <<prices, wallet, episodes, mlRows, lessons, lessonsMade, decidedAt, trainedOn>>

\* Mutant: the snapshot gives its outcome to every row that waits for one.
OutcomeForTheWaiting(rows) ==
    [c \in LabelCycles |-> IF rows[c] = Unknown THEN ending.pnl ELSE rows[c]]

\* UPDATE ... WHERE cycle_id = the snapshot's cycle.
OutcomeFor(rows) ==
    [c \in LabelCycles |-> IF c = ending.id /\ rows[c] # None THEN ending.pnl ELSE rows[c]]

UpdateOutcome ==
    /\ TurnAt("labelEpisode")
    /\ episodes' \in {episodes, OutcomeFor(episodes)}
    /\ TurnGoes("labelMl")
    /\ UNCHANGED <<prices, wallet, nav, mlRows, lessons, lessonsMade, decidedAt, trainedOn>>

UpdateOutcomeAggregate ==
    /\ TurnAt("labelMl")
    /\ mlRows' \in {mlRows, OutcomeFor(mlRows)}
    /\ TurnGoes("idle")
    /\ UNCHANGED <<prices, wallet, nav, episodes, lessons, lessonsMade, decidedAt, trainedOn>>

\* The cycle throws after its turn, or the process stops: no later cycle comes
\* back to its rows.
TurnBreaksOff ==
    /\ ~TurnAt("idle")
    /\ TurnGoes("idle")
    /\ UNCHANGED <<prices, wallet, nav, episodes, mlRows, lessons, lessonsMade, decidedAt, trainedOn>>

-----------------------------------------------------------------------------
(* A reflection, which excludes a cycle *)

\* Mutant: the insert is not pruned.
PromotedUnpruned(lesson) == Append(lessons, lesson)

\* promote(): insert and prune, the oldest first, in one transaction.
Promoted(lesson) ==
    IF Len(lessons) < MAX_LESSON_ROWS THEN Append(lessons, lesson)
    ELSE Tail(Append(lessons, lesson))

\* record_lesson: a promote() that fails is not noticed.
RecordLesson ==
    /\ TurnAt("idle") /\ lessonsMade < MaxLessons
    /\ lessonsMade' = lessonsMade + 1
    /\ lessons' \in {lessons, Promoted(lessonsMade + 1)}
    /\ UNCHANGED <<prices, wallet, ending, nav, episodes, mlRows, decidedAt, trainedOn>>

\* getTrainingData(): rows that have an outcome.
TrainingRows == {c \in LabelCycles : mlRows[c] >= 0}

\* train_ml_model below MIN_ML_SAMPLES gives the plugin nothing.
GivesTrainingData ==
    /\ TurnAt("idle")
    /\ trainedOn' = IF Cardinality(TrainingRows) < MIN_ML_SAMPLES THEN trainedOn ELSE TrainingRows
    /\ UNCHANGED <<prices, wallet, ending, nav, episodes, mlRows, lessons, lessonsMade, decidedAt>>

OutcomeNext ==
    \/ PricesMove
    \/ TurnDecides \/ RecordEpisode \/ CaptureSignals \/ TakeSnapshot
    \/ UpdateOutcome \/ UpdateOutcomeAggregate \/ TurnBreaksOff
    \/ RecordLesson \/ GivesTrainingData

OutcomeSpec == OutcomeInit /\ [][OutcomeNext]_outcomeVars

-----------------------------------------------------------------------------
OutcomeTypeOK ==
    /\ prices \in 0 .. MaxPrices /\ wallet \in {None} \cup 0 .. MaxPrices
    /\ ending.pc \in {"idle", "episode", "capture", "snapshot", "labelEpisode", "labelMl"}
    /\ nav \in [LabelCycles -> {None} \cup 0 .. MaxPrices]
    /\ {episodes, mlRows} \subseteq [LabelCycles -> {None, Unknown} \cup 0 .. MaxPrices]
    /\ Len(lessons) <= MAX_LESSON_ROWS /\ lessonsMade \in 0 .. MaxLessons
    /\ decidedAt \in [LabelCycles -> 0 .. MaxPrices] /\ trainedOn \subseteq LabelCycles

\* takeSnapshot() and its two backfills, whichever of them fails and wherever
\* a cycle breaks off: an outcome is the one of the row's own cycle, the same in
\* both stores, and a model is trained on no other.
OutcomeIsItsCycles ==
    /\ \A c \in LabelCycles, rows \in {episodes, mlRows} : rows[c] >= 0 => rows[c] = nav[c]
    /\ \A c \in trainedOn : nav[c] # None

\* 0010_ml_signal_record: "backfilled by the NEXT snapshot (no lookahead)", and
\* ml-signal-record.service.ts: "these values come from a LATER snapshot than
\* the decision cycle": an outcome is priced later than the decision it is of.
OutcomeIsLater ==
    \A c \in LabelCycles : mlRows[c] >= 0 => mlRows[c] > decidedAt[c]
=============================================================================
