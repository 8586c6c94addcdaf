---------------------------- MODULE VetoBackfill ----------------------------
(***************************************************************************)
(* VetoAnalyzerService.backfill (apps/api/src/veto-analyzer/               *)
(* veto-analyzer.service.ts): each decision of the veto layer is judged    *)
(* later, by the close of the HORIZON-th daily bar after it.  Sweeps read  *)
(* the rows to judge once and then fetch and write row by row; the timer's *)
(* sweeps do not overlap each other, the operator's overlap anything.      *)
(* The price arithmetic is left out: a judgement is the bar it was made by.*)
(***************************************************************************)
EXTENDS Integers, FiniteSets

CONSTANTS
  Decisions,        \* rows of veto_decisions
  Proposal,         \* what each proposes: "trade", "unsupported" or "unpriced"
  Sweepers,         \* operator requests
  HORIZON,          \* horizonBars
  MAX_FETCH_LIMIT,  \* bars asked for at most
  MaxDay            \* bound on the clock

ASSUME VetoAssumption ==
  /\ {HORIZON, MAX_FETCH_LIMIT} \subseteq Nat \ {0} /\ MaxDay \in Nat
  /\ "none" \notin Decisions /\ Proposal \in [Decisions -> {"trade", "unsupported", "unpriced"}]

VARIABLES
  day,              \* today, in bars
  verdicts,         \* Decisions -> [made, method, on, mark]
  sweeps,           \* the sweeps under way
  backfillRunning   \* the timer's overlap guard

vetoVars == <<day, verdicts, sweeps, backfillRunning>>

Timer == "timer"
NoDecision == "none"
Methods == {"none", "fixed_horizon", "insufficient_data", "unsupported_action", "invalid_ref_price"}
Terminal == [unsupported |-> "unsupported_action", unpriced |-> "invalid_ref_price"]
Asleep == [busy |-> FALSE, rows |-> {}, fetching |-> NoDecision, since |-> 0]

VetoInit ==
  /\ day = 0
  /\ verdicts = [d \in Decisions |-> [made |-> -1, method |-> "none", on |-> 0, mark |-> 0]]
  /\ sweeps = [s \in Sweepers \cup {Timer} |-> Asleep]
  /\ backfillRunning = FALSE

Made(d) == verdicts[d].made >= 0
Judge(d, method, mark) ==
  verdicts' = [verdicts EXCEPT ![d].method = method, ![d].on = day, ![d].mark = mark]

\* The veto layer writes the row with cf_pnl and cf_method NULL.
RecordVeto(d) ==
  /\ ~Made(d)
  /\ verdicts' = [verdicts EXCEPT ![d].made = day]
  /\ UNCHANGED <<day, sweeps, backfillRunning>>

NextBar ==
  /\ day < MaxDay
  /\ day' = day + 1
  /\ UNCHANGED <<verdicts, sweeps, backfillRunning>>

\* The rows a sweep selects; reprocessInsufficient takes up again what had
\* too little history.
Selected(reprocess) ==
  {d \in Decisions : Made(d) /\ \/ verdicts[d].method = "none"
                                \/ reprocess /\ verdicts[d].method = "insufficient_data"}

StartSweep(s, reprocess) ==
  /\ ~sweeps[s].busy
  /\ sweeps' = [sweeps EXCEPT ![s] = [Asleep EXCEPT !.busy = TRUE, !.rows = Selected(reprocess)]]
  /\ UNCHANGED <<day, verdicts>>

BackfillTick == /\ ~backfillRunning
                /\ backfillRunning' = TRUE
                /\ StartSweep(Timer, FALSE)

BackfillRequested(s) == /\ s # Timer
                        /\ UNCHANGED backfillRunning
                        /\ \E reprocess \in BOOLEAN : StartSweep(s, reprocess)

\* The row can be judged once the HORIZON-th bar may have printed.
\* Mutant: one bar early.
IsMatureEarly(d) == day + 1 >= verdicts[d].made + HORIZON

IsMature(d) == day >= verdicts[d].made + HORIZON

Resting(s) == sweeps[s].busy /\ sweeps[s].fetching = NoDecision

\* A row that no bar can judge is marked for good, by id.
MarkUnresolvable(s, d) ==
  /\ Resting(s) /\ d \in sweeps[s].rows
  /\ Proposal[d] \in DOMAIN Terminal
  /\ Judge(d, Terminal[Proposal[d]], 0)
  /\ sweeps' = [sweeps EXCEPT ![s].rows = @ \ {d}]
  /\ UNCHANGED <<day, backfillRunning>>

LeavePending(s, d) ==
  /\ Resting(s) /\ d \in sweeps[s].rows
  /\ Proposal[d] = "trade" /\ ~IsMature(d)
  /\ sweeps' = [sweeps EXCEPT ![s].rows = @ \ {d}]
  /\ UNCHANGED <<day, verdicts, backfillRunning>>

FetchBars(s, d) ==
  /\ Resting(s) /\ d \in sweeps[s].rows
  /\ Proposal[d] = "trade" /\ IsMature(d)
  /\ sweeps' = [sweeps EXCEPT ![s].rows = @ \ {d}, ![s].fetching = d, ![s].since = day]
  /\ UNCHANGED <<day, verdicts, backfillRunning>>

\* The bars the provider may answer with: the newest ones back to the
\* decision and beyond, MAX_FETCH_LIMIT of them at most, or none (an empty
\* answer is normalized to an empty list).
Reach(asked) == IF asked < MAX_FETCH_LIMIT THEN 0 ELSE asked - MAX_FETCH_LIMIT + 1
BarAnswers(asked) == {{}, Reach(asked)..asked}
After(bars, d) == {b \in bars : b > verdicts[d].made}

\* The HORIZON-th of the bars after the decision, in order of time.
LocateMarkBar(bars) ==
  CHOOSE b \in bars : Cardinality({c \in bars : c <= b}) = HORIZON

\* getOhlcv answers, and the verdict is written by id over whatever another
\* sweep has written since the rows were selected.
EvaluateRow(s) ==
  LET d == sweeps[s].fetching IN
  /\ d # NoDecision
  /\ \E bars \in BarAnswers(sweeps[s].since) :
       IF Cardinality(After(bars, d)) < HORIZON
       THEN Judge(d, "insufficient_data", 0)
       ELSE Judge(d, "fixed_horizon", LocateMarkBar(After(bars, d)))
  /\ sweeps' = [sweeps EXCEPT ![s].fetching = NoDecision]
  /\ UNCHANGED <<day, backfillRunning>>

\* The fetch or the write fails: the row is left for the next sweep.
RowFails(s) ==
  /\ sweeps[s].fetching # NoDecision
  /\ sweeps' = [sweeps EXCEPT ![s].fetching = NoDecision]
  /\ UNCHANGED <<day, verdicts, backfillRunning>>

EndSweep(s) ==
  /\ Resting(s) /\ sweeps[s].rows = {}
  /\ sweeps' = [sweeps EXCEPT ![s] = Asleep]
  /\ backfillRunning' = (backfillRunning /\ s # Timer)
  /\ UNCHANGED <<day, verdicts>>

RestartAnalyzer ==
  /\ sweeps' = [s \in DOMAIN sweeps |-> Asleep]
  /\ backfillRunning' = FALSE
  /\ UNCHANGED <<day, verdicts>>

VetoNext ==
  \/ NextBar
  \/ BackfillTick
  \/ RestartAnalyzer
  \/ \E d \in Decisions : RecordVeto(d)
  \/ \E s \in DOMAIN sweeps :
       \/ BackfillRequested(s)
       \/ EvaluateRow(s)
       \/ RowFails(s)
       \/ EndSweep(s)
       \/ \E d \in Decisions : MarkUnresolvable(s, d) \/ LeavePending(s, d) \/ FetchBars(s, d)

VetoSpec == VetoInit /\ [][VetoNext]_vetoVars

-----------------------------------------------------------------------------
\* A decision is condemned as insufficient_data only after its horizon has
\* passed, and a judged one was judged by exactly the HORIZON-th bar after
\* it, never by a later one and never by one that had not printed, whichever
\* sweep wrote last -- as long as the bars asked for reached back to it (an
\* older one is judged by a later bar: MAX_FETCH_LIMIT cuts at the old end).
JudgedAtItsHorizon ==
  \A d \in Decisions :
    LET v == verdicts[d] IN
    /\ v.method = "insufficient_data" => v.on >= v.made + HORIZON
    /\ v.method = "fixed_horizon" => /\ v.mark <= v.on
                                     /\ v.mark >= v.made + HORIZON
                                     /\ v.on - v.made < MAX_FETCH_LIMIT => v.mark = v.made + HORIZON
=============================================================================
