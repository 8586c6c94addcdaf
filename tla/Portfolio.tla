----------------------------- MODULE Portfolio ------------------------------
(***************************************************************************)
(* The account side of RealBrokerReconciliationService                     *)
(* (real-broker-reconciliation.service.ts): syncPortfolio(), which copies  *)
(* the broker's positions and appends a snapshot with the high-water mark, *)
(* detectDrift(), which trips the kill-switch for a position no order of   *)
(* the platform explains, and adoptBrokerPosition().                       *)
(*                                                                         *)
(* The order path is taken from OrderPromise, which RealTrading implements *)
(* (theorem KeepsPromise): an order trades at the broker first and is      *)
(* booked later.  An element of Orders is a symbol and the order for it.   *)
(***************************************************************************)
EXTENDS Naturals

CONSTANTS
    Symbols,     \* what can be held
    Orders,      \* the symbols the platform orders
    HandTraded,  \* the symbols traded at the broker without the platform
    Ticks,       \* ticks of the loop that can be running at once
    Adopters,    \* requests to adopt a position
    MaxEquity,   \* bound: the equity the broker reports
    CB_MAX_FAILURES,  \* CB_MAX_FAILURES, 3 in the code
    MaxFaults    \* bound: crashes, and calls of the database or broker that fail

MaxQty == 1
Syncers == Ticks \cup Adopters

ASSUME PortfolioAssumption ==
    /\ Orders \cup HandTraded \subseteq Symbols
    /\ Ticks \cap Adopters = {}
    /\ MaxEquity \in Nat \ {0}
    /\ CB_MAX_FAILURES \in Nat \ {0}
    /\ MaxFaults \in Nat

VARIABLES
    stage, traded, booked,  \* the orders: see OrderPromise
    outside,    \* positions opened at the broker by hand
    positions,  \* real_positions: the symbols
    hwm,        \* the mark of the last real_nav_snapshots row, 0 before the first
    adopted,    \* symbols with a row written by adoptBrokerPosition
    halted,     \* real_execution.halted
    syncDue,    \* has PORTFOLIO_SYNC_THROTTLE_MS passed since lastPortfolioSyncAt?
    sync,       \* each syncPortfolio: where it is, the symbols it holds, any drift
    adopt,      \* each adoptBrokerPosition: where it is and its symbol
    breaker,    \* the persisted circuit breaker
    tickRunning, \* the overlap guard
    timer,      \* has onModuleInit started the interval?
    loop,       \* each tick: where it is and the breaker it read
    faults      \* faults so far

pathVars == <<stage, traded, booked>>
ledgerVars == <<outside, positions, hwm, adopted>>
loopVars == <<breaker, tickRunning, timer, loop>>
accountVars == <<ledgerVars, halted, syncDue, sync, adopt>>
vars == <<pathVars, accountVars, loopVars, faults>>

Path == INSTANCE OrderPromise

-----------------------------------------------------------------------------
Held == outside \cup {s \in Orders : traded[s] > 0}

\* Mutant: only a row with a broker_order_id counts; adopted rows have none.
ExplainedByBrokerOrder(s) == s \in Orders /\ booked[s] > 0

\* detectDrift's query: a row of the symbol with filled_qty > 0.
Explained(s) == s \in adopted \/ (s \in Orders /\ booked[s] > 0)

SyncPlaces == {"idle", "fetch", "commit", "alerts", "check", "halt"}
Sync == [pc : SyncPlaces, todo : SUBSET Symbols, drifted : BOOLEAN]
IdleSync == [pc |-> "idle", todo |-> {}, drifted |-> FALSE]

Adoption == [pc : {"idle", "fetch", "write", "sync", "done"}, symbol : Symbols \cup {"none"}]
IdleAdoption == [pc |-> "idle", symbol |-> "none"]

AccountTypeOK ==
    /\ stage \in [Orders -> {"free", "recorded", "sent", "taken", "lost"}]
    /\ traded \in [Orders -> 0 .. MaxQty]
    /\ booked \in [Orders -> 0 .. MaxQty]
    /\ outside \in SUBSET HandTraded
    /\ positions \in SUBSET Symbols
    /\ hwm \in 0 .. MaxEquity
    /\ adopted \in SUBSET Symbols
    /\ halted \in BOOLEAN
    /\ syncDue \in BOOLEAN
    /\ sync \in [Syncers -> Sync]
    /\ adopt \in [Adopters -> Adoption]
    /\ faults \in 0 .. MaxFaults

Fault == faults < MaxFaults /\ faults' = faults + 1

-----------------------------------------------------------------------------
(* The world.                                                              *)

\* Fills, submissions and bookings.
PathStep == Path!Next /\ UNCHANGED <<accountVars, loopVars, faults>>

\* A position is opened or closed at the broker, by hand.
OutsideTrade ==
    /\ \E s \in HandTraded :
         outside' = IF s \in outside THEN outside \ {s} ELSE outside \cup {s}
    /\ UNCHANGED <<pathVars, positions, hwm, adopted, halted, syncDue, sync, adopt,
                   loopVars, faults>>

SyncDue ==
    /\ ~syncDue
    /\ syncDue' = TRUE
    /\ UNCHANGED <<pathVars, ledgerVars, halted, sync, adopt, loopVars, faults>>

\* clearRealExecutionHalt.
ClearHalt ==
    /\ halted
    /\ halted' = FALSE
    /\ UNCHANGED <<pathVars, ledgerVars, syncDue, sync, adopt, loopVars, faults>>

-----------------------------------------------------------------------------
(* syncPortfolio() and detectDrift(), run by a tick or by an adoption.     *)

SyncAt(p, place) == sync[p].pc = place
SyncGoto(p, place) == sync' = [sync EXCEPT ![p].pc = place]
StartSync(p) == [sync EXCEPT ![p] = [IdleSync EXCEPT !.pc = "fetch"]]
SyncOver(p) == sync' = [sync EXCEPT ![p] = IdleSync]

\* getPortfolio catches a request for the positions that fails, and answers
\* that there are none (provider-gateway.service.ts).
FetchPortfolio(p) ==
    /\ SyncAt(p, "fetch")
    /\ \E fetched \in {Held, {}} :
         /\ sync' = [sync EXCEPT ![p] = [@ EXCEPT !.pc = "commit", !.todo = fetched]]
         /\ IF fetched = Held THEN UNCHANGED faults ELSE Fault
    /\ UNCHANGED <<pathVars, ledgerVars, halted, syncDue, adopt, loopVars>>

\* getPortfolio does not know the provider, or the transaction, getActive or a
\* findFirst throws.  Nothing more is done; the caller logs it.
SyncThrows(p) ==
    /\ sync[p].pc \in {"fetch", "commit", "alerts", "check"}
    /\ Fault
    /\ SyncOver(p)
    /\ UNCHANGED <<pathVars, ledgerVars, halted, syncDue, adopt, loopVars>>

HigherOf(a, b) == IF a >= b THEN a ELSE b

\* The $transaction: deleteMany, the upserts and the snapshot.  The equity is 0
\* when the request for the account failed.
Commit(p) ==
    /\ SyncAt(p, "commit")
    /\ positions' = sync[p].todo
    /\ \E equity \in 0 .. MaxEquity : hwm' = HigherOf(hwm, equity)
    /\ SyncGoto(p, "alerts")
    /\ UNCHANGED <<pathVars, outside, adopted, halted, syncDue, adopt, loopVars, faults>>

ListAlerts(p) ==
    /\ SyncAt(p, "alerts")
    /\ SyncGoto(p, "check")
    /\ UNCHANGED <<pathVars, ledgerVars, halted, syncDue, adopt, loopVars, faults>>

CheckPosition(p) ==
    /\ SyncAt(p, "check")
    /\ \E s \in sync[p].todo :
         sync' = [sync EXCEPT ![p] = [pc |-> "check", todo |-> @.todo \ {s},
                                      drifted |-> @.drifted \/ ~Explained(s)]]
    /\ UNCHANGED <<pathVars, ledgerVars, halted, syncDue, adopt, loopVars, faults>>

DriftChecked(p) ==
    /\ SyncAt(p, "check")
    /\ sync[p].todo = {}
    /\ IF sync[p].drifted THEN SyncGoto(p, "halt") ELSE SyncOver(p)
    /\ UNCHANGED <<pathVars, ledgerVars, halted, syncDue, adopt, loopVars, faults>>

\* Mutant: drift alerts and does not halt.
DriftAlertsOnly(p) ==
    /\ SyncAt(p, "halt")
    /\ SyncOver(p)
    /\ UNCHANGED <<pathVars, ledgerVars, halted, syncDue, adopt, loopVars, faults>>

\* haltRealExecution; its failure is logged.
DriftHalts(p) ==
    /\ SyncAt(p, "halt")
    /\ \/ halted' = TRUE /\ UNCHANGED faults
       \/ Fault /\ UNCHANGED halted
    /\ SyncOver(p)
    /\ UNCHANGED <<pathVars, ledgerVars, syncDue, adopt, loopVars>>

SyncStep(p) ==
    \/ FetchPortfolio(p) \/ SyncThrows(p) \/ Commit(p) \/ ListAlerts(p)
    \/ CheckPosition(p) \/ DriftChecked(p) \/ DriftHalts(p)

-----------------------------------------------------------------------------
(* adoptBrokerPosition().                                                  *)

Adopting(a, place) == adopt' = [adopt EXCEPT ![a].pc = place]

BeginAdoption(a) ==
    /\ adopt[a].pc = "idle"
    /\ \E s \in Symbols : adopt' = [adopt EXCEPT ![a] = [pc |-> "fetch", symbol |-> s]]
    /\ UNCHANGED <<pathVars, ledgerVars, halted, syncDue, sync, loopVars, faults>>

\* The broker must report the position now; otherwise nothing is written.
CheckHeld(a) ==
    /\ adopt[a].pc = "fetch"
    /\ Adopting(a, IF adopt[a].symbol \in Held THEN "write" ELSE "done")
    /\ UNCHANGED <<pathVars, ledgerVars, halted, syncDue, sync, loopVars, faults>>

AdoptThrows(a) ==
    /\ adopt[a].pc \in {"fetch", "write"}
    /\ Fault
    /\ Adopting(a, "done")
    /\ UNCHANGED <<pathVars, ledgerVars, halted, syncDue, sync, loopVars>>

\* The $transaction of an executed intent and a filled row, then a sync.
AdoptPosition(a) ==
    /\ adopt[a].pc = "write"
    /\ adopted' = adopted \cup {adopt[a].symbol}
    /\ sync' = StartSync(a)
    /\ Adopting(a, "sync")
    /\ UNCHANGED <<pathVars, outside, positions, hwm, halted, syncDue, loopVars, faults>>

AdoptReturns(a) ==
    /\ adopt[a].pc = "sync"
    /\ SyncAt(a, "idle")
    /\ Adopting(a, "done")
    /\ UNCHANGED <<pathVars, ledgerVars, halted, syncDue, sync, loopVars, faults>>

AdoptStep(a) ==
    \/ BeginAdoption(a) \/ CheckHeld(a) \/ AdoptThrows(a)
    \/ AdoptPosition(a) \/ AdoptReturns(a)
=============================================================================
