--------------------------------- MODULE Pretest -------------------------------
(***************************************************************************)
(* PretestService (pretest.service.ts): one portfolio, the cycles over it  *)
(* that the scheduler and the operator can have under way together, what   *)
(* the operator does to its row meanwhile, and its promotion.  A cycle     *)
(* reads the row, goes through hooks, market data and the model, and       *)
(* writes the whole state back.                                            *)
(***************************************************************************)
EXTENDS PretestBook

CONSTANTS
    CycleRuns,       \* calls of runCycle that can be under way together
    INITIAL_CAPITAL,
    PretestQuotes,          \* prices of a cycle, symbol by symbol; 0 stands for none
    Orders,          \* sequences of tool calls a cycle can bring
    MaxPretestCycles, MaxRowEdits  \* bounds

ASSUME PretestAssumption ==
    /\ {INITIAL_CAPITAL, MaxPretestCycles, MaxRowEdits} \subseteq Nat
    /\ PretestQuotes \subseteq [Assets -> Nat] /\ Orders \subseteq Seq(Call)

VARIABLES
    row,        \* the portfolio's row
    inCycle,    \* what each runCycle holds between its read and its write
    promotion,  \* promote(): where it is, what its gate said
    live,       \* the portfolio's plugin, outside: active, and whose configuration it has
    rating,     \* the plugin's reputation_score, and whether it is being computed
    requireConfirm,  \* KV promotion.require_human_confirm
    cyclesBegun, rowEdits,
    earned      \* history: the gate was ready in some state of the row it could have read

pretestVars == <<row, inCycle, promotion, live, rating, requireConfirm, cyclesBegun, rowEdits, earned>>

Away == [pc |-> "away", read |-> DEFAULT_STATE(0)]
NoPromotion == [pc |-> "none", confirm |-> FALSE]

PretestInit ==
    /\ row = [state |-> DEFAULT_STATE(INITIAL_CAPITAL), active |-> TRUE, exists |-> TRUE, run_count |-> 0]
    /\ inCycle = [c \in CycleRuns |-> Away]
    /\ promotion = NoPromotion
    /\ live = [active |-> FALSE, config |-> "own"]
    /\ rating = [computing |-> FALSE, scored |-> FALSE]
    /\ requireConfirm = TRUE
    /\ cyclesBegun = 0 /\ rowEdits = 0
    /\ earned = GateReady(DEFAULT_STATE(INITIAL_CAPITAL))

RunCycleReads(c) ==
    /\ inCycle[c].pc = "away" /\ cyclesBegun < MaxPretestCycles
    /\ row.exists /\ row.active
    /\ inCycle' = [inCycle EXCEPT ![c] = [pc |-> "turn", read |-> row.state]]
    /\ cyclesBegun' = cyclesBegun + 1
    /\ UNCHANGED <<row, promotion, live, rating, requireConfirm, rowEdits, earned>>

\* The update throws when the row is gone; is_active is not looked at again.
RunCycleWrites(c) ==
    /\ inCycle[c].pc = "turn"
    /\ \E calls \in Orders, price \in PretestQuotes,
         calm \in BOOLEAN, throttle \in {0, 1} :
         row' = IF row.exists
                THEN [row EXCEPT !.state = CycleOutcome(inCycle[c].read, calls, price, calm, throttle),
                                 !.run_count = @ + 1]
                ELSE row
    /\ inCycle' = [inCycle EXCEPT ![c] = Away]
    /\ earned' = (earned \/ GateReady(row'.state))
    /\ UNCHANGED <<promotion, live, rating, requireConfirm, cyclesBegun, rowEdits>>

RunCycleFails(c) ==
    /\ inCycle[c].pc = "turn"
    /\ inCycle' = [inCycle EXCEPT ![c] = Away]
    /\ UNCHANGED <<row, promotion, live, rating, requireConfirm, cyclesBegun, rowEdits, earned>>

RowEdited == rowEdits < MaxRowEdits /\ rowEdits' = rowEdits + 1

ResetPortfolio ==
    /\ RowEdited /\ row.exists
    /\ row' = [row EXCEPT !.state = DEFAULT_STATE(INITIAL_CAPITAL), !.run_count = 0]
    /\ UNCHANGED <<inCycle, promotion, live, rating, requireConfirm, cyclesBegun, earned>>

UpdatePortfolio ==
    /\ RowEdited /\ row.exists
    /\ row' = [row EXCEPT !.active = ~@]
    /\ UNCHANGED <<inCycle, promotion, live, rating, requireConfirm, cyclesBegun, earned>>

DeletePortfolio ==
    /\ RowEdited /\ row.exists
    /\ row' = [row EXCEPT !.exists = FALSE]
    /\ UNCHANGED <<inCycle, promotion, live, rating, requireConfirm, cyclesBegun, earned>>

SetRequireConfirm ==
    /\ RowEdited
    /\ requireConfirm' = ~requireConfirm
    /\ UNCHANGED <<row, inCycle, promotion, live, rating, cyclesBegun, earned>>

-----------------------------------------------------------------------------
(* promote(): gate, confirmation, then activate() and setConfig() *)

\* The panel's call; a portfolio that is not there ends it.
PanelPromotes ==
    /\ promotion.pc = "none" /\ row.exists
    /\ \E confirm \in BOOLEAN : promotion' = [pc |-> "gate", confirm |-> confirm]
    /\ UNCHANGED <<row, inCycle, live, rating, requireConfirm, cyclesBegun, rowEdits, earned>>

\* kernel__promote_pretest of a reflection, once its intent is in the audit log:
\* without confirm.
ModelPromotes ==
    /\ promotion.pc = "none" /\ row.exists
    /\ promotion' = [pc |-> "gate", confirm |-> FALSE]
    /\ UNCHANGED <<row, inCycle, live, rating, requireConfirm, cyclesBegun, rowEdits, earned>>

\* Mutant: a gate that throws lets the promotion through.
GateSaysOpen == GateReady(row.state) \/ ~row.exists

GateSays == GateReady(row.state) /\ row.exists

\* gate() starts a recomputation when it is ready, and only then.
RatesIfReady == rating' = [rating EXCEPT !.computing = @ \/ GateSays]

PromoteLooksAtGate ==
    /\ promotion.pc = "gate"
    /\ promotion' = IF GateSays THEN [promotion EXCEPT !.pc = "confirm"] ELSE NoPromotion
    /\ RatesIfReady
    /\ UNCHANGED <<row, inCycle, live, requireConfirm, cyclesBegun, rowEdits, earned>>

\* GET gate: the same gate, and nothing after it.
PanelLooksAtGate ==
    /\ row.exists
    /\ RatesIfReady
    /\ UNCHANGED <<row, inCycle, promotion, live, requireConfirm, cyclesBegun, rowEdits, earned>>

\* _recomputePluginReputations(), which gate() does not wait for, reads the
\* portfolios again; only one that is ready counts.  A failure is only logged.
RecomputeReputation ==
    /\ rating.computing
    /\ rating' \in {[computing |-> FALSE, scored |-> row.exists /\ GateReady(row.state)],
                    [rating EXCEPT !.computing = FALSE]}
    /\ UNCHANGED <<row, inCycle, promotion, live, requireConfirm, cyclesBegun, rowEdits, earned>>

PromoteAsksConfirm ==
    /\ promotion.pc = "confirm"
    /\ promotion' = IF requireConfirm /\ ~promotion.confirm THEN NoPromotion
                    ELSE [promotion EXCEPT !.pc = "activate"]
    /\ UNCHANGED <<row, inCycle, live, rating, requireConfirm, cyclesBegun, rowEdits, earned>>

\* A plugin that cannot be activated keeps its configuration.
PromoteActivates ==
    /\ promotion.pc = "activate"
    /\ \/ promotion' = [promotion EXCEPT !.pc = "setConfig"] /\ live' = [live EXCEPT !.active = TRUE]
       \/ promotion' = NoPromotion /\ UNCHANGED live
    /\ UNCHANGED <<row, inCycle, rating, requireConfirm, cyclesBegun, rowEdits, earned>>

PromoteSetsConfig ==
    /\ promotion.pc = "setConfig"
    /\ promotion' = NoPromotion
    /\ live' \in {live, [live EXCEPT !.config = "pretest"]}
    /\ UNCHANGED <<row, inCycle, rating, requireConfirm, cyclesBegun, rowEdits, earned>>

PretestNext ==
    \/ \E c \in CycleRuns : RunCycleReads(c) \/ RunCycleWrites(c) \/ RunCycleFails(c)
    \/ ResetPortfolio \/ UpdatePortfolio \/ DeletePortfolio \/ SetRequireConfirm
    \/ PanelLooksAtGate \/ RecomputeReputation
    \/ PanelPromotes \/ ModelPromotes \/ PromoteLooksAtGate \/ PromoteAsksConfirm \/ PromoteActivates \/ PromoteSetsConfig

PretestSpec == PretestInit /\ [][PretestNext]_pretestVars

-----------------------------------------------------------------------------
PretestTypeOK ==
    /\ row.state.open \subseteq Assets /\ row.run_count \in Nat
    /\ {row.active, row.exists, requireConfirm, live.active, earned} \subseteq BOOLEAN
    /\ rating \in [computing : BOOLEAN, scored : BOOLEAN]
    /\ \A c \in CycleRuns : inCycle[c].pc \in {"away", "turn"}
    /\ promotion.pc \in {"none", "gate", "confirm", "activate", "setConfig"}
    /\ live.config \in {"own", "pretest"}
    /\ cyclesBegun \in 0 .. MaxPretestCycles /\ rowEdits \in 0 .. MaxRowEdits

BasisOf(st) == [s \in Assets |-> st.held[s].basis]
Conserved(st) == st.cash + SumFunction(BasisOf(st)) = INITIAL_CAPITAL + st.realized

\* Cash, cost of the positions and realized gain account for the capital,
\* partial exits and covers included, while no buy has met a short position.
BookConserves == ~row.state.crossed => Conserved(row.state)

\* Nothing of a portfolio reaches the plugins that trade, and no plugin gets a
\* reputation from it, unless the portfolio has stood the gate, whatever happens
\* to it during promote() or while the reputation is computed.
PromotionIsEarned == (live.active \/ live.config = "pretest" \/ rating.scored) => earned
=============================================================================
