---------------------------- MODULE IntentRouting -----------------------------
(***************************************************************************)
(* TradeIntentService (trade-intent.service.ts): recordIntent(),           *)
(* autoProcess(), approve() and reject(), with the choice between the      *)
(* paper account and the broker.  A call reads the intent, the policy, the *)
(* broker, the account and the quotes one after another, and anything else *)
(* may happen between two of its reads.  What submit() and the reconcilers *)
(* do to a real order is in RealTrading; here an order is placed at most   *)
(* once for an intent and fills at some later time.                        *)
(***************************************************************************)
EXTENDS GovernedAccount, TLC

CONSTANTS
    Intents,     \* bound: rows of trade_intents
    Cycles,      \* governed cycles, each of which records its own intents
    Callers,     \* requests of the panel that approve or reject
    Quotes,      \* what a share can be quoted at
    InitialCapital, \* PAPER_PORTFOLIO_INITIAL_CAPITAL, in hundredths
    Risk,        \* the limits of the execution policy
    SIZING_PCT,  \* sizing of an approval, 5 in the code
    MaxToday,    \* bound: days
    MaxChanges   \* bound: changes of the world: policy, verdict, halt, broker

Calls == Cycles \cup Callers
Actions == {"long", "short", "exit", "hold"}
Entries == {"long", "short"}

ASSUME RoutingAssumption ==
    /\ Cycles \cap Callers = {}
    /\ Quotes \subseteq Nat \ {0}
    /\ MaxToday \in Nat \ {0} /\ MaxChanges \in Nat /\ Symbols # {}

VARIABLES
    intent,   \* trade_intents: status, action, symbol and cycle
    account,  \* the paper portfolio row
    policy,   \* the execution.* keys that steer the route
    robust,   \* is the applied strategy's walk-forward verdict ROBUSTO and recent?
    stopped,  \* real_execution.halted
    held,     \* what the broker holds of each symbol
    orders,   \* the real orders placed: of which intent, which way, how many
    call,     \* each call: where it is and what it has read
    today,    \* the date
    changes,  \* changes of the world so far
    seen      \* history: what has been the case at some time of each call

worldVars == <<policy, robust, stopped, held, today, changes>>
routingVars == <<intent, account, worldVars, orders, call, seen>>

Policy == [autonomous : BOOLEAN, real : BOOLEAN, broker : BOOLEAN, short : BOOLEAN]
NoIntent == [status |-> "none", action |-> "hold", symbol |-> CHOOSE s \in Symbols : TRUE,
             cycle |-> "none"]
Idle == [pc |-> "idle", intent |-> "none", sizing |-> 0, dup |-> FALSE, qty |-> 0,
         policy |-> [autonomous |-> TRUE, real |-> FALSE, broker |-> FALSE, short |-> FALSE],
         mode |-> "paper", blind |-> FALSE, account |-> Opened(InitialCapital), closes |-> FALSE]

Places == {"idle", "create", "autonomous", "open", "policy", "mode", "account", "gate",
           "baseline", "quote", "store", "book", "skip", "verdict", "halt", "recheck", "size",
           "submit", "settle", "refuse", "fail", "hold"}

At(c, pc) == call[c].pc = pc
Mine(c) == intent[call[c].intent]
IsEntry(c) == Mine(c).action \in Entries
Move(c, changesTo) == call' = [call EXCEPT ![c] = changesTo]
Goto(c, pc) == Move(c, [call[c] EXCEPT !.pc = pc])
Day == today
Week == (today \div 2) + 1

\* An account set up for real money: every other policy is changes away.
RoutingInit ==
    /\ intent = [i \in Intents |-> NoIntent]
    /\ account = Opened(InitialCapital)
    /\ policy = [autonomous |-> TRUE, real |-> TRUE, broker |-> TRUE, short |-> TRUE]
    /\ robust = TRUE
    /\ stopped = FALSE
    /\ held = [s \in Symbols |-> 0]
    /\ orders = {}
    /\ call = [c \in Calls |-> Idle]
    /\ today = 1
    /\ changes = 0
    /\ seen = [c \in Calls |-> {}]

-----------------------------------------------------------------------------
(* recordIntent *)

\* Mutant: the duplicate check looks only for intents that still wait.
PriorPending(c, action, s) ==
    \E i \in Intents : /\ intent[i].status = "pending" /\ intent[i].cycle = c
                       /\ intent[i].action = action /\ intent[i].symbol = s

Prior(c, action, s) ==
    \E i \in Intents : /\ intent[i].status # "none" /\ intent[i].cycle = c
                       /\ intent[i].action = action /\ intent[i].symbol = s

\* The tool calls of one cycle are awaited one after another, so the cycle is
\* the call.  The row of intent i is not created before the next step.
RecordIntent(c) ==
    /\ c \in Cycles /\ At(c, "idle")
    /\ \E i \in Intents, action \in Actions, s \in Symbols :
         /\ intent[i].status = "none" /\ \A d \in Calls : call[d].intent # i
         /\ intent' = [intent EXCEPT ![i] = [status |-> "none", action |-> action,
                                             symbol |-> s, cycle |-> c]]
         /\ Move(c, [Idle EXCEPT !.pc = "create", !.intent = i, !.sizing = Risk.position,
                                 !.dup = Prior(c, action, s)])
    /\ UNCHANGED <<account, worldVars, orders>>

Create(c) ==
    /\ At(c, "create")
    /\ intent' = [intent EXCEPT ![call[c].intent].status =
                                   IF call[c].dup THEN "duplicate" ELSE "pending"]
    /\ IF call[c].dup THEN Move(c, Idle) ELSE Goto(c, "autonomous")
    /\ UNCHANGED <<account, worldVars, orders>>

ReadAutonomous(c) ==
    /\ At(c, "autonomous")
    /\ IF policy.autonomous THEN Goto(c, "open") ELSE Move(c, Idle)
    /\ UNCHANGED <<intent, account, worldVars, orders>>

\* autoProcess() of an intent that was decided meanwhile throws.
OpenIntent(c) ==
    /\ At(c, "open")
    /\ IF Mine(c).status = "pending" THEN Goto(c, "policy") ELSE Move(c, Idle)
    /\ UNCHANGED <<intent, account, worldVars, orders>>

Approve(c) ==
    /\ c \in Callers /\ At(c, "idle")
    /\ \E i \in Intents :
         /\ intent[i].status = "pending"
         /\ Move(c, [Idle EXCEPT !.pc = "policy", !.intent = i, !.sizing = SIZING_PCT])
    /\ UNCHANGED <<intent, account, worldVars, orders>>

Reject(c) ==
    /\ c \in Callers /\ At(c, "idle")
    /\ \E i \in Intents :
         /\ intent[i].status = "pending"
         /\ Move(c, [Idle EXCEPT !.pc = "refuse", !.intent = i])
    /\ UNCHANGED <<intent, account, worldVars, orders>>

ReadPolicy(c) ==
    /\ At(c, "policy")
    /\ Move(c, [call[c] EXCEPT !.pc = "mode", !.policy = policy])
    /\ UNCHANGED <<intent, account, worldVars, orders>>

-----------------------------------------------------------------------------
(* The route *)

Routed(c, mode) == Move(c, [call[c] EXCEPT !.pc = "account", !.mode = mode])

\* _resolveExitRouting: an exit goes where getPortfolio says the position is.
\* A provider that is not known makes it throw, and fails the intent; a request
\* for the positions that fails is caught inside it and is no positions.
RouteExit(c) ==
    /\ At(c, "mode")
    /\ Mine(c).action = "exit" /\ call[c].policy.broker
    /\ \/ Routed(c, IF held[Mine(c).symbol] # 0 THEN "real" ELSE "paper")
       \/ Move(c, [call[c] EXCEPT !.pc = "account", !.mode = "paper", !.blind = TRUE])
       \/ Goto(c, "fail")
    /\ UNCHANGED <<intent, account, worldVars, orders>>

\* Mutant: an exit, too, can follow the switch between paper and real money.
EffectiveModeOfAll(c) ==
    /\ At(c, "mode")
    /\ IF ~(call[c].policy.real /\ call[c].policy.broker) THEN Routed(c, "paper")
       ELSE IF ~IsEntry(c) THEN Routed(c, "real")
       ELSE Goto(c, "verdict")
    /\ UNCHANGED <<intent, account, worldVars, orders>>

\* _effectiveMode, whose walk-forward gate is a read of its own.
EffectiveMode(c) ==
    /\ At(c, "mode")
    /\ ~(Mine(c).action = "exit" /\ call[c].policy.broker)
    /\ IF ~(call[c].policy.real /\ call[c].policy.broker) THEN Routed(c, "paper")
       ELSE IF ~IsEntry(c) THEN Routed(c, "real")
       ELSE Goto(c, "verdict")
    /\ UNCHANGED <<intent, account, worldVars, orders>>

WalkForwardGate(c) ==
    /\ At(c, "verdict")
    /\ Routed(c, IF robust /\ (Mine(c).action = "short" => call[c].policy.short)
                 THEN "real" ELSE "paper")
    /\ UNCHANGED <<intent, account, worldVars, orders>>

\* The portfolio is read whatever the mode.  A hold is done here, and a real
\* entry without a fresh snapshot of the account fails.
LoadAccount(c) ==
    /\ At(c, "account")
    /\ \/ Mine(c).action = "hold" /\ Goto(c, "hold")
       \/ Mine(c).action # "hold"
          /\ Move(c, [call[c] EXCEPT !.account = IF call[c].mode = "paper" THEN account ELSE @,
                        !.pc = IF IsEntry(c) THEN "gate"
                               ELSE IF call[c].mode = "real" THEN "halt" ELSE "quote"])
       \/ IsEntry(c) /\ call[c].mode = "real" /\ Goto(c, "fail")
    /\ UNCHANGED <<intent, account, worldVars, orders>>

PaperGate(c) ==
    /\ At(c, "gate") /\ call[c].mode = "paper"
    /\ \E quotes \in [Symbols -> Quotes \cup {0}] :
         LET gate == EvaluateEntryGate(call[c].account, Risk, quotes, Day, Week)
         IN  Move(c, [call[c] EXCEPT
                        !.account = gate.state,
                        !.pc = IF gate.pass THEN "quote"
                               ELSE IF gate.changed THEN "baseline" ELSE "refuse"])
    /\ UNCHANGED <<intent, account, worldVars, orders>>

\* A new day or week is saved with a refusal: no fill will save it.
SaveBaseline(c) ==
    /\ At(c, "baseline")
    /\ account' = call[c].account
    /\ Goto(c, "refuse")
    /\ UNCHANGED <<intent, worldVars, orders>>

\* _passesAutoRisk on the snapshot of the broker's account.
RealGate(c) ==
    /\ At(c, "gate") /\ call[c].mode = "real"
    /\ Goto(c, "halt") \/ Goto(c, "refuse")
    /\ UNCHANGED <<intent, account, worldVars, orders>>

-----------------------------------------------------------------------------
(* Paper *)

RunPaperExecution(c) ==
    /\ At(c, "quote")
    /\ \/ Goto(c, "fail")
       \/ \E price \in Quotes :
            LET fill == ExecuteFill(Mine(c).action, Mine(c).symbol, price, call[c].account,
                                    call[c].sizing, Risk, 0)
            IN  Move(c, [call[c] EXCEPT !.pc = "store", !.account = fill.state,
                           !.closes = Mine(c).action = "exit" /\ fill.quantity # 0])
    /\ UNCHANGED <<intent, account, worldVars, orders>>

\* The whole portfolio is written from what was read before the gate.
StoreAccount(c) ==
    /\ At(c, "store")
    /\ account' = call[c].account
    /\ Goto(c, IF Mine(c).action = "exit" /\ ~call[c].closes THEN "skip" ELSE "book")
    /\ UNCHANGED <<intent, worldVars, orders>>

Decided == [hold |-> "executed", book |-> "executed", skip |-> "skipped",
            refuse |-> "rejected", fail |-> "failed", settle |-> "real_pending"]

\* Every decision is an update by id, whatever the row says by now.
Decide(c) ==
    /\ call[c].pc \in DOMAIN Decided
    /\ intent' = [intent EXCEPT ![call[c].intent].status = Decided[call[c].pc]]
    /\ Move(c, Idle)
    /\ UNCHANGED <<account, worldVars, orders>>

-----------------------------------------------------------------------------
(* Real: _checkExecuteRealPreconditions, _resolveRealSideAndQty, submit() *)

\* Mutant: the kill-switch is read once, before the route is known.
HaltUnread(c) ==
    /\ At(c, "halt")
    /\ Goto(c, "recheck")
    /\ UNCHANGED <<intent, account, worldVars, orders>>

ReadHalt(c) ==
    /\ At(c, "halt")
    /\ Goto(c, IF IsEntry(c) /\ stopped THEN "fail" ELSE "recheck")
    /\ UNCHANGED <<intent, account, worldVars, orders>>

Recheck(c) ==
    /\ At(c, "recheck")
    /\ Goto(c, IF ~call[c].policy.broker \/ (IsEntry(c) /\ ~robust) THEN "fail" ELSE "size")
    /\ UNCHANGED <<intent, account, worldVars, orders>>

\* The quote and the size.  An entry fails without a quote, with a size of 0
\* or over max_order_notional; an exit needs the position, and is a sale of
\* its magnitude.
Size(c) ==
    /\ At(c, "size")
    /\ \/ Goto(c, "fail")
       \/ /\ IsEntry(c) \/ held[Mine(c).symbol] # 0
          /\ Move(c, [call[c] EXCEPT !.pc = "submit",
                        !.qty = IF IsEntry(c) THEN 1 ELSE Magnitude(held[Mine(c).symbol])])
    /\ UNCHANGED <<intent, account, worldVars, orders>>

Side(action) == IF action = "long" THEN "buy" ELSE "sell"
OpenOrder(i) ==
    \E o \in orders : ~o.done /\ \/ o.intent = i
                                 \/ /\ intent[o.intent].symbol = intent[i].symbol
                                    /\ o.side = Side(intent[i].action)

\* submit() places an order unless one is open for the intent or the symbol
\* and side.
Submit(c) ==
    /\ At(c, "submit")
    /\ LET i == call[c].intent
       IN  orders' = IF OpenOrder(i) THEN orders
                     ELSE orders \cup {[intent |-> i, side |-> Side(Mine(c).action),
                                        qty |-> call[c].qty, done |-> FALSE]}
    /\ Goto(c, "settle")
    /\ UNCHANGED <<intent, account, worldVars>>

-----------------------------------------------------------------------------
(* The world *)

Trade(o) == IF o.side = "buy" THEN o.qty ELSE -o.qty

\* The broker fills an order and the reconciler books it.
BrokerFills ==
    /\ \E o \in orders :
         /\ ~o.done
         /\ held' = [held EXCEPT ![intent[o.intent].symbol] = @ + Trade(o)]
         /\ orders' = (orders \ {o}) \cup {[o EXCEPT !.done = TRUE]}
         /\ intent' = [intent EXCEPT ![o.intent].status = "executed"]
    /\ UNCHANGED <<account, policy, robust, stopped, today, changes, call>>

\* setPolicy() writes one key at a time.
SetPolicy ==
    /\ changes < MaxChanges
    /\ \E key \in DOMAIN policy : policy' = [policy EXCEPT ![key] = ~@]
    /\ changes' = changes + 1
    /\ UNCHANGED <<intent, account, robust, stopped, held, today, orders, call>>

VerdictChanges ==
    /\ changes < MaxChanges
    /\ robust' = ~robust
    /\ changes' = changes + 1
    /\ UNCHANGED <<intent, account, policy, stopped, held, today, orders, call>>

SwitchChanges ==
    /\ changes < MaxChanges
    /\ stopped' = ~stopped
    /\ changes' = changes + 1
    /\ UNCHANGED <<intent, account, policy, robust, held, today, orders, call>>

TomorrowComes ==
    /\ today < MaxToday
    /\ today' = today + 1
    /\ UNCHANGED <<intent, account, policy, robust, stopped, held, changes, orders, call>>

CallMoves(c) ==
    \/ RecordIntent(c) \/ Create(c) \/ ReadAutonomous(c) \/ OpenIntent(c)
    \/ Approve(c) \/ Reject(c) \/ ReadPolicy(c)
    \/ RouteExit(c) \/ EffectiveMode(c) \/ WalkForwardGate(c)
    \/ LoadAccount(c) \/ PaperGate(c) \/ SaveBaseline(c) \/ RealGate(c)
    \/ RunPaperExecution(c) \/ StoreAccount(c) \/ Decide(c)
    \/ ReadHalt(c) \/ Recheck(c) \/ Size(c) \/ Submit(c)

WorldMoves == BrokerFills \/ SetPolicy \/ VerdictChanges \/ SwitchChanges \/ TomorrowComes

\* What call c can have read, now: the conditions of a real entry, a broker
\* that holds nothing of its symbol, and one that did not answer.
Facts(c) ==
    {f \in {"real", "short", "robust", "running", "flat", "blind"} :
       CASE f = "real"    -> policy.real /\ policy.broker
         [] f = "short"   -> policy.short
         [] f = "robust"  -> robust
         [] f = "running" -> ~stopped
         [] f = "flat"    -> call[c].pc # "idle" /\ held[Mine(c).symbol] = 0
         [] f = "blind"   -> call[c].blind}

Watch == seen' = [c \in Calls |-> IF call'[c].pc = "idle" THEN {} ELSE seen[c] \cup Facts(c)']

RoutingNext ==
    \/ (\E c \in Calls : CallMoves(c)) /\ Watch
    \/ WorldMoves /\ Watch

RoutingSpec == RoutingInit /\ [][RoutingNext]_routingVars

-----------------------------------------------------------------------------
RoutingTypeOK ==
    /\ \A i \in Intents :
         /\ intent[i].status \in {"none", "pending", "duplicate", "real_pending"}
                                   \cup {Decided[pc] : pc \in DOMAIN Decided}
         /\ intent[i].action \in Actions /\ intent[i].symbol \in Symbols
    /\ policy \in Policy
    /\ {robust, stopped} \subseteq BOOLEAN
    /\ held \in [Symbols -> Int]
    /\ \A o \in orders : o.intent \in Intents /\ o.side \in {"buy", "sell"} /\ o.qty \in Nat
    /\ \A c \in Calls :
         /\ call[c].pc \in Places /\ call[c].policy \in Policy
         /\ call[c].pc # "idle" => call[c].intent \in Intents
    /\ today \in 1 .. MaxToday /\ changes \in 0 .. MaxChanges

\* Real money is only put at risk with every switch on: whatever changes
\* while a call is under way, an entry reaches submit() only if the policy
\* asked for real money and named a broker, the verdict was ROBUSTO and
\* recent, the kill-switch was off, and a short was allowed, each at some
\* time since the call began.
EntryWasPermitted ==
    \A c \in Calls :
      call[c].pc = "submit" /\ IsEntry(c) =>
        /\ {"real", "robust", "running"} \subseteq seen[c]
        /\ Mine(c).action = "short" => "short" \in seen[c]

PaperExit(c) ==
    /\ call[c].pc \in {"quote", "store", "book", "skip"}
    /\ Mine(c).action = "exit" /\ call[c].policy.broker

\* No false "closed": while a broker is configured, an exit is carried out on
\* the paper account only if the broker held nothing of the symbol at some
\* time since the call began, whatever execution.real says.  Its failure to
\* list the positions is the exception: see NoExitByGuess.
ExitFollowsPosition ==
    \A c \in Calls : PaperExit(c) => {"flat", "blind"} \cap seen[c] # {}

\* _resolveExitRouting of a broker query that fails: "NEVER place a sell order
\* and NEVER report a false paper 'executed'" (trade-intent.service.ts:887).
NoExitByGuess ==
    \A c \in Calls : PaperExit(c) => "flat" \in seen[c]

\* A cycle acts once on each symbol and action it names: every repetition of
\* a tool call within it is a row of status duplicate.
OneIntentPerSignal ==
    \A i, j \in Intents :
      /\ i # j
      /\ {intent[i].status, intent[j].status} \cap {"none", "duplicate"} = {}
      => <<intent[i].cycle, intent[i].action, intent[i].symbol>>
           # <<intent[j].cycle, intent[j].action, intent[j].symbol>>
=============================================================================
