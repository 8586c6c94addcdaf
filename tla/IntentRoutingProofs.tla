-------------------------- MODULE IntentRoutingProofs --------------------------
(***************************************************************************)
(* Theorems about the routing of intents between the paper account and the *)
(* broker (IntentRouting), for any number of intents, cycles and requests  *)
(* of the panel, any symbols and quotes, and any changes of the policy,    *)
(* the verdict, the kill-switch and the broker's positions in between.     *)
(***************************************************************************)
EXTENDS IntentRouting, TLAPS

\* The fields of a call and of a row.
Shaped(r) ==
    r = [pc |-> r.pc, intent |-> r.intent, sizing |-> r.sizing, dup |-> r.dup, qty |-> r.qty,
         policy |-> r.policy, mode |-> r.mode, blind |-> r.blind, account |-> r.account,
         closes |-> r.closes]
RowShaped(r) ==
    r = [status |-> r.status, action |-> r.action, symbol |-> r.symbol, cycle |-> r.cycle]

OnTheWay == {"create", "autonomous", "open", "policy", "mode", "verdict"}

\* A call is on the real route with an entry only if the policy it has read
\* allows it, and what that policy says was the case since the call began.
OfItsPolicy(c) ==
    /\ call[c].pc \in OnTheWay => call[c].mode = "paper"
    /\ call[c].policy.real /\ call[c].policy.broker => "real" \in seen[c]
    /\ call[c].policy.short => "short" \in seen[c]
    /\ call[c].pc # "idle" /\ call[c].mode = "real" /\ IsEntry(c) =>
         /\ call[c].policy.real /\ call[c].policy.broker
         /\ Mine(c).action = "short" => call[c].policy.short
    /\ call[c].pc = "verdict" => call[c].policy.real /\ call[c].policy.broker

\* Behind each read of the real route stands what it has read.
OfItsReads(c) ==
    /\ call[c].pc \in {"gate", "verdict"} => IsEntry(c)
    /\ call[c].pc \in {"halt", "recheck", "size", "submit"} => call[c].mode = "real"
    /\ call[c].pc \in {"recheck", "size", "submit"} /\ IsEntry(c) => "running" \in seen[c]
    /\ call[c].pc \in {"size", "submit"} /\ IsEntry(c) => "robust" \in seen[c]

\* An exit that goes to paper in spite of a broker has found no position there.
OfItsPosition(c) ==
    /\ call[c].pc = "account" /\ call[c].mode = "paper" /\ Mine(c).action = "exit"
         /\ call[c].policy.broker => {"flat", "blind"} \cap seen[c] # {}
    /\ PaperExit(c) => {"flat", "blind"} \cap seen[c] # {}

RouteInv(c) ==
    /\ Shaped(call[c]) /\ call[c].mode \in {"paper", "real"}
    /\ IF call[c].pc = "idle" THEN call[c] = Idle ELSE call[c].intent \in Intents
    /\ OfItsPolicy(c) /\ OfItsReads(c) /\ OfItsPosition(c)

RoutingInv ==
    /\ DOMAIN call = Calls /\ call = [c \in Calls |-> call[c]]
    /\ intent = [i \in Intents |-> intent[i]] /\ \A i \in Intents : RowShaped(intent[i])
    /\ \A c \in Calls : RouteInv(c)

\* What a step leaves of the row a call is about.
SameRows ==
    \A c \in Calls : call[c].pc # "idle" =>
      /\ intent'[call[c].intent].action = intent[call[c].intent].action
      /\ intent'[call[c].intent].symbol = intent[call[c].intent].symbol

-----------------------------------------------------------------------------
\* What is the case now has been seen, and what has been seen stays so.
LEMMA SeenNow ==
    ASSUME Watch, NEW c \in Calls
    PROVE  /\ call'[c].pc # "idle" =>
                /\ seen[c] \subseteq seen'[c]
                /\ policy'.real /\ policy'.broker => "real" \in seen'[c]
                /\ policy'.short => "short" \in seen'[c]
                /\ robust' => "robust" \in seen'[c]
                /\ ~stopped' => "running" \in seen'[c]
                /\ held'[intent'[call'[c].intent].symbol] = 0 => "flat" \in seen'[c]
                /\ call'[c].blind => "blind" \in seen'[c]
<1> SUFFICES ASSUME call'[c].pc # "idle"
             PROVE  /\ seen[c] \subseteq seen'[c]
                    /\ policy'.real /\ policy'.broker => "real" \in seen'[c]
                    /\ policy'.short => "short" \in seen'[c]
                    /\ robust' => "robust" \in seen'[c]
                    /\ ~stopped' => "running" \in seen'[c]
                    /\ held'[intent'[call'[c].intent].symbol] = 0 => "flat" \in seen'[c]
                    /\ call'[c].blind => "blind" \in seen'[c]
  OBVIOUS
<1>1. seen'[c] = seen[c] \cup Facts(c)'
  BY DEF Watch
<1>2. policy'.real /\ policy'.broker => "real" \in Facts(c)'
  BY DEF Facts
<1>3. policy'.short => "short" \in Facts(c)'
  BY DEF Facts
<1>4. robust' => "robust" \in Facts(c)'
  BY DEF Facts
<1>5. ~stopped' => "running" \in Facts(c)'
  BY DEF Facts
<1>6. held'[intent'[call'[c].intent].symbol] = 0 => "flat" \in Facts(c)'
  BY DEF Facts, Mine
<1>7. call'[c].blind => "blind" \in Facts(c)'
  BY DEF Facts
<1> QED BY <1>1, <1>2, <1>3, <1>4, <1>5, <1>6, <1>7

LEMMA IdleTyped ==
    /\ Shaped(Idle) /\ Idle.pc = "idle" /\ Idle.mode = "paper" /\ Idle.intent = "none"
    /\ Idle.policy.real = FALSE /\ Idle.policy.broker = FALSE /\ Idle.policy.short = FALSE
BY DEF Idle, Shaped

\* A call that is idle satisfies all there is.
LEMMA IdleIsFine == ASSUME NEW c \in Calls, call[c] = Idle PROVE RouteInv(c)
<1>1. /\ Shaped(call[c]) /\ call[c].pc = "idle" /\ call[c].mode = "paper"
      /\ ~call[c].policy.real /\ ~call[c].policy.short
  BY IdleTyped
<1> QED BY <1>1 DEF RouteInv, OfItsPolicy, OfItsReads, OfItsPosition, PaperExit, OnTheWay

\* The same of a call that has just ended.
LEMMA EndedIsFine == ASSUME NEW c \in Calls, call'[c] = Idle PROVE RouteInv(c)'
<1>1. /\ Shaped(call'[c]) /\ call'[c].pc = "idle" /\ call'[c].mode = "paper"
      /\ ~call'[c].policy.real /\ ~call'[c].policy.short
  BY IdleTyped
<1> QED BY <1>1 DEF RouteInv, OfItsPolicy, OfItsReads, OfItsPosition, PaperExit, OnTheWay

LEMMA RoutingStarts == RoutingInit => RoutingInv
<1> SUFFICES ASSUME RoutingInit PROVE RoutingInv OBVIOUS
<1>1. /\ call = [c \in Calls |-> Idle] /\ intent = [i \in Intents |-> NoIntent]
  BY DEF RoutingInit
<1>2. RowShaped(NoIntent)
  BY DEF RowShaped, NoIntent
<1>3. \A c \in Calls : RouteInv(c)
  BY <1>1, IdleIsFine
<1> QED BY <1>1, <1>2, <1>3 DEF RoutingInv

\* A call under way goes on about the same row, and knows what it knew.
LEMMA RowStays ==
    ASSUME NEW c \in Calls, SameRows, call[c].pc # "idle", call'[c].intent = call[c].intent
    PROVE  /\ Mine(c)'.action = Mine(c).action /\ IsEntry(c)' = IsEntry(c)
           /\ intent'[call'[c].intent].symbol = Mine(c).symbol
BY DEF SameRows, Mine, IsEntry

\* A call that a step leaves alone keeps what it knows.
LEMMA OtherCallKeeps ==
    ASSUME NEW c \in Calls, RouteInv(c), Watch, call'[c] = call[c], SameRows
    PROVE  RouteInv(c)'
<1>1. CASE call[c].pc = "idle"
  BY <1>1, EndedIsFine DEF RouteInv
<1>2. CASE call[c].pc # "idle"
  <2>1. seen[c] \subseteq seen'[c]
    BY <1>2, SeenNow
  <2>2. Mine(c)'.action = Mine(c).action /\ IsEntry(c)' = IsEntry(c)
    BY <1>2, RowStays
  <2>3. OfItsPolicy(c)'
    BY <2>1, <2>2 DEF RouteInv, OfItsPolicy
  <2>4. OfItsReads(c)'
    BY <2>1, <2>2 DEF RouteInv, OfItsReads
  <2>5. OfItsPosition(c)'
    BY <2>1, <2>2 DEF RouteInv, OfItsPosition, PaperExit
  <2> QED BY <1>2, <2>3, <2>4, <2>5 DEF RouteInv, Shaped
<1> QED BY <1>1, <1>2

\* A step of one call keeps the invariant if that call satisfies it again.
LEMMA MoveKeeps ==
    ASSUME RoutingInv, Watch, SameRows, NEW c \in Calls, NEW n, Move(c, n), RouteInv(c)',
           intent' = [i \in Intents |-> intent'[i]], \A i \in Intents : RowShaped(intent'[i])
    PROVE  RoutingInv'
<1>1. call' = [d \in Calls |-> call'[d]] /\ DOMAIN call' = Calls
  BY DEF RoutingInv, Move
<1>2. ASSUME NEW d \in Calls PROVE RouteInv(d)'
  <2>1. CASE d = c
    BY <2>1
  <2>2. CASE d # c
    <3>1. call'[d] = call[d]
      BY <2>2 DEF RoutingInv, Move
    <3> QED BY <3>1, OtherCallKeeps DEF RoutingInv
  <2> QED BY <2>1, <2>2
<1> QED BY <1>1, <1>2 DEF RoutingInv

LEMMA MoveAloneKeeps ==
    ASSUME RoutingInv, Watch, UNCHANGED intent, NEW c \in Calls, NEW n, Move(c, n), RouteInv(c)'
    PROVE  RoutingInv'
<1>1. SameRows
  BY DEF SameRows
<1>2. intent' = [i \in Intents |-> intent'[i]] /\ \A i \in Intents : RowShaped(intent'[i])
  BY DEF RoutingInv, RowShaped
<1> QED BY <1>1, <1>2, MoveKeeps

\* A call that ends.
LEMMA EndKeeps ==
    ASSUME RoutingInv, Watch, UNCHANGED intent, NEW c \in Calls, Move(c, Idle)
    PROVE  RoutingInv'
<1>1. call'[c] = Idle
  BY DEF Move, RoutingInv
<1> QED BY <1>1, EndedIsFine, MoveAloneKeeps

\* A call that goes on, on the route it is on, to a place whose reads are
\* behind it.
LEMMA GoOnIsFine ==
    ASSUME RoutingInv, Watch, SameRows, NEW c \in Calls, call[c].pc # "idle",
           NEW n, Move(c, n), Shaped(n), n.intent = call[c].intent, n.mode = call[c].mode,
           n.policy = call[c].policy, n.pc \notin {"idle", "account"},
           n.pc \in OnTheWay => call[c].mode = "paper",
           n.pc = "verdict" => call[c].policy.real /\ call[c].policy.broker,
           n.pc \in {"gate", "verdict"} => IsEntry(c),
           n.pc \in {"halt", "recheck", "size", "submit"} => call[c].mode = "real",
           n.pc \in {"recheck", "size", "submit"} /\ IsEntry(c) => "running" \in seen'[c],
           n.pc \in {"size", "submit"} /\ IsEntry(c) => "robust" \in seen'[c],
           n.pc \in {"quote", "store", "book", "skip"} =>
             PaperExit(c) \/ ~(Mine(c).action = "exit" /\ call[c].policy.broker)
    PROVE  RouteInv(c)'
<1>1. RouteInv(c)
  BY DEF RoutingInv
<1>3. call'[c] = n
  BY DEF Move, RoutingInv
<1>4. seen[c] \subseteq seen'[c]
  BY <1>3, SeenNow
<1>6. Mine(c)'.action = Mine(c).action /\ IsEntry(c)' = IsEntry(c)
  BY <1>3, RowStays
<1>7. OfItsPolicy(c)'
  BY <1>1, <1>3, <1>4, <1>6 DEF RouteInv, OfItsPolicy
<1>8. OfItsReads(c)'
  BY <1>1, <1>3, <1>4, <1>6 DEF RouteInv, OfItsReads
<1>9. OfItsPosition(c)'
  BY <1>1, <1>3, <1>4, <1>6 DEF RouteInv, OfItsPosition, PaperExit
<1> QED
  BY <1>1, <1>3, <1>7, <1>8, <1>9 DEF RouteInv

LEMMA GoOnKeeps ==
    ASSUME RoutingInv, Watch, UNCHANGED intent, NEW c \in Calls, call[c].pc # "idle",
           NEW n, Move(c, n), Shaped(n), n.intent = call[c].intent, n.mode = call[c].mode,
           n.policy = call[c].policy, n.pc \notin {"idle", "account"},
           n.pc \in OnTheWay => call[c].mode = "paper",
           n.pc = "verdict" => call[c].policy.real /\ call[c].policy.broker,
           n.pc \in {"gate", "verdict"} => IsEntry(c),
           n.pc \in {"halt", "recheck", "size", "submit"} => call[c].mode = "real",
           n.pc \in {"recheck", "size", "submit"} /\ IsEntry(c) => "running" \in seen'[c],
           n.pc \in {"size", "submit"} /\ IsEntry(c) => "robust" \in seen'[c],
           n.pc \in {"quote", "store", "book", "skip"} =>
             PaperExit(c) \/ ~(Mine(c).action = "exit" /\ call[c].policy.broker)
    PROVE  RoutingInv'
<1>1. SameRows
  BY DEF SameRows
<1>2. RouteInv(c)'
  BY <1>1, GoOnIsFine
<1> QED BY <1>2, MoveAloneKeeps

\* A call that changes its place and nothing else.
LEMMA GotoKeeps ==
    ASSUME RoutingInv, Watch, UNCHANGED intent, NEW c \in Calls, call[c].pc # "idle",
           NEW p, Goto(c, p), p \notin {"idle", "account"},
           p \in OnTheWay => call[c].mode = "paper",
           p = "verdict" => call[c].policy.real /\ call[c].policy.broker,
           p \in {"gate", "verdict"} => IsEntry(c),
           p \in {"halt", "recheck", "size", "submit"} => call[c].mode = "real",
           p \in {"recheck", "size", "submit"} /\ IsEntry(c) => "running" \in seen'[c],
           p \in {"size", "submit"} /\ IsEntry(c) => "robust" \in seen'[c],
           p \in {"quote", "store", "book", "skip"} =>
             PaperExit(c) \/ ~(Mine(c).action = "exit" /\ call[c].policy.broker)
    PROVE  RoutingInv'
<1> DEFINE n == [call[c] EXCEPT !.pc = p]
<1>1. Shaped(call[c])
  BY DEF RoutingInv, RouteInv
<1>2. /\ Shaped(n) /\ n.pc = p /\ n.intent = call[c].intent /\ n.mode = call[c].mode
      /\ n.policy = call[c].policy
  BY <1>1 DEF Shaped
<1>3. Move(c, n)
  BY DEF Goto
<1> HIDE DEF n
<1> QED BY <1>2, <1>3, GoOnKeeps

-----------------------------------------------------------------------------
\* The steps that go to another place or end.
LEMMA PlacesKeep ==
    ASSUME RoutingInv, Watch, NEW c \in Calls,
           \/ ReadAutonomous(c) \/ OpenIntent(c) \/ SaveBaseline(c) \/ RealGate(c)
           \/ StoreAccount(c) \/ ReadHalt(c) \/ Recheck(c) \/ Submit(c)
    PROVE  RoutingInv'
<1>1. RouteInv(c)
  BY DEF RoutingInv
<1>2. CASE ReadAutonomous(c)
  <2>1. At(c, "autonomous") /\ UNCHANGED intent /\ (Goto(c, "open") \/ Move(c, Idle))
    BY <1>2 DEF ReadAutonomous
  <2> QED BY <1>1, <2>1, GotoKeeps, EndKeeps DEF At, RouteInv, OfItsPolicy, OnTheWay
<1>3. CASE OpenIntent(c)
  <2>1. At(c, "open") /\ UNCHANGED intent /\ (Goto(c, "policy") \/ Move(c, Idle))
    BY <1>3 DEF OpenIntent
  <2> QED BY <1>1, <2>1, GotoKeeps, EndKeeps DEF At, RouteInv, OfItsPolicy, OnTheWay
<1>4. CASE SaveBaseline(c)
  <2>1. At(c, "baseline") /\ UNCHANGED intent /\ Goto(c, "refuse")
    BY <1>4 DEF SaveBaseline
  <2> QED BY <2>1, GotoKeeps DEF At, OnTheWay
<1>5. CASE RealGate(c)
  <2>1. /\ At(c, "gate") /\ call[c].mode = "real" /\ UNCHANGED intent
        /\ Goto(c, "halt") \/ Goto(c, "refuse")
    BY <1>5 DEF RealGate
  <2> QED BY <2>1, GotoKeeps DEF At, OnTheWay
<1>6. CASE StoreAccount(c)
  <2>1. At(c, "store") /\ UNCHANGED intent /\ (Goto(c, "skip") \/ Goto(c, "book"))
    BY <1>6 DEF StoreAccount
  <2>2. PaperExit(c) \/ ~(Mine(c).action = "exit" /\ call[c].policy.broker)
    BY <2>1 DEF PaperExit, At
  <2> QED BY <2>1, <2>2, GotoKeeps DEF At, OnTheWay
<1>7. CASE ReadHalt(c)
  <2>1. /\ At(c, "halt") /\ UNCHANGED <<intent, stopped>>
        /\ Goto(c, "fail") \/ (Goto(c, "recheck") /\ ~(IsEntry(c) /\ stopped))
    BY <1>7 DEF ReadHalt, worldVars
  <2>2. CASE Goto(c, "fail")
    BY <2>1, <2>2, GotoKeeps DEF At, OnTheWay
  <2>3. CASE Goto(c, "recheck") /\ ~(IsEntry(c) /\ stopped)
    <3>1. call'[c].pc # "idle"
      BY <2>3 DEF Goto, Move, RoutingInv, RouteInv, Shaped
    <3>2. IsEntry(c) => "running" \in seen'[c]
      BY <2>1, <2>3, <3>1, SeenNow
    <3>3. call[c].mode = "real"
      BY <1>1, <2>1 DEF RouteInv, OfItsReads, At
    <3> QED BY <2>1, <2>3, <3>2, <3>3, GotoKeeps DEF At, OnTheWay
  <2> QED BY <2>1, <2>2, <2>3
<1>8. CASE Recheck(c)
  <2>1. /\ At(c, "recheck") /\ UNCHANGED <<intent, robust>>
        /\ Goto(c, "fail") \/ (Goto(c, "size") /\ ~(IsEntry(c) /\ ~robust))
    BY <1>8 DEF Recheck, worldVars
  <2>2. CASE Goto(c, "fail")
    BY <2>1, <2>2, GotoKeeps DEF At, OnTheWay
  <2>3. CASE Goto(c, "size") /\ ~(IsEntry(c) /\ ~robust)
    <3>1. call'[c].pc # "idle"
      BY <2>3 DEF Goto, Move, RoutingInv, RouteInv, Shaped
    <3>2. IsEntry(c) => {"robust", "running"} \subseteq seen'[c]
      BY <1>1, <2>1, <2>3, <3>1, SeenNow DEF RouteInv, OfItsReads, At
    <3>3. call[c].mode = "real"
      BY <1>1, <2>1 DEF RouteInv, OfItsReads, At
    <3> QED BY <2>1, <2>3, <3>2, <3>3, GotoKeeps DEF At, OnTheWay
  <2> QED BY <2>1, <2>2, <2>3
<1>9. CASE Submit(c)
  <2>1. At(c, "submit") /\ UNCHANGED intent /\ Goto(c, "settle")
    BY <1>9 DEF Submit
  <2> QED BY <2>1, GotoKeeps DEF At, OnTheWay
<1> QED BY <1>2, <1>3, <1>4, <1>5, <1>6, <1>7, <1>8, <1>9

\* The fields of a call that has read something and goes on.
WithAccount(r, a, p) == [r EXCEPT !.account = a, !.pc = p]
WithFill(r, a, k, p) == [r EXCEPT !.pc = p, !.account = a, !.closes = k]
WithSize(r, q, p) == [r EXCEPT !.pc = p, !.qty = q]
SameRoute(w, r, p) ==
    Shaped(w) /\ w.intent = r.intent /\ w.mode = r.mode /\ w.policy = r.policy /\ w.pc = p

LEMMA ReadsAccount ==
    ASSUME NEW r, Shaped(r), NEW p, NEW a
    PROVE  SameRoute(WithAccount(r, a, p), r, p)
<1> DEFINE m == [r EXCEPT !.account = a]
           n == [m EXCEPT !.pc = p]
<1>1. Shaped(m) /\ m.intent = r.intent /\ m.mode = r.mode /\ m.policy = r.policy
  BY DEF Shaped
<1>2. WithAccount(r, a, p) = n
  BY DEF WithAccount
<1> HIDE DEF m
<1>3. Shaped(n) /\ n.intent = m.intent /\ n.mode = m.mode /\ n.policy = m.policy /\ n.pc = p
  BY <1>1 DEF Shaped
<1> HIDE DEF n
<1> QED BY <1>1, <1>2, <1>3 DEF SameRoute

LEMMA ReadsFill ==
    ASSUME NEW r, Shaped(r), NEW p, NEW a, NEW k
    PROVE  SameRoute(WithFill(r, a, k, p), r, p)
<1> DEFINE m == [r EXCEPT !.pc = p]
           l == [m EXCEPT !.account = a]
           n == [l EXCEPT !.closes = k]
<1>1. Shaped(m) /\ m.intent = r.intent /\ m.mode = r.mode /\ m.policy = r.policy /\ m.pc = p
  BY DEF Shaped
<1>2. WithFill(r, a, k, p) = n
  BY DEF WithFill
<1> HIDE DEF m
<1>3. Shaped(l) /\ l.intent = m.intent /\ l.mode = m.mode /\ l.policy = m.policy /\ l.pc = m.pc
  BY <1>1 DEF Shaped
<1> HIDE DEF l
<1>4. Shaped(n) /\ n.intent = l.intent /\ n.mode = l.mode /\ n.policy = l.policy /\ n.pc = l.pc
  BY <1>3 DEF Shaped
<1> HIDE DEF n
<1> QED BY <1>1, <1>2, <1>3, <1>4 DEF SameRoute

LEMMA ReadsSize ==
    ASSUME NEW r, Shaped(r), NEW p, NEW q
    PROVE  SameRoute(WithSize(r, q, p), r, p)
<1> DEFINE m == [r EXCEPT !.pc = p]
           n == [m EXCEPT !.qty = q]
<1>1. Shaped(m) /\ m.intent = r.intent /\ m.mode = r.mode /\ m.policy = r.policy /\ m.pc = p
  BY DEF Shaped
<1>2. WithSize(r, q, p) = n
  BY DEF WithSize
<1> HIDE DEF m
<1>3. Shaped(n) /\ n.intent = m.intent /\ n.mode = m.mode /\ n.policy = m.policy /\ n.pc = m.pc
  BY <1>1 DEF Shaped
<1> HIDE DEF n
<1> QED BY <1>1, <1>2, <1>3 DEF SameRoute

\* The steps that read the account, the quotes or the size of the order.
LEMMA ReadsKeep ==
    ASSUME RoutingInv, Watch, NEW c \in Calls,
           LoadAccount(c) \/ PaperGate(c) \/ RunPaperExecution(c) \/ Size(c)
    PROVE  RoutingInv'
<1>1. RouteInv(c) /\ Shaped(call[c])
  BY DEF RoutingInv, RouteInv
<1>2. CASE LoadAccount(c)
  <2>1. At(c, "account") /\ UNCHANGED intent
    BY <1>2 DEF LoadAccount
  <2>2. CASE Goto(c, "hold") \/ Goto(c, "fail")
    BY <2>1, <2>2, GotoKeeps DEF At, OnTheWay
  <2>3. CASE ~(Goto(c, "hold") \/ Goto(c, "fail"))
    <3> DEFINE a == IF call[c].mode = "paper" THEN account ELSE call[c].account
               p == IF IsEntry(c) THEN "gate"
                    ELSE IF call[c].mode = "real" THEN "halt" ELSE "quote"
               n == [call[c] EXCEPT !.account = a, !.pc = p]
    <3>1. Move(c, n)
      BY <1>2, <2>3 DEF LoadAccount
    <3>5. n = WithAccount(call[c], a, p)
      BY DEF WithAccount
    <3>6. p = IF IsEntry(c) THEN "gate"
              ELSE IF call[c].mode = "real" THEN "halt" ELSE "quote"
      OBVIOUS
    <3> HIDE DEF a, n, p
    <3>2. /\ Shaped(n) /\ n.intent = call[c].intent /\ n.mode = call[c].mode
          /\ n.policy = call[c].policy
          /\ n.pc = IF IsEntry(c) THEN "gate"
                    ELSE IF call[c].mode = "real" THEN "halt" ELSE "quote"
      BY <1>1, <3>5, <3>6, ReadsAccount DEF SameRoute
    <3>3. CASE n.pc # "quote"
      BY <2>1, <3>1, <3>2, <3>3, GoOnKeeps DEF At, OnTheWay
    <3>4. CASE n.pc = "quote"
      <4>1. call[c].mode = "paper"
        BY <1>1, <3>2, <3>4 DEF RouteInv
      <4>2. Mine(c).action = "exit" /\ call[c].policy.broker => {"flat", "blind"} \cap seen[c] # {}
        BY <1>1, <2>1, <4>1 DEF RouteInv, OfItsPosition, At
      <4>3. call'[c] = n /\ SameRows
        BY <2>1, <3>1 DEF Move, RoutingInv, SameRows
      <4>4. seen[c] \subseteq seen'[c]
        BY <3>4, <4>3, SeenNow
      <4>5. Mine(c)'.action = Mine(c).action /\ IsEntry(c)' = IsEntry(c)
        BY <2>1, <3>2, <4>3, RowStays DEF At
      <4>6. OfItsPosition(c)' /\ OfItsReads(c)'
        BY <3>2, <3>4, <4>2, <4>3, <4>4, <4>5 DEF OfItsPosition, PaperExit, OfItsReads
      <4>7. OfItsPolicy(c)'
        BY <1>1, <3>2, <3>4, <4>1, <4>3, <4>4, <4>5 DEF OfItsPolicy, RouteInv, OnTheWay
      <4>8. RouteInv(c)'
        BY <1>1, <2>1, <3>2, <3>4, <4>3, <4>6, <4>7 DEF RouteInv, At
      <4> QED BY <2>1, <3>1, <4>8, MoveAloneKeeps
    <3> QED BY <3>3, <3>4
  <2> QED BY <2>2, <2>3
<1>3. CASE PaperGate(c)
  <2>1. /\ At(c, "gate") /\ UNCHANGED intent
    BY <1>3 DEF PaperGate
  <2>2. PICK quotes \in [Symbols -> Quotes \cup {0}] :
           LET gate == EvaluateEntryGate(call[c].account, Risk, quotes, Day, Week)
           IN  Move(c, [call[c] EXCEPT
                          !.account = gate.state,
                          !.pc = IF gate.pass THEN "quote"
                                 ELSE IF gate.changed THEN "baseline" ELSE "refuse"])
    BY <1>3 DEF PaperGate
  <2> DEFINE gate == EvaluateEntryGate(call[c].account, Risk, quotes, Day, Week)
             p == IF gate.pass THEN "quote" ELSE IF gate.changed THEN "baseline" ELSE "refuse"
             n == [call[c] EXCEPT !.account = gate.state, !.pc = p]
  <2>3. Move(c, n)
    BY <2>2
  <2>4. p \in {"quote", "baseline", "refuse"}
    OBVIOUS
  <2>7. n = WithAccount(call[c], gate.state, p)
    BY DEF WithAccount
  <2> HIDE DEF gate, p, n
  <2>5. /\ Shaped(n) /\ n.intent = call[c].intent /\ n.mode = call[c].mode
        /\ n.policy = call[c].policy /\ n.pc = p
    BY <1>1, <2>7, ReadsAccount DEF SameRoute
  <2>6. Mine(c).action # "exit"
    BY <1>1, <2>1 DEF RouteInv, OfItsReads, IsEntry, Entries, At
  <2> QED BY <2>1, <2>3, <2>4, <2>5, <2>6, GoOnKeeps DEF At, OnTheWay
<1>4. CASE RunPaperExecution(c)
  <2>1. At(c, "quote") /\ UNCHANGED intent
    BY <1>4 DEF RunPaperExecution
  <2>2. PaperExit(c) \/ ~(Mine(c).action = "exit" /\ call[c].policy.broker)
    BY <2>1 DEF PaperExit, At
  <2>3. CASE Goto(c, "fail")
    BY <2>1, <2>3, GotoKeeps DEF At, OnTheWay
  <2>4. CASE ~Goto(c, "fail")
    <3>1. PICK price \in Quotes :
            LET fill == ExecuteFill(Mine(c).action, Mine(c).symbol, price, call[c].account,
                                    call[c].sizing, Risk, 0)
            IN  Move(c, [call[c] EXCEPT !.pc = "store", !.account = fill.state,
                           !.closes = Mine(c).action = "exit" /\ fill.quantity # 0])
      BY <1>4, <2>4 DEF RunPaperExecution
    <3> DEFINE fill == ExecuteFill(Mine(c).action, Mine(c).symbol, price, call[c].account,
                                   call[c].sizing, Risk, 0)
               k == Mine(c).action = "exit" /\ fill.quantity # 0
               n == [call[c] EXCEPT !.pc = "store", !.account = fill.state, !.closes = k]
    <3>2. Move(c, n)
      BY <3>1
    <3>4. n = WithFill(call[c], fill.state, k, "store")
      BY DEF WithFill
    <3> HIDE DEF fill, k, n
    <3>3. /\ Shaped(n) /\ n.intent = call[c].intent /\ n.mode = call[c].mode
          /\ n.policy = call[c].policy /\ n.pc = "store"
      BY <1>1, <3>4, ReadsFill DEF SameRoute
    <3> QED BY <2>1, <2>2, <3>2, <3>3, GoOnKeeps DEF At, OnTheWay
  <2> QED BY <2>3, <2>4
<1>5. CASE Size(c)
  <2>1. At(c, "size") /\ UNCHANGED intent
    BY <1>5 DEF Size
  <2>2. CASE Goto(c, "fail")
    BY <2>1, <2>2, GotoKeeps DEF At, OnTheWay
  <2>3. CASE ~Goto(c, "fail")
    <3> DEFINE q == IF IsEntry(c) THEN 1 ELSE Magnitude(held[Mine(c).symbol])
               n == [call[c] EXCEPT !.pc = "submit", !.qty = q]
    <3>1. Move(c, n)
      BY <1>5, <2>3 DEF Size
    <3>6. n = WithSize(call[c], q, "submit")
      BY DEF WithSize
    <3> HIDE DEF q, n
    <3>2. /\ Shaped(n) /\ n.intent = call[c].intent /\ n.mode = call[c].mode
          /\ n.policy = call[c].policy /\ n.pc = "submit"
      BY <1>1, <3>6, ReadsSize DEF SameRoute
    <3>3. call'[c] = n
      BY <3>1 DEF Move, RoutingInv
    <3>4. seen[c] \subseteq seen'[c]
      BY <3>2, <3>3, SeenNow
    <3>5. call[c].mode = "real" /\ (IsEntry(c) => {"robust", "running"} \subseteq seen'[c])
      BY <1>1, <2>1, <3>4 DEF RouteInv, OfItsReads, At
    <3> QED BY <2>1, <3>1, <3>2, <3>5, GoOnKeeps DEF At, OnTheWay
  <2> QED BY <2>2, <2>3
<1> QED BY <1>2, <1>3, <1>4, <1>5

-----------------------------------------------------------------------------
\* The steps that choose the route.
WithRoute(r, m) == [r EXCEPT !.pc = "account", !.mode = m]
BlindRoute(r, b) == [r EXCEPT !.pc = "account", !.mode = "paper", !.blind = b]
WithPolicy(r, p) == [r EXCEPT !.pc = "mode", !.policy = p]

LEMMA RouteShaped ==
    ASSUME NEW r, Shaped(r), NEW m
    PROVE  /\ Shaped(WithRoute(r, m)) /\ WithRoute(r, m).pc = "account"
           /\ WithRoute(r, m).intent = r.intent /\ WithRoute(r, m).policy = r.policy
           /\ WithRoute(r, m).mode = m
<1> DEFINE k == [r EXCEPT !.pc = "account"]
           n == [k EXCEPT !.mode = m]
<1>1. Shaped(k) /\ k.intent = r.intent /\ k.policy = r.policy /\ k.pc = "account"
  BY DEF Shaped
<1>2. WithRoute(r, m) = n
  BY DEF WithRoute
<1> HIDE DEF k
<1>3. Shaped(n) /\ n.intent = k.intent /\ n.policy = k.policy /\ n.pc = k.pc /\ n.mode = m
  BY <1>1 DEF Shaped
<1> HIDE DEF n
<1> QED BY <1>1, <1>2, <1>3

LEMMA BlindShaped ==
    ASSUME NEW r, Shaped(r), NEW b
    PROVE  /\ Shaped(BlindRoute(r, b)) /\ BlindRoute(r, b).pc = "account"
           /\ BlindRoute(r, b).intent = r.intent /\ BlindRoute(r, b).policy = r.policy
           /\ BlindRoute(r, b).mode = "paper" /\ BlindRoute(r, b).blind = b
<1> DEFINE k == WithRoute(r, "paper")
           n == [k EXCEPT !.blind = b]
<1>1. /\ Shaped(k) /\ k.intent = r.intent /\ k.policy = r.policy /\ k.pc = "account"
      /\ k.mode = "paper"
  BY RouteShaped
<1>2. BlindRoute(r, b) = n
  BY DEF BlindRoute, WithRoute
<1> HIDE DEF k
<1>3. /\ Shaped(n) /\ n.intent = k.intent /\ n.policy = k.policy /\ n.pc = k.pc
      /\ n.mode = k.mode /\ n.blind = b
  BY <1>1 DEF Shaped
<1> HIDE DEF n
<1> QED BY <1>1, <1>2, <1>3

LEMMA PolicyShaped ==
    ASSUME NEW r, Shaped(r), NEW p
    PROVE  /\ Shaped(WithPolicy(r, p)) /\ WithPolicy(r, p).pc = "mode"
           /\ WithPolicy(r, p).intent = r.intent /\ WithPolicy(r, p).policy = p
           /\ WithPolicy(r, p).mode = r.mode
<1> DEFINE k == [r EXCEPT !.pc = "mode"]
           n == [k EXCEPT !.policy = p]
<1>1. Shaped(k) /\ k.intent = r.intent /\ k.mode = r.mode /\ k.pc = "mode"
  BY DEF Shaped
<1>2. WithPolicy(r, p) = n
  BY DEF WithPolicy
<1> HIDE DEF k
<1>3. Shaped(n) /\ n.intent = k.intent /\ n.policy = p /\ n.pc = k.pc /\ n.mode = k.mode
  BY <1>1 DEF Shaped
<1> HIDE DEF n
<1> QED BY <1>1, <1>2, <1>3

\* A route that is chosen as the policy and the positions that were read say.
LEMMA RoutedKeeps ==
    ASSUME RoutingInv, Watch, UNCHANGED intent, NEW c \in Calls, call[c].pc # "idle",
           NEW n, Move(c, n), Shaped(n), n.pc = "account", n.intent = call[c].intent,
           n.policy = call[c].policy, n.mode \in {"paper", "real"},
           n.mode = "real" /\ IsEntry(c) =>
             /\ call[c].policy.real /\ call[c].policy.broker
             /\ Mine(c).action = "short" => call[c].policy.short,
           n.mode = "paper" /\ Mine(c).action = "exit" /\ call[c].policy.broker =>
             {"flat", "blind"} \cap seen'[c] # {}
    PROVE  RoutingInv'
<1>1. RouteInv(c)
  BY DEF RoutingInv
<1>2. call'[c] = n
  BY DEF Move, RoutingInv
<1>3. seen[c] \subseteq seen'[c]
  BY <1>2, SeenNow
<1>4. SameRows
  BY DEF SameRows
<1>5. Mine(c)'.action = Mine(c).action /\ IsEntry(c)' = IsEntry(c)
  BY <1>2, <1>4, RowStays
<1>6. OfItsPolicy(c)'
  BY <1>1, <1>2, <1>3, <1>5 DEF RouteInv, OfItsPolicy, OnTheWay
<1>7. OfItsReads(c)'
  BY <1>2 DEF OfItsReads
<1>8. OfItsPosition(c)'
  BY <1>2, <1>5 DEF OfItsPosition, PaperExit
<1>9. RouteInv(c)'
  BY <1>1, <1>2, <1>6, <1>7, <1>8 DEF RouteInv
<1> QED BY <1>9, MoveAloneKeeps

LEMMA RoutesKeep ==
    ASSUME RoutingInv, Watch, NEW c \in Calls,
           ReadPolicy(c) \/ RouteExit(c) \/ EffectiveMode(c) \/ WalkForwardGate(c)
    PROVE  RoutingInv'
<1>1. RouteInv(c) /\ Shaped(call[c])
  BY DEF RoutingInv, RouteInv
<1>2. CASE ReadPolicy(c)
  <2> DEFINE n == WithPolicy(call[c], policy)
  <2>1. At(c, "policy") /\ UNCHANGED <<intent, policy>> /\ Move(c, n)
    BY <1>2 DEF ReadPolicy, worldVars, WithPolicy
  <2>2. /\ Shaped(n) /\ n.pc = "mode" /\ n.intent = call[c].intent /\ n.policy = policy
        /\ n.mode = call[c].mode
    BY <1>1, PolicyShaped
  <2> HIDE DEF n
  <2>3. call'[c] = n
    BY <2>1 DEF Move, RoutingInv
  <2>4. /\ policy'.real /\ policy'.broker => "real" \in seen'[c]
        /\ policy'.short => "short" \in seen'[c]
    BY <2>2, <2>3, SeenNow
  <2>5. call[c].mode = "paper"
    BY <1>1, <2>1 DEF RouteInv, OfItsPolicy, OnTheWay, At
  <2>6. policy' = policy
    BY <2>1
  <2>7. /\ n.policy.real /\ n.policy.broker => "real" \in seen'[c]
        /\ n.policy.short => "short" \in seen'[c]
    BY <2>2, <2>4, <2>6
  <2>8. OfItsPolicy(c)'
    BY <2>2, <2>3, <2>5, <2>7 DEF OfItsPolicy
  <2>9. OfItsReads(c)' /\ OfItsPosition(c)'
    BY <2>2, <2>3 DEF OfItsReads, OfItsPosition, PaperExit
  <2>10. RouteInv(c)'
    BY <1>1, <2>1, <2>2, <2>3, <2>5, <2>8, <2>9 DEF RouteInv, At
  <2> QED BY <2>1, <2>10, MoveAloneKeeps
<1>3. CASE RouteExit(c)
  <2>1. /\ At(c, "mode") /\ UNCHANGED <<intent, held>> /\ Mine(c).action = "exit"
        /\ call[c].policy.broker /\ ~IsEntry(c)
    BY <1>3 DEF RouteExit, worldVars, IsEntry, Entries
  <2>2. CASE Goto(c, "fail")
    BY <2>1, <2>2, GotoKeeps DEF At, OnTheWay
  <2>3. CASE Move(c, BlindRoute(call[c], TRUE))
    <3> DEFINE b == TRUE
               n == BlindRoute(call[c], b)
    <3>5. b
      OBVIOUS
    <3> HIDE DEF b
    <3>1. /\ Shaped(n) /\ n.pc = "account" /\ n.intent = call[c].intent
          /\ n.policy = call[c].policy /\ n.mode = "paper" /\ n.blind = b
      BY <1>1, BlindShaped
    <3>2. Move(c, n)
      BY <2>3 DEF b
    <3> HIDE DEF n
    <3>3. call'[c] = n
      BY <3>2 DEF Move, RoutingInv
    <3>4. "blind" \in seen'[c]
      BY <3>1, <3>3, <3>5, SeenNow
    <3> QED BY <2>1, <3>1, <3>2, <3>4, RoutedKeeps DEF At
  <2>4. CASE Routed(c, IF held[Mine(c).symbol] # 0 THEN "real" ELSE "paper")
    <3> DEFINE m == IF held[Mine(c).symbol] # 0 THEN "real" ELSE "paper"
               n == WithRoute(call[c], m)
    <3>1. /\ Shaped(n) /\ n.pc = "account" /\ n.intent = call[c].intent
          /\ n.policy = call[c].policy /\ n.mode = m
      BY <1>1, RouteShaped
    <3>2. Move(c, n)
      BY <2>4 DEF Routed, WithRoute
    <3>3. m \in {"paper", "real"} /\ (m = "paper" => held[Mine(c).symbol] = 0)
      OBVIOUS
    <3> HIDE DEF n, m
    <3>4. call'[c] = n
      BY <3>2 DEF Move, RoutingInv
    <3>5. intent'[call'[c].intent].symbol = Mine(c).symbol
      BY <2>1, <3>1, <3>4 DEF Mine
    <3>6. m = "paper" => "flat" \in seen'[c]
      BY <2>1, <3>1, <3>3, <3>4, <3>5, SeenNow
    <3> QED BY <2>1, <3>1, <3>2, <3>3, <3>6, RoutedKeeps DEF At
  <2> QED BY <1>3, <2>2, <2>3, <2>4 DEF RouteExit, BlindRoute
<1>4. CASE EffectiveMode(c)
  <2>1. /\ At(c, "mode") /\ UNCHANGED intent
        /\ ~(Mine(c).action = "exit" /\ call[c].policy.broker)
    BY <1>4 DEF EffectiveMode
  <2>2. CASE Goto(c, "verdict") /\ call[c].policy.real /\ call[c].policy.broker /\ IsEntry(c)
    <3>1. call[c].mode = "paper"
      BY <1>1, <2>1 DEF RouteInv, OfItsPolicy, OnTheWay, At
    <3> QED BY <2>1, <2>2, <3>1, GotoKeeps DEF At
  <2>3. ASSUME NEW m \in {"paper", "real"}, Routed(c, m), m = "real" => ~IsEntry(c)
        PROVE  RoutingInv'
    <3> DEFINE n == WithRoute(call[c], m)
    <3>1. /\ Shaped(n) /\ n.pc = "account" /\ n.intent = call[c].intent
          /\ n.policy = call[c].policy /\ n.mode = m
      BY <1>1, RouteShaped
    <3>2. Move(c, n)
      BY <2>3 DEF Routed, WithRoute
    <3> HIDE DEF n
    <3> QED BY <2>1, <2>3, <3>1, <3>2, RoutedKeeps DEF At
  <2> QED BY <1>4, <2>2, <2>3 DEF EffectiveMode
<1>5. CASE WalkForwardGate(c)
  <2> DEFINE m == IF robust /\ (Mine(c).action = "short" => call[c].policy.short)
                  THEN "real" ELSE "paper"
             n == WithRoute(call[c], m)
  <2>1. At(c, "verdict") /\ UNCHANGED intent /\ Move(c, n)
    BY <1>5 DEF WalkForwardGate, Routed, WithRoute
  <2>2. /\ Shaped(n) /\ n.pc = "account" /\ n.intent = call[c].intent
        /\ n.policy = call[c].policy /\ n.mode = m
    BY <1>1, RouteShaped
  <2>3. /\ m \in {"paper", "real"}
        /\ m = "real" => (Mine(c).action = "short" => call[c].policy.short)
    OBVIOUS
  <2>4. call[c].policy.real /\ call[c].policy.broker /\ Mine(c).action # "exit"
    BY <1>1, <2>1 DEF RouteInv, OfItsPolicy, OfItsReads, IsEntry, Entries, At
  <2> HIDE DEF n, m
  <2> QED BY <2>1, <2>2, <2>3, <2>4, RoutedKeeps DEF At
<1> QED BY <1>2, <1>3, <1>4, <1>5

-----------------------------------------------------------------------------
\* The steps that begin a call or write its row.
LEMMA StatusRows ==
    ASSUME RoutingInv, NEW i \in Intents, NEW s, intent' = [intent EXCEPT ![i].status = s]
    PROVE  /\ SameRows /\ \A k \in Intents : RowShaped(intent'[k])
           /\ intent' = [k \in Intents |-> intent'[k]]
<1>1. intent = [k \in Intents |-> intent[k]] /\ RowShaped(intent[i])
  BY DEF RoutingInv
<1> DEFINE r == [intent[i] EXCEPT !.status = s]
<1>2. RowShaped(r) /\ r.action = intent[i].action /\ r.symbol = intent[i].symbol
  BY <1>1 DEF RowShaped
<1>3. intent'[i] = r
  BY <1>1
<1> HIDE DEF r
<1>4. \A k \in Intents : k # i => intent'[k] = intent[k]
  BY <1>1
<1>5. intent' = [k \in Intents |-> intent'[k]]
  BY <1>1
<1>6. \A k \in Intents : /\ RowShaped(intent'[k]) /\ intent'[k].action = intent[k].action
                         /\ intent'[k].symbol = intent[k].symbol
  BY <1>2, <1>3, <1>4 DEF RoutingInv, RowShaped
<1>7. \A d \in Calls : call[d].pc # "idle" => call[d].intent \in Intents
  BY DEF RoutingInv, RouteInv
<1> QED BY <1>5, <1>6, <1>7 DEF SameRows

\* A call that begins has read nothing and is on the way to its route.
LEMMA BegunIsFine ==
    ASSUME NEW c \in Calls, Shaped(call'[c]), call'[c].pc \in {"create", "policy", "refuse"},
           call'[c].intent \in Intents, call'[c].mode = "paper", call'[c].policy = Idle.policy
    PROVE  RouteInv(c)'
BY IdleTyped DEF RouteInv, OfItsPolicy, OfItsReads, OfItsPosition, PaperExit

Begun(i, p, z) == [Idle EXCEPT !.pc = p, !.intent = i, !.sizing = z]
BegunHere(i, p, z, k) == [Idle EXCEPT !.pc = p, !.intent = i, !.sizing = z, !.dup = k]

LEMMA BegunShaped ==
    ASSUME NEW i, NEW p, NEW z, NEW k
    PROVE  /\ Shaped(Begun(i, p, z)) /\ Begun(i, p, z).pc = p /\ Begun(i, p, z).intent = i
           /\ Begun(i, p, z).mode = "paper" /\ Begun(i, p, z).policy = Idle.policy
           /\ Shaped(BegunHere(i, p, z, k)) /\ BegunHere(i, p, z, k).pc = p
           /\ BegunHere(i, p, z, k).intent = i /\ BegunHere(i, p, z, k).mode = "paper"
           /\ BegunHere(i, p, z, k).policy = Idle.policy
<1> DEFINE a == [Idle EXCEPT !.pc = p]
           b == [a EXCEPT !.intent = i]
           d == [b EXCEPT !.sizing = z]
           e == [d EXCEPT !.dup = k]
<1>1. Shaped(a) /\ a.pc = p /\ a.mode = "paper" /\ a.policy = Idle.policy
  BY IdleTyped DEF Shaped
<1>5. Begun(i, p, z) = d /\ BegunHere(i, p, z, k) = e
  BY DEF Begun, BegunHere
<1> HIDE DEF a
<1>2. Shaped(b) /\ b.pc = a.pc /\ b.mode = a.mode /\ b.policy = a.policy /\ b.intent = i
  BY <1>1 DEF Shaped
<1> HIDE DEF b
<1>3. Shaped(d) /\ d.pc = b.pc /\ d.mode = b.mode /\ d.policy = b.policy /\ d.intent = b.intent
  BY <1>2 DEF Shaped
<1> HIDE DEF d
<1>4. Shaped(e) /\ e.pc = d.pc /\ e.mode = d.mode /\ e.policy = d.policy /\ e.intent = d.intent
  BY <1>3 DEF Shaped
<1> HIDE DEF e
<1> QED BY <1>1, <1>2, <1>3, <1>4, <1>5

LEMMA RowsKeep ==
    ASSUME RoutingInv, Watch, NEW c \in Calls,
           RecordIntent(c) \/ Create(c) \/ Approve(c) \/ Reject(c) \/ Decide(c)
    PROVE  RoutingInv'
<1>1. RouteInv(c) /\ Shaped(call[c])
  BY DEF RoutingInv, RouteInv
<1>2. CASE RecordIntent(c)
  <2>1. PICK i \in Intents, action \in Actions, s \in Symbols :
          /\ intent[i].status = "none" /\ \A d \in Calls : call[d].intent # i
          /\ intent' = [intent EXCEPT ![i] = [status |-> "none", action |-> action,
                                              symbol |-> s, cycle |-> c]]
          /\ Move(c, [Idle EXCEPT !.pc = "create", !.intent = i, !.sizing = Risk.position,
                                  !.dup = Prior(c, action, s)])
    BY <1>2 DEF RecordIntent
  <2> DEFINE k == Prior(c, action, s)
             z == Risk.position
             n == BegunHere(i, "create", z, k)
             r == [status |-> "none", action |-> action, symbol |-> s, cycle |-> c]
  <2>2. Move(c, n)
    BY <2>1 DEF BegunHere
  <2> HIDE DEF k, z
  <2>3. /\ Shaped(n) /\ n.pc = "create" /\ n.intent = i /\ n.mode = "paper"
        /\ n.policy = Idle.policy
    BY BegunShaped
  <2> HIDE DEF n
  <2>4. call'[c] = n
    BY <2>2 DEF Move, RoutingInv
  <2>5. RouteInv(c)'
    BY <2>3, <2>4, BegunIsFine
  <2>6. RowShaped(r)
    BY DEF RowShaped
  <2>7. intent' = [intent EXCEPT ![i] = r]
    BY <2>1
  <2> HIDE DEF r
  <2>8. /\ intent' = [j \in Intents |-> intent'[j]] /\ \A j \in Intents : RowShaped(intent'[j])
        /\ \A j \in Intents : j # i => intent'[j] = intent[j]
    BY <2>6, <2>7 DEF RoutingInv, RowShaped
  <2>9. SameRows
    BY <2>1, <2>8 DEF SameRows, RoutingInv, RouteInv
  <2> QED BY <2>2, <2>5, <2>8, <2>9, MoveKeeps
<1>3. CASE Create(c)
  <2>1. /\ At(c, "create") /\ call[c].intent \in Intents
        /\ Move(c, Idle) \/ Goto(c, "autonomous")
    BY <1>1, <1>3 DEF Create, RouteInv, At
  <2>2. PICK s : intent' = [intent EXCEPT ![call[c].intent].status = s]
    BY <1>3 DEF Create
  <2>3. /\ SameRows /\ \A k \in Intents : RowShaped(intent'[k])
        /\ intent' = [k \in Intents |-> intent'[k]]
    BY <2>1, <2>2, StatusRows
  <2>4. CASE Move(c, Idle)
    <3>1. call'[c] = Idle
      BY <2>4 DEF Move, RoutingInv
    <3> QED BY <2>3, <2>4, <3>1, EndedIsFine, MoveKeeps
  <2>5. CASE Goto(c, "autonomous")
    <3> DEFINE n == [call[c] EXCEPT !.pc = "autonomous"]
    <3>1. /\ Shaped(n) /\ n.pc = "autonomous" /\ n.intent = call[c].intent
          /\ n.mode = call[c].mode /\ n.policy = call[c].policy
      BY <1>1 DEF Shaped
    <3>2. Move(c, n)
      BY <2>5 DEF Goto
    <3> HIDE DEF n
    <3>3. call[c].mode = "paper"
      BY <1>1, <2>1 DEF RouteInv, OfItsPolicy, OnTheWay, At
    <3>4. RouteInv(c)'
      BY <2>1, <2>3, <3>1, <3>2, <3>3, GoOnIsFine DEF At
    <3> QED BY <2>3, <3>2, <3>4, MoveKeeps
  <2> QED BY <2>1, <2>4, <2>5
<1>4. ASSUME NEW i \in Intents, NEW p \in {"policy", "refuse"}, NEW z, Move(c, Begun(i, p, z)),
             UNCHANGED intent
      PROVE  RoutingInv'
  <2> DEFINE n == Begun(i, p, z)
  <2>1. /\ Shaped(n) /\ n.pc = p /\ n.intent = i /\ n.mode = "paper" /\ n.policy = Idle.policy
    BY BegunShaped
  <2>2. call'[c] = n
    BY <1>4 DEF Move, RoutingInv
  <2> HIDE DEF n
  <2>3. RouteInv(c)'
    BY <2>1, <2>2, BegunIsFine
  <2> QED BY <1>4, <2>3, MoveAloneKeeps
<1>5. CASE Approve(c)
  <2>1. PICK i \in Intents : Move(c, Begun(i, "policy", SIZING_PCT))
    BY <1>5 DEF Approve, Begun
  <2> QED BY <1>4, <1>5, <2>1 DEF Approve
<1>6. CASE Reject(c)
  <2>1. PICK i \in Intents : Move(c, [Idle EXCEPT !.pc = "refuse", !.intent = i])
    BY <1>6 DEF Reject
  <2> DEFINE z == Idle.sizing
  <2>2. [Idle EXCEPT !.pc = "refuse", !.intent = i] = Begun(i, "refuse", z)
    BY DEF Begun, Idle
  <2>3. UNCHANGED intent
    BY <1>6 DEF Reject
  <2> HIDE DEF z
  <2>4. Move(c, Begun(i, "refuse", z))
    BY <2>1, <2>2
  <2> QED BY <1>4, <2>3, <2>4
<1>7. CASE Decide(c)
  <2>1. /\ call[c].pc # "idle" /\ Move(c, Idle)
        /\ intent' = [intent EXCEPT ![call[c].intent].status = Decided[call[c].pc]]
    BY <1>7 DEF Decide, Decided
  <2>2. call[c].intent \in Intents
    BY <1>1, <2>1 DEF RouteInv
  <2> DEFINE s == Decided[call[c].pc]
  <2>3. intent' = [intent EXCEPT ![call[c].intent].status = s]
    BY <2>1
  <2> HIDE DEF s
  <2>4. /\ SameRows /\ \A k \in Intents : RowShaped(intent'[k])
        /\ intent' = [k \in Intents |-> intent'[k]]
    BY <2>2, <2>3, StatusRows
  <2>5. call'[c] = Idle
    BY <2>1 DEF Move, RoutingInv
  <2> QED BY <2>1, <2>4, <2>5, EndedIsFine, MoveKeeps
<1> QED BY <1>2, <1>3, <1>5, <1>6, <1>7

\* What the world does leaves every call alone.
LEMMA WorldKeeps ==
    ASSUME RoutingInv, Watch, WorldMoves
    PROVE  RoutingInv'
<1>1. call' = call
  BY DEF WorldMoves, BrokerFills, SetPolicy, VerdictChanges, SwitchChanges, TomorrowComes
<1>2. /\ SameRows /\ \A k \in Intents : RowShaped(intent'[k])
      /\ intent' = [k \in Intents |-> intent'[k]]
  <2>1. CASE UNCHANGED intent
    BY <2>1 DEF SameRows, RoutingInv, RowShaped
  <2>2. CASE BrokerFills
    <3>1. PICK o \in orders : intent' = [intent EXCEPT ![o.intent].status = "executed"]
      BY <2>2 DEF BrokerFills
    <3>2. CASE o.intent \in Intents
      BY <3>1, <3>2, StatusRows
    <3>3. CASE o.intent \notin Intents
      <4>1. intent' = intent
        BY <3>1, <3>3 DEF RoutingInv
      <4> QED BY <2>1, <4>1
    <3> QED BY <3>2, <3>3
  <2> QED BY <2>1, <2>2 DEF WorldMoves, SetPolicy, VerdictChanges, SwitchChanges, TomorrowComes
<1>3. \A c \in Calls : RouteInv(c)'
  BY <1>1, <1>2, OtherCallKeeps DEF RoutingInv
<1> QED BY <1>1, <1>2, <1>3 DEF RoutingInv

LEMMA RoutingStepKeeps == RoutingInv /\ [RoutingNext]_routingVars => RoutingInv'
<1> SUFFICES ASSUME RoutingInv, [RoutingNext]_routingVars PROVE RoutingInv'
  OBVIOUS
<1>1. ASSUME NEW c \in Calls, CallMoves(c), Watch PROVE RoutingInv'
  BY <1>1, PlacesKeep, ReadsKeep, RoutesKeep, RowsKeep DEF CallMoves
<1>2. CASE WorldMoves /\ Watch
  BY <1>2, WorldKeeps
<1>3. CASE UNCHANGED routingVars
  <2>1. intent' = intent /\ call' = call /\ seen' = seen
    BY <1>3 DEF routingVars
  <2> QED BY <2>1 DEF RoutingInv, RouteInv, OfItsPolicy, OfItsReads, OfItsPosition, PaperExit,
                      IsEntry, Mine, Shaped, RowShaped
<1> QED BY <1>1, <1>2, <1>3 DEF RoutingNext

\* Whatever changes between two reads of a call, and whatever other calls do
\* to the same row, an entry reaches submit() only if real money, a named
\* broker, a ROBUSTO verdict, a running kill-switch and, for a short, its
\* permission have each been the case since the call began.
THEOREM EntriesArePermitted == RoutingSpec => []EntryWasPermitted
<1>1. RoutingInv => EntryWasPermitted
  <2> SUFFICES ASSUME RoutingInv, NEW c \in Calls, call[c].pc = "submit", IsEntry(c)
               PROVE  /\ {"real", "robust", "running"} \subseteq seen[c]
                      /\ Mine(c).action = "short" => "short" \in seen[c]
    BY DEF EntryWasPermitted
  <2>1. OfItsPolicy(c) /\ OfItsReads(c)
    BY DEF RoutingInv, RouteInv
  <2>2. call[c].mode = "real" /\ {"robust", "running"} \subseteq seen[c]
    BY <2>1 DEF OfItsReads
  <2> QED BY <2>1, <2>2 DEF OfItsPolicy
<1> QED BY <1>1, RoutingStarts, RoutingStepKeeps, PTL DEF RoutingSpec

\* While a broker is configured, an exit is carried out on paper only if the
\* broker held nothing of the symbol, or did not answer, since the call began.
THEOREM ExitsFollowPositions == RoutingSpec => []ExitFollowsPosition
<1>1. RoutingInv => ExitFollowsPosition
  BY DEF RoutingInv, RouteInv, OfItsPosition, ExitFollowsPosition
<1> QED BY <1>1, RoutingStarts, RoutingStepKeeps, PTL DEF RoutingSpec

-----------------------------------------------------------------------------
(* One intent for each signal of a cycle *)

OrderShaped(o) == o = [intent |-> o.intent, side |-> o.side, qty |-> o.qty, done |-> o.done]
LiveRow(i) == intent[i].status \notin {"none", "duplicate"}
SameSignal(i, j) ==
    /\ intent[i].cycle = intent[j].cycle
    /\ intent[i].action = intent[j].action /\ intent[i].symbol = intent[j].symbol

\* Between the check and the create, no other step makes a live row of the
\* signal, for only the cycle itself makes rows live that carry its name.
BeforeCreate(c) ==
    call[c].pc = "create" =>
      /\ call[c].intent \in Intents
      /\ intent[call[c].intent].status = "none" /\ intent[call[c].intent].cycle = c
      /\ ~call[c].dup => \A j \in Intents : j # call[c].intent /\ LiveRow(j) =>
                                              ~SameSignal(j, call[c].intent)
AfterCreate(c) ==
    call[c].pc \notin {"idle", "create"} => call[c].intent \in Intents /\ LiveRow(call[c].intent)

SignalInv ==
    /\ \A i, j \in Intents : i # j /\ LiveRow(i) /\ LiveRow(j) => ~SameSignal(i, j)
    /\ \A c \in Calls : BeforeCreate(c) /\ AfterCreate(c)
    /\ \A o \in orders : OrderShaped(o) /\ o.intent \in Intents /\ LiveRow(o.intent)

LEMMA SignalsStart == RoutingInit => SignalInv
<1> SUFFICES ASSUME RoutingInit PROVE SignalInv
  OBVIOUS
<1>1. \A i \in Intents : ~LiveRow(i)
  BY DEF RoutingInit, NoIntent, LiveRow
<1>2. \A c \in Calls : call[c].pc = "idle"
  BY IdleTyped DEF RoutingInit
<1>3. orders = {}
  BY DEF RoutingInit
<1> QED BY <1>1, <1>2, <1>3 DEF SignalInv, BeforeCreate, AfterCreate

\* A step that makes no row live or dead and begins no create.
SameLife ==
    \A i \in Intents : /\ LiveRow(i)' = LiveRow(i) /\ intent'[i].cycle = intent[i].cycle
                       /\ (intent'[i].status = "none") = (intent[i].status = "none")
                       /\ intent'[i].action = intent[i].action
                       /\ intent'[i].symbol = intent[i].symbol

LEMMA LifeKeeps ==
    ASSUME SignalInv, SameLife,
           \A c \in Calls : call'[c] = call[c] \/ (call'[c].pc # "create" /\ AfterCreate(c)'),
           \A o \in orders' : OrderShaped(o) /\ o.intent \in Intents /\ LiveRow(o.intent)
    PROVE  SignalInv'
<1>1. \A i, j \in Intents : SameSignal(i, j)' = SameSignal(i, j)
  BY DEF SameLife, SameSignal
<1>2. \A i \in Intents : LiveRow(i)' = LiveRow(i)
  BY DEF SameLife
<1>3. \A i, j \in Intents : i # j /\ LiveRow(i)' /\ LiveRow(j)' => ~SameSignal(i, j)'
  BY <1>1, <1>2 DEF SignalInv
<1>4. ASSUME NEW c \in Calls PROVE BeforeCreate(c)' /\ AfterCreate(c)'
  <2>1. CASE call'[c] = call[c]
    <3>1. AfterCreate(c)'
      BY <1>2, <2>1 DEF SignalInv, AfterCreate
    <3>2. BeforeCreate(c)
      BY DEF SignalInv
    <3>3. BeforeCreate(c)'
      BY <1>1, <1>2, <2>1, <3>2 DEF BeforeCreate, SameLife
    <3> QED BY <3>1, <3>3
  <2>2. CASE call'[c].pc # "create" /\ AfterCreate(c)'
    BY <2>2 DEF BeforeCreate
  <2> QED BY <2>1, <2>2
<1>5. \A o \in orders' : OrderShaped(o) /\ o.intent \in Intents /\ LiveRow(o.intent)'
  BY <1>2
<1> QED BY <1>3, <1>4, <1>5 DEF SignalInv

\* Where a call that is neither beginning nor creating its row can get to.
Onward(c, n) == n = Idle \/ (n.intent = call[c].intent /\ n.pc # "create")

LEMMA OnwardGoto ==
    ASSUME RoutingInv, NEW c \in Calls, NEW p, p # "create", Goto(c, p)
    PROVE  \E n : Move(c, n) /\ Onward(c, n)
<1> DEFINE n == [call[c] EXCEPT !.pc = p]
<1>1. n.intent = call[c].intent /\ n.pc = p
  BY DEF RoutingInv, RouteInv, Shaped
<1>2. Move(c, n)
  BY DEF Goto
<1> HIDE DEF n
<1> QED BY <1>1, <1>2 DEF Onward

OnwardMoves(c) ==
    \/ ReadAutonomous(c) \/ OpenIntent(c) \/ ReadPolicy(c) \/ RouteExit(c)
    \/ EffectiveMode(c) \/ WalkForwardGate(c) \/ LoadAccount(c) \/ PaperGate(c)
    \/ SaveBaseline(c) \/ RealGate(c) \/ RunPaperExecution(c) \/ StoreAccount(c)
    \/ Decide(c) \/ ReadHalt(c) \/ Recheck(c) \/ Size(c) \/ Submit(c)

LEMMA OnwardIsBusy ==
    ASSUME NEW c \in Calls, OnwardMoves(c) PROVE call[c].pc \notin {"idle", "create"}
BY DEF OnwardMoves, ReadAutonomous, OpenIntent, ReadPolicy, RouteExit, EffectiveMode,
       WalkForwardGate, LoadAccount, PaperGate, SaveBaseline, RealGate, RunPaperExecution,
       StoreAccount, Decide, Decided, ReadHalt, Recheck, Size, Submit, At

LEMMA OnwardSteps ==
    ASSUME RoutingInv, NEW c \in Calls, OnwardMoves(c)
    PROVE  \E n : Move(c, n) /\ Onward(c, n)
<1>1. Shaped(call[c])
  BY DEF RoutingInv, RouteInv
<1>3. CASE Move(c, Idle)
  BY <1>3 DEF Onward
<1>4. ASSUME NEW m, Routed(c, m) PROVE \E n : Move(c, n) /\ Onward(c, n)
  <2> DEFINE n == WithRoute(call[c], m)
  <2>1. n.pc = "account" /\ n.intent = call[c].intent
    BY <1>1, RouteShaped
  <2>2. Move(c, n)
    BY <1>4 DEF Routed, WithRoute
  <2> HIDE DEF n
  <2> QED BY <2>1, <2>2 DEF Onward
<1>5. CASE ReadPolicy(c)
  <2> DEFINE n == WithPolicy(call[c], policy)
  <2>1. n.pc = "mode" /\ n.intent = call[c].intent
    BY <1>1, PolicyShaped
  <2>2. Move(c, n)
    BY <1>5 DEF ReadPolicy, WithPolicy
  <2> HIDE DEF n
  <2> QED BY <2>1, <2>2 DEF Onward
<1>6. CASE RouteExit(c)
  <2>1. CASE Move(c, BlindRoute(call[c], TRUE))
    <3> DEFINE b == TRUE
               n == BlindRoute(call[c], b)
    <3>2. Move(c, n)
      BY <2>1
    <3> HIDE DEF b
    <3>1. n.pc = "account" /\ n.intent = call[c].intent
      BY <1>1, BlindShaped
    <3> HIDE DEF n
    <3> QED BY <3>1, <3>2 DEF Onward
  <2> QED BY <1>4, <1>6, <2>1, OnwardGoto DEF RouteExit, BlindRoute
<1>7. CASE EffectiveMode(c) \/ WalkForwardGate(c)
  BY <1>4, <1>7, OnwardGoto DEF EffectiveMode, WalkForwardGate
<1>8. CASE LoadAccount(c)
  <2> DEFINE a == IF call[c].mode = "paper" THEN account ELSE call[c].account
             p == IF IsEntry(c) THEN "gate"
                  ELSE IF call[c].mode = "real" THEN "halt" ELSE "quote"
             n == WithAccount(call[c], a, p)
  <2>1. Goto(c, "hold") \/ Goto(c, "fail") \/ Move(c, n)
    BY <1>8 DEF LoadAccount, WithAccount
  <2>2. p # "create"
    OBVIOUS
  <2> HIDE DEF a, p
  <2>3. n.pc = p /\ n.intent = call[c].intent
    BY <1>1, ReadsAccount DEF SameRoute
  <2> HIDE DEF n
  <2> QED BY <2>1, <2>2, <2>3, OnwardGoto DEF Onward
<1>9. CASE PaperGate(c)
  <2>1. PICK quotes \in [Symbols -> Quotes \cup {0}] :
           LET gate == EvaluateEntryGate(call[c].account, Risk, quotes, Day, Week)
           IN  Move(c, [call[c] EXCEPT
                          !.account = gate.state,
                          !.pc = IF gate.pass THEN "quote"
                                 ELSE IF gate.changed THEN "baseline" ELSE "refuse"])
    BY <1>9 DEF PaperGate
  <2> DEFINE gate == EvaluateEntryGate(call[c].account, Risk, quotes, Day, Week)
             p == IF gate.pass THEN "quote" ELSE IF gate.changed THEN "baseline" ELSE "refuse"
             a == gate.state
             n == WithAccount(call[c], a, p)
  <2>2. Move(c, n)
    BY <2>1 DEF WithAccount
  <2>3. p # "create"
    OBVIOUS
  <2> HIDE DEF gate, p, a
  <2>4. n.pc = p /\ n.intent = call[c].intent
    BY <1>1, ReadsAccount DEF SameRoute
  <2> HIDE DEF n
  <2> QED BY <2>2, <2>3, <2>4 DEF Onward
<1>10. CASE RunPaperExecution(c)
  <2>1. CASE Goto(c, "fail")
    BY <2>1, OnwardGoto
  <2>2. CASE ~Goto(c, "fail")
    <3>1. PICK price \in Quotes :
            LET fill == ExecuteFill(Mine(c).action, Mine(c).symbol, price, call[c].account,
                                    call[c].sizing, Risk, 0)
            IN  Move(c, [call[c] EXCEPT !.pc = "store", !.account = fill.state,
                           !.closes = Mine(c).action = "exit" /\ fill.quantity # 0])
      BY <1>10, <2>2 DEF RunPaperExecution
    <3> DEFINE fill == ExecuteFill(Mine(c).action, Mine(c).symbol, price, call[c].account,
                                   call[c].sizing, Risk, 0)
               a == fill.state
               k == Mine(c).action = "exit" /\ fill.quantity # 0
               n == WithFill(call[c], a, k, "store")
    <3>2. Move(c, n)
      BY <3>1 DEF WithFill
    <3> HIDE DEF fill, a, k
    <3>3. n.pc = "store" /\ n.intent = call[c].intent
      BY <1>1, ReadsFill DEF SameRoute
    <3> HIDE DEF n
    <3> QED BY <3>2, <3>3 DEF Onward
  <2> QED BY <2>1, <2>2
<1>11. CASE Size(c)
  <2> DEFINE q == IF IsEntry(c) THEN 1 ELSE Magnitude(held[Mine(c).symbol])
             n == WithSize(call[c], q, "submit")
  <2>1. Goto(c, "fail") \/ Move(c, n)
    BY <1>11 DEF Size, WithSize
  <2> HIDE DEF q
  <2>2. n.pc = "submit" /\ n.intent = call[c].intent
    BY <1>1, ReadsSize DEF SameRoute
  <2> HIDE DEF n
  <2> QED BY <2>1, <2>2, OnwardGoto DEF Onward
<1>12. CASE \/ ReadAutonomous(c) \/ OpenIntent(c) \/ SaveBaseline(c) \/ RealGate(c)
            \/ StoreAccount(c) \/ Decide(c) \/ ReadHalt(c) \/ Recheck(c) \/ Submit(c)
  <2>1. \/ Move(c, Idle)
        \/ \E p \in {"open", "policy", "refuse", "halt", "skip", "book", "fail", "recheck",
                     "size", "settle"} : Goto(c, p)
    BY <1>12 DEF ReadAutonomous, OpenIntent, SaveBaseline, RealGate, StoreAccount, Decide,
                 ReadHalt, Recheck, Submit
  <2> QED BY <1>3, <2>1, OnwardGoto
<1> QED BY <1>5, <1>6, <1>7, <1>8, <1>9, <1>10, <1>11, <1>12 DEF OnwardMoves

\* A decision about a live row leaves it live.
LEMMA DecidedLives ==
    ASSUME RoutingInv, NEW i \in Intents, LiveRow(i), NEW s, s \notin {"none", "duplicate"},
           intent' = [intent EXCEPT ![i].status = s]
    PROVE  SameLife
<1>1. intent = [k \in Intents |-> intent[k]] /\ RowShaped(intent[i])
  BY DEF RoutingInv
<1> DEFINE r == [intent[i] EXCEPT !.status = s]
<1>2. /\ r.status = s /\ r.action = intent[i].action /\ r.symbol = intent[i].symbol
      /\ r.cycle = intent[i].cycle
  BY <1>1 DEF RowShaped
<1>3. intent'[i] = r
  BY <1>1
<1> HIDE DEF r
<1>4. \A k \in Intents : k # i => intent'[k] = intent[k]
  BY <1>1
<1> QED BY <1>2, <1>3, <1>4 DEF SameLife, LiveRow

LEMMA SignalOnward ==
    ASSUME RoutingInv, SignalInv, NEW c \in Calls, OnwardMoves(c)
    PROVE  SignalInv'
<1>1. call[c].pc \notin {"idle", "create"} /\ call[c].intent \in Intents /\ LiveRow(call[c].intent)
  BY OnwardIsBusy DEF SignalInv, AfterCreate
<1>2. SameLife
  <2>1. CASE UNCHANGED intent
    BY <2>1 DEF SameLife, LiveRow
  <2>2. CASE Decide(c)
    <3> DEFINE s == Decided[call[c].pc]
    <3>1. intent' = [intent EXCEPT ![call[c].intent].status = s]
      BY <2>2 DEF Decide
    <3>2. s \notin {"none", "duplicate"}
      BY <2>2 DEF Decide, Decided
    <3> HIDE DEF s
    <3> QED BY <1>1, <3>1, <3>2, DecidedLives
  <2> QED
    BY <2>1, <2>2 DEF OnwardMoves, ReadAutonomous, OpenIntent, ReadPolicy, RouteExit, EffectiveMode,
       WalkForwardGate, LoadAccount, PaperGate, SaveBaseline, RealGate, RunPaperExecution,
       StoreAccount, ReadHalt, Recheck, Size, Submit
<1>3. PICK n : Move(c, n) /\ Onward(c, n)
  BY OnwardSteps
<1>4. call'[c] = n /\ \A d \in Calls : d # c => call'[d] = call[d]
  BY <1>3 DEF Move, RoutingInv
<1>5. call'[c].pc # "create" /\ AfterCreate(c)'
  BY <1>1, <1>2, <1>3, <1>4, IdleTyped DEF Onward, AfterCreate, SameLife
<1>6. \A o \in orders' : OrderShaped(o) /\ o.intent \in Intents /\ LiveRow(o.intent)
  <2>1. CASE UNCHANGED orders
    BY <2>1 DEF SignalInv
  <2>2. CASE Submit(c)
    <3>1. ASSUME NEW o \in orders', o \notin orders PROVE OrderShaped(o) /\ o.intent = call[c].intent
      BY <2>2, <3>1 DEF Submit, OrderShaped
    <3> QED BY <1>1, <3>1 DEF SignalInv
  <2> QED
    BY <2>1, <2>2 DEF OnwardMoves, ReadAutonomous, OpenIntent, ReadPolicy, RouteExit, EffectiveMode,
       WalkForwardGate, LoadAccount, PaperGate, SaveBaseline, RealGate, RunPaperExecution,
       StoreAccount, Decide, ReadHalt, Recheck, Size
<1>7. \A d \in Calls : call'[d] = call[d] \/ (call'[d].pc # "create" /\ AfterCreate(d)')
  BY <1>4, <1>5
<1> QED BY <1>2, <1>6, <1>7, LifeKeeps

\* A request of the panel is about a row that waits, so a live one.
LEMMA SignalRequest ==
    ASSUME RoutingInv, SignalInv, NEW c \in Calls, Approve(c) \/ Reject(c)
    PROVE  SignalInv'
<1>1. UNCHANGED <<intent, orders>>
  BY DEF Approve, Reject
<1>2. PICK i \in Intents, p \in {"policy", "refuse"}, z \in {SIZING_PCT, Idle.sizing} :
        intent[i].status = "pending" /\ Move(c, Begun(i, p, z))
  <2>1. CASE Approve(c)
    BY <2>1 DEF Approve, Begun
  <2>2. CASE Reject(c)
    <3>1. PICK i \in Intents : /\ intent[i].status = "pending"
                               /\ Move(c, [Idle EXCEPT !.pc = "refuse", !.intent = i])
      BY <2>2 DEF Reject
    <3> DEFINE z == Idle.sizing
    <3>2. [Idle EXCEPT !.pc = "refuse", !.intent = i] = Begun(i, "refuse", z)
      BY DEF Begun, Idle
    <3>3. z \in {SIZING_PCT, Idle.sizing}
      OBVIOUS
    <3> HIDE DEF z
    <3> QED BY <3>1, <3>2, <3>3
  <2> QED BY <2>1, <2>2
<1> DEFINE n == Begun(i, p, z)
<1>3. n.pc = p /\ n.intent = i
  BY BegunShaped
<1>4. Move(c, n)
  BY <1>2
<1> HIDE DEF n
<1>5. call'[c] = n /\ \A d \in Calls : d # c => call'[d] = call[d]
  BY <1>4 DEF Move, RoutingInv
<1>6. SameLife
  BY <1>1 DEF SameLife, LiveRow
<1>7. call'[c].pc # "create" /\ AfterCreate(c)'
  BY <1>1, <1>2, <1>3, <1>5 DEF AfterCreate, LiveRow
<1>8. \A d \in Calls : call'[d] = call[d] \/ (call'[d].pc # "create" /\ AfterCreate(d)')
  BY <1>5, <1>7
<1>9. \A o \in orders' : OrderShaped(o) /\ o.intent \in Intents /\ LiveRow(o.intent)
  BY <1>1 DEF SignalInv
<1> QED BY <1>6, <1>8, <1>9, LifeKeeps

LEMMA SignalWorld ==
    ASSUME RoutingInv, SignalInv, WorldMoves PROVE SignalInv'
<1>1. call' = call
  BY DEF WorldMoves, BrokerFills, SetPolicy, VerdictChanges, SwitchChanges, TomorrowComes
<1>2. CASE BrokerFills
  <2>1. PICK o \in orders : /\ intent' = [intent EXCEPT ![o.intent].status = "executed"]
                            /\ orders' = (orders \ {o}) \cup {[o EXCEPT !.done = TRUE]}
    BY <1>2 DEF BrokerFills
  <2>6. OrderShaped(o) /\ o.intent \in Intents /\ LiveRow(o.intent)
    BY DEF SignalInv
  <2>2. SameLife
    <3> DEFINE s == "executed"
               i == o.intent
    <3>1. intent' = [intent EXCEPT ![i].status = s] /\ s \notin {"none", "duplicate"}
      BY <2>1
    <3>2. i \in Intents /\ LiveRow(i)
      BY <2>6
    <3> HIDE DEF s, i
    <3> QED BY <3>1, <3>2, DecidedLives
  <2> DEFINE b == TRUE
             w == [o EXCEPT !.done = b]
  <2>3. orders' = (orders \ {o}) \cup {w}
    BY <2>1
  <2> HIDE DEF b
  <2>4. OrderShaped(w) /\ w.intent = o.intent
    BY <2>6 DEF OrderShaped
  <2> HIDE DEF w
  <2>5. \A x \in orders' : OrderShaped(x) /\ x.intent \in Intents /\ LiveRow(x.intent)
    BY <2>3, <2>4, <2>6 DEF SignalInv
  <2> QED BY <1>1, <2>2, <2>5, LifeKeeps
<1>3. CASE UNCHANGED <<intent, orders>>
  <2>1. SameLife
    BY <1>3 DEF SameLife, LiveRow
  <2>2. \A x \in orders' : OrderShaped(x) /\ x.intent \in Intents /\ LiveRow(x.intent)
    BY <1>3 DEF SignalInv
  <2> QED BY <1>1, <2>1, <2>2, LifeKeeps
<1> QED BY <1>2, <1>3 DEF WorldMoves, SetPolicy, VerdictChanges, SwitchChanges, TomorrowComes

\* The row of the signal, before the step that creates it.
LEMMA SignalRecord ==
    ASSUME RoutingInv, SignalInv, NEW c \in Calls, RecordIntent(c) PROVE SignalInv'
<1>1. PICK i \in Intents, action \in Actions, s \in Symbols :
        /\ intent[i].status = "none" /\ \A d \in Calls : call[d].intent # i
        /\ intent' = [intent EXCEPT ![i] = [status |-> "none", action |-> action,
                                            symbol |-> s, cycle |-> c]]
        /\ Move(c, [Idle EXCEPT !.pc = "create", !.intent = i, !.sizing = Risk.position,
                                !.dup = Prior(c, action, s)])
  BY DEF RecordIntent
<1> DEFINE r == [status |-> "none", action |-> action, symbol |-> s, cycle |-> c]
           k == Prior(c, action, s)
           z == Risk.position
           n == BegunHere(i, "create", z, k)
<1>2. /\ intent' = [intent EXCEPT ![i] = r] /\ r.status = "none" /\ r.action = action
      /\ r.symbol = s /\ r.cycle = c
  BY <1>1
<1>3. Move(c, n)
  BY <1>1 DEF BegunHere
<1>4. ~k => \A j \in Intents : ~(/\ intent[j].status # "none" /\ intent[j].cycle = c
                                 /\ intent[j].action = action /\ intent[j].symbol = s)
  BY DEF Prior
<1>5. n.dup = k
  BY DEF BegunHere, Idle
<1> HIDE DEF r, k, z
<1>6. n.pc = "create" /\ n.intent = i
  BY BegunShaped
<1> HIDE DEF n
<1>7. call'[c] = n /\ \A d \in Calls : d # c => call'[d] = call[d]
  BY <1>3 DEF Move, RoutingInv
<1>8. intent'[i] = r /\ \A j \in Intents : j # i => intent'[j] = intent[j]
  BY <1>2 DEF RoutingInv
<1>9. ~LiveRow(i) /\ ~LiveRow(i)'
  BY <1>1, <1>2, <1>8 DEF LiveRow
<1>10. \A j \in Intents : j # i => LiveRow(j)' = LiveRow(j)
  BY <1>8 DEF LiveRow
<1>11. \A j, l \in Intents : j # i /\ l # i => SameSignal(j, l)' = SameSignal(j, l)
  BY <1>8 DEF SameSignal
<1>12. \A j, l \in Intents : j # l /\ LiveRow(j)' /\ LiveRow(l)' => ~SameSignal(j, l)'
  BY <1>9, <1>10, <1>11 DEF SignalInv
<1>13. BeforeCreate(c)' /\ AfterCreate(c)'
  <2>1. AfterCreate(c)'
    BY <1>6, <1>7 DEF AfterCreate
  <2>2. ~k => \A j \in Intents : j # i /\ LiveRow(j)' => ~SameSignal(j, i)'
    BY <1>2, <1>4, <1>8, <1>10 DEF SameSignal, LiveRow
  <2>3. BeforeCreate(c)'
    BY <1>2, <1>5, <1>6, <1>7, <1>8, <2>2 DEF BeforeCreate
  <2> QED BY <2>1, <2>3
<1>14. ASSUME NEW d \in Calls, d # c PROVE BeforeCreate(d)' /\ AfterCreate(d)'
  <2>1. call'[d] = call[d] /\ call[d].intent # i
    BY <1>1, <1>7, <1>14
  <2>2. AfterCreate(d)'
    BY <1>10, <2>1 DEF SignalInv, AfterCreate
  <2>3. BeforeCreate(d)
    BY DEF SignalInv
  <2>4. BeforeCreate(d)'
    BY <1>8, <1>9, <1>10, <1>11, <2>1, <2>3 DEF BeforeCreate
  <2> QED BY <2>2, <2>4
<1>15. \A o \in orders' : OrderShaped(o) /\ o.intent \in Intents /\ LiveRow(o.intent)'
  BY <1>9, <1>10 DEF RecordIntent, SignalInv
<1> QED BY <1>12, <1>13, <1>14, <1>15 DEF SignalInv

\* The create makes the row live only if the check found no other.
LEMMA SignalCreate ==
    ASSUME RoutingInv, SignalInv, NEW c \in Calls, Create(c) PROVE SignalInv'
<1>0. PICK i \in Intents : i = call[c].intent
  BY DEF Create, At, SignalInv, BeforeCreate
<1> DEFINE s == IF call[c].dup THEN "duplicate" ELSE "pending"
           r == [intent[i] EXCEPT !.status = s]
<1>1. /\ call[c].pc = "create" /\ intent' = [intent EXCEPT ![i].status = s] /\ orders' = orders
      /\ IF call[c].dup THEN Move(c, Idle) ELSE Goto(c, "autonomous")
  BY <1>0 DEF Create, At
<1>2. /\ i \in Intents /\ intent[i].status = "none" /\ intent[i].cycle = c
      /\ ~call[c].dup => \A j \in Intents : j # i /\ LiveRow(j) => ~SameSignal(j, i)
  BY <1>0, <1>1 DEF SignalInv, BeforeCreate
<1>3. (call[c].dup => s = "duplicate") /\ (~call[c].dup => s = "pending")
  OBVIOUS
<1>4. intent = [k \in Intents |-> intent[k]] /\ RowShaped(intent[i])
  BY <1>2 DEF RoutingInv
<1> HIDE DEF s
<1>5. /\ r.status = s /\ r.action = intent[i].action /\ r.symbol = intent[i].symbol
      /\ r.cycle = intent[i].cycle
  BY <1>4 DEF RowShaped
<1>6. intent'[i] = r /\ \A k \in Intents : k # i => intent'[k] = intent[k]
  BY <1>1, <1>2, <1>4
<1> HIDE DEF r
<1>7. \A j \in Intents : j # i => LiveRow(j)' = LiveRow(j)
  BY <1>6 DEF LiveRow
<1>8. ~LiveRow(i) /\ (LiveRow(i)' => ~call[c].dup) /\ (~call[c].dup => LiveRow(i)')
  BY <1>2, <1>3, <1>5, <1>6 DEF LiveRow
<1>9. \A j, l \in Intents : SameSignal(j, l)' = SameSignal(j, l)
  BY <1>5, <1>6 DEF SameSignal
<1>10. \A j, l \in Intents : j # l /\ LiveRow(j)' /\ LiveRow(l)' => ~SameSignal(j, l)'
  <2>1. ASSUME NEW j \in Intents, NEW l \in Intents, j # l, LiveRow(j)', LiveRow(l)'
        PROVE  ~SameSignal(j, l)
    <3>1. CASE j = i
      <4>3. LiveRow(i)'
        BY <2>1, <3>1
      <4>1. l # i /\ LiveRow(l) /\ ~call[c].dup
        BY <1>7, <1>8, <2>1, <3>1, <4>3
      <4>2. ~SameSignal(l, i)
        BY <1>2, <4>1
      <4> QED BY <3>1, <4>2 DEF SameSignal
    <3>2. CASE l = i
      <4>1. LiveRow(i)'
        BY <2>1, <3>2
      <4>2. j # i /\ LiveRow(j) /\ ~call[c].dup
        BY <1>7, <1>8, <2>1, <3>2, <4>1
      <4> QED BY <1>2, <3>2, <4>2
    <3>3. CASE j # i /\ l # i
      BY <1>7, <2>1, <3>3 DEF SignalInv
    <3> QED BY <3>1, <3>2, <3>3
  <2> QED BY <1>9, <2>1
<1>11. \A d \in Calls : d # c => call'[d] = call[d]
  BY <1>1 DEF Move, Goto, RoutingInv
<1>12. BeforeCreate(c)' /\ AfterCreate(c)'
  <2>1. CASE call[c].dup
    <3>1. call'[c] = Idle
      BY <1>1, <2>1 DEF Move, RoutingInv
    <3> QED BY <3>1, IdleTyped DEF BeforeCreate, AfterCreate
  <2>2. CASE ~call[c].dup
    <3>1. call'[c] = [call[c] EXCEPT !.pc = "autonomous"]
      BY <1>1, <2>2 DEF Move, Goto, RoutingInv
    <3>2. call'[c].pc = "autonomous" /\ call'[c].intent = i
      BY <1>0, <3>1 DEF RoutingInv, RouteInv, Shaped
    <3>3. LiveRow(call[c].intent)'
      BY <1>8, <2>2, <3>2 DEF LiveRow
    <3> QED BY <1>2, <3>2, <3>3 DEF BeforeCreate, AfterCreate
  <2> QED BY <2>1, <2>2
<1>13. ASSUME NEW d \in Calls, d # c PROVE BeforeCreate(d)' /\ AfterCreate(d)'
  <2>1. call'[d] = call[d] /\ BeforeCreate(d) /\ AfterCreate(d)
    BY <1>11, <1>13 DEF SignalInv
  <2>2. AfterCreate(d)'
    BY <1>7, <1>8, <2>1 DEF AfterCreate
  <2>3. CASE call[d].pc # "create"
    BY <2>1, <2>2, <2>3 DEF BeforeCreate
  <2>4. CASE call[d].pc = "create"
    <3>1. /\ call[d].intent \in Intents /\ intent[call[d].intent].cycle = d
          /\ intent[call[d].intent].status = "none"
          /\ ~call[d].dup => \A j \in Intents : j # call[d].intent /\ LiveRow(j) =>
                                                  ~SameSignal(j, call[d].intent)
      BY <2>1, <2>4 DEF BeforeCreate
    <3>2. call[d].intent # i
      BY <1>2, <1>13, <3>1
    <3>3. ~SameSignal(i, call[d].intent)
      BY <1>2, <1>13, <3>1 DEF SameSignal
    <3>4. ~call[d].dup => \A j \in Intents : j # call[d].intent /\ LiveRow(j)' =>
                                               ~SameSignal(j, call[d].intent)
      BY <1>7, <3>1, <3>3
    <3>5. /\ intent'[call[d].intent].cycle = d /\ intent'[call[d].intent].status = "none"
      BY <1>6, <3>1, <3>2
    <3>6. ~call[d].dup => \A j \in Intents : j # call[d].intent /\ LiveRow(j)' =>
                                               ~SameSignal(j, call[d].intent)'
      BY <1>9, <2>1, <3>1, <3>4
    <3>7. BeforeCreate(d)'
      BY <2>1, <3>1, <3>5, <3>6 DEF BeforeCreate
    <3> QED BY <2>2, <3>7
  <2> QED BY <2>2, <2>3, <2>4
<1>14. \A o \in orders' : OrderShaped(o) /\ o.intent \in Intents /\ LiveRow(o.intent)'
  BY <1>1, <1>7, <1>8 DEF SignalInv
<1> QED BY <1>10, <1>12, <1>13, <1>14 DEF SignalInv

LEMMA SignalsKeep == RoutingInv /\ SignalInv /\ [RoutingNext]_routingVars => SignalInv'
<1> SUFFICES ASSUME RoutingInv, SignalInv, [RoutingNext]_routingVars PROVE SignalInv'
  OBVIOUS
<1>1. ASSUME NEW c \in Calls, CallMoves(c) PROVE SignalInv'
  BY <1>1, SignalOnward, SignalRequest, SignalRecord, SignalCreate DEF CallMoves, OnwardMoves
<1>2. CASE WorldMoves
  BY <1>2, SignalWorld
<1>3. CASE UNCHANGED routingVars
  <2>1. intent' = intent /\ call' = call /\ orders' = orders
    BY <1>3 DEF routingVars
  <2> QED BY <2>1 DEF SignalInv, BeforeCreate, AfterCreate, LiveRow, SameSignal, OrderShaped
<1> QED BY <1>1, <1>2, <1>3 DEF RoutingNext

\* A cycle that names a symbol and an action twice acts on it once: whatever
\* runs between the duplicate check and the create, at most one row that is
\* no duplicate carries the cycle, the action and the symbol.
THEOREM SignalsActOnce == RoutingSpec => []OneIntentPerSignal
<1>1. RoutingInit => RoutingInv /\ SignalInv
  BY RoutingStarts, SignalsStart
<1>2. RoutingInv /\ SignalInv /\ [RoutingNext]_routingVars => (RoutingInv /\ SignalInv)'
  BY RoutingStepKeeps, SignalsKeep
<1>3. SignalInv => OneIntentPerSignal
  BY DEF SignalInv, OneIntentPerSignal, LiveRow, SameSignal
<1> QED BY <1>1, <1>2, <1>3, PTL DEF RoutingSpec

-----------------------------------------------------------------------------
(* The types                                                               *)

Statuses == {"none", "pending", "duplicate", "real_pending", "executed", "skipped", "rejected", "failed"}
FieldsTyped(r) == r.pc \in Places /\ r.policy \in Policy /\ r.qty \in Nat

\* A row is about a symbol there is, and what a call reads of the policy, and
\* the size of its order, are of theirs.
CallsTyped == \A c \in Calls : FieldsTyped(call[c])
RowsTyped ==
    \A i \in Intents : /\ intent[i].status \in Statuses
                       /\ intent[i].action \in Actions /\ intent[i].symbol \in Symbols
WorldTyped ==
    /\ policy \in Policy /\ robust \in BOOLEAN /\ stopped \in BOOLEAN
    /\ held \in [Symbols -> Int]
    /\ \A o \in orders : o.side \in {"buy", "sell"} /\ o.qty \in Nat
    /\ today \in 1 .. MaxToday /\ changes \in 0 .. MaxChanges

LEMMA IdleFields == FieldsTyped(Idle) /\ Idle.policy \in Policy
BY DEF FieldsTyped, Idle, Policy, Places

LEMMA FieldsGoto ==
    ASSUME NEW r, Shaped(r), FieldsTyped(r), NEW p \in Places
    PROVE  FieldsTyped([r EXCEPT !.pc = p])
BY DEF Shaped, FieldsTyped

LEMMA FieldsRead ==
    ASSUME NEW r, Shaped(r), FieldsTyped(r), NEW a, NEW k, NEW p \in Places
    PROVE  FieldsTyped(WithAccount(r, a, p)) /\ FieldsTyped(WithFill(r, a, k, p))
<1>1. FieldsTyped(WithAccount(r, a, p))
  BY DEF Shaped, FieldsTyped, WithAccount
<1>2. FieldsTyped(WithFill(r, a, k, p))
  BY DEF Shaped, FieldsTyped, WithFill
<1> QED BY <1>1, <1>2

LEMMA FieldsSized ==
    ASSUME NEW r, Shaped(r), FieldsTyped(r), NEW q \in Nat, NEW p \in Places
    PROVE  FieldsTyped(WithSize(r, q, p))
BY DEF Shaped, FieldsTyped, WithSize

LEMMA FieldsRouted ==
    ASSUME NEW r, Shaped(r), FieldsTyped(r), NEW m, NEW b
    PROVE  FieldsTyped(WithRoute(r, m)) /\ FieldsTyped(BlindRoute(r, b))
<1>1. FieldsTyped(WithRoute(r, m))
  BY DEF Shaped, FieldsTyped, WithRoute, Places
<1>2. FieldsTyped(BlindRoute(r, b))
  BY DEF Shaped, FieldsTyped, BlindRoute, Places
<1> QED BY <1>1, <1>2

LEMMA FieldsOfPolicy ==
    ASSUME NEW r, Shaped(r), FieldsTyped(r), NEW p \in Policy
    PROVE  FieldsTyped(WithPolicy(r, p))
BY DEF Shaped, FieldsTyped, WithPolicy, Places

LEMMA FieldsBegun ==
    ASSUME NEW i, NEW z, NEW k, NEW p \in Places
    PROVE  FieldsTyped(Begun(i, p, z)) /\ FieldsTyped(BegunHere(i, p, z, k))
BY IdleFields DEF Begun, BegunHere, FieldsTyped, Idle

\* Wherever a call goes, it is a place there is.
LEMMA MovesTyped ==
    ASSUME RoutingInv, CallsTyped, RowsTyped, WorldTyped, NEW c \in Calls, CallMoves(c)
    PROVE  \E n : Move(c, n) /\ FieldsTyped(n)
<1>1. Shaped(call[c]) /\ FieldsTyped(call[c])
  BY DEF RoutingInv, RouteInv, CallsTyped
<1>2. CASE Move(c, Idle)
  BY <1>2, IdleFields
<1>3. ASSUME NEW p \in Places, Goto(c, p) PROVE \E n : Move(c, n) /\ FieldsTyped(n)
  BY <1>1, <1>3, FieldsGoto DEF Goto
<1>4. ASSUME NEW m, Routed(c, m) PROVE \E n : Move(c, n) /\ FieldsTyped(n)
  <2> DEFINE n == WithRoute(call[c], m)
  <2>1. FieldsTyped(n)
    BY <1>1, FieldsRouted
  <2>2. Move(c, n)
    BY <1>4 DEF Routed, WithRoute
  <2> HIDE DEF n
  <2> QED BY <2>1, <2>2
<1>5. CASE ReadPolicy(c)
  <2>1. FieldsTyped(WithPolicy(call[c], policy))
    BY <1>1, FieldsOfPolicy DEF WorldTyped
  <2> QED BY <1>5, <2>1 DEF ReadPolicy, WithPolicy
<1>6. CASE RouteExit(c)
  <2>1. FieldsTyped(BlindRoute(call[c], TRUE))
    <3> DEFINE b == TRUE
    <3> HIDE DEF b
    <3>1. FieldsTyped(BlindRoute(call[c], b))
      BY <1>1, FieldsRouted
    <3> QED BY <3>1 DEF b
  <2>2. "fail" \in Places
    BY DEF Places
  <2> QED BY <1>3, <1>4, <1>6, <2>1, <2>2 DEF RouteExit, BlindRoute
<1>7. CASE EffectiveMode(c) \/ WalkForwardGate(c)
  <2>1. "verdict" \in Places
    BY DEF Places
  <2> QED BY <1>3, <1>4, <1>7, <2>1 DEF EffectiveMode, WalkForwardGate
<1>8. CASE LoadAccount(c)
  <2> DEFINE a == IF call[c].mode = "paper" THEN account ELSE call[c].account
             p == IF IsEntry(c) THEN "gate"
                  ELSE IF call[c].mode = "real" THEN "halt" ELSE "quote"
  <2>1. Goto(c, "hold") \/ Goto(c, "fail") \/ Move(c, WithAccount(call[c], a, p))
    BY <1>8 DEF LoadAccount, WithAccount
  <2>2. p \in Places /\ {"hold", "fail"} \subseteq Places
    BY DEF Places
  <2> HIDE DEF a, p
  <2>3. FieldsTyped(WithAccount(call[c], a, p))
    BY <1>1, <2>2, FieldsRead
  <2> QED BY <1>3, <2>1, <2>2, <2>3
<1>9. CASE PaperGate(c)
  <2>1. PICK quotes \in [Symbols -> Quotes \cup {0}] :
           LET gate == EvaluateEntryGate(call[c].account, Risk, quotes, Day, Week)
           IN  Move(c, [call[c] EXCEPT
                          !.account = gate.state,
                          !.pc = IF gate.pass THEN "quote"
                                 ELSE IF gate.changed THEN "baseline" ELSE "refuse"])
    BY <1>9 DEF PaperGate
  <2> DEFINE gate == EvaluateEntryGate(call[c].account, Risk, quotes, Day, Week)
             p == IF gate.pass THEN "quote" ELSE IF gate.changed THEN "baseline" ELSE "refuse"
             a == gate.state
  <2>2. Move(c, WithAccount(call[c], a, p))
    BY <2>1 DEF WithAccount
  <2>3. p \in Places
    BY DEF Places
  <2> HIDE DEF gate, p, a
  <2>4. FieldsTyped(WithAccount(call[c], a, p))
    BY <1>1, <2>3, FieldsRead
  <2> QED BY <2>2, <2>4
<1>10. CASE RunPaperExecution(c)
  <2>1. {"fail", "store"} \subseteq Places
    BY DEF Places
  <2>2. CASE Goto(c, "fail")
    BY <1>3, <2>1, <2>2
  <2>3. CASE ~Goto(c, "fail")
    <3>1. PICK price \in Quotes :
            LET fill == ExecuteFill(Mine(c).action, Mine(c).symbol, price, call[c].account,
                                    call[c].sizing, Risk, 0)
            IN  Move(c, [call[c] EXCEPT !.pc = "store", !.account = fill.state,
                           !.closes = Mine(c).action = "exit" /\ fill.quantity # 0])
      BY <1>10, <2>3 DEF RunPaperExecution
    <3> DEFINE fill == ExecuteFill(Mine(c).action, Mine(c).symbol, price, call[c].account,
                                   call[c].sizing, Risk, 0)
               a == fill.state
               k == Mine(c).action = "exit" /\ fill.quantity # 0
    <3>2. Move(c, WithFill(call[c], a, k, "store"))
      BY <3>1 DEF WithFill
    <3> HIDE DEF fill, a, k
    <3>3. FieldsTyped(WithFill(call[c], a, k, "store"))
      BY <1>1, <2>1, FieldsRead
    <3> QED BY <3>2, <3>3
  <2> QED BY <2>2, <2>3
<1>11. CASE Size(c)
  <2> DEFINE q == IF IsEntry(c) THEN 1 ELSE Magnitude(held[Mine(c).symbol])
  <2>1. Goto(c, "fail") \/ Move(c, WithSize(call[c], q, "submit"))
    BY <1>11 DEF Size, WithSize
  <2>2. q \in Nat
    <3>1. call[c].pc = "size" /\ call[c].intent \in Intents
      BY <1>11 DEF Size, At, RoutingInv, RouteInv
    <3>2. held[Mine(c).symbol] \in Int
      BY <3>1 DEF RowsTyped, WorldTyped, Mine
    <3> QED BY <3>2 DEF Magnitude
  <2>3. {"fail", "submit"} \subseteq Places
    BY DEF Places
  <2> HIDE DEF q
  <2>4. FieldsTyped(WithSize(call[c], q, "submit"))
    BY <1>1, <2>2, <2>3, FieldsSized
  <2> QED BY <1>3, <2>1, <2>3, <2>4
<1>12. CASE \/ ReadAutonomous(c) \/ OpenIntent(c) \/ SaveBaseline(c) \/ RealGate(c) \/ Create(c)
            \/ StoreAccount(c) \/ Decide(c) \/ ReadHalt(c) \/ Recheck(c) \/ Submit(c)
  <2>1. \/ Move(c, Idle)
        \/ \E p \in {"autonomous", "open", "policy", "refuse", "halt", "skip", "book", "fail",
                     "recheck", "size", "settle"} : Goto(c, p)
    BY <1>12 DEF ReadAutonomous, OpenIntent, SaveBaseline, RealGate, StoreAccount, Decide,
                 ReadHalt, Recheck, Submit, Create
  <2>2. {"autonomous", "open", "policy", "refuse", "halt", "skip", "book", "fail",
         "recheck", "size", "settle"} \subseteq Places
    BY DEF Places
  <2> QED BY <1>2, <1>3, <2>1, <2>2
<1>13. CASE RecordIntent(c) \/ Approve(c) \/ Reject(c)
  <2>1. {"create", "policy", "refuse"} \subseteq Places
    BY DEF Places
  <2>2. CASE RecordIntent(c)
    <3>1. PICK i \in Intents, action \in Actions, s \in Symbols :
            Move(c, BegunHere(i, "create", Risk.position, Prior(c, action, s)))
      BY <2>2 DEF RecordIntent, BegunHere
    <3> QED BY <2>1, <3>1, FieldsBegun
  <2>3. CASE Approve(c)
    <3>1. PICK i \in Intents : Move(c, Begun(i, "policy", SIZING_PCT))
      BY <2>3 DEF Approve, Begun
    <3> QED BY <2>1, <3>1, FieldsBegun
  <2>4. CASE Reject(c)
    <3>1. PICK i \in Intents : Move(c, [Idle EXCEPT !.pc = "refuse", !.intent = i])
      BY <2>4 DEF Reject
    <3>2. FieldsTyped([Idle EXCEPT !.pc = "refuse", !.intent = i])
      BY <2>1, IdleFields DEF FieldsTyped, Idle
    <3> QED BY <3>1, <3>2
  <2> QED BY <1>13, <2>2, <2>3, <2>4
<1> QED BY <1>5, <1>6, <1>7, <1>8, <1>9, <1>10, <1>11, <1>12, <1>13 DEF CallMoves

LEMMA CallsStayTyped ==
    ASSUME RoutingInv, CallsTyped, RowsTyped, WorldTyped, RoutingNext
    PROVE  CallsTyped'
<1>1. ASSUME NEW c \in Calls, CallMoves(c) PROVE CallsTyped'
  <2>1. PICK n : Move(c, n) /\ FieldsTyped(n)
    BY <1>1, MovesTyped
  <2>2. call'[c] = n /\ \A d \in Calls : d # c => call'[d] = call[d]
    BY <2>1 DEF Move, RoutingInv
  <2>3. \A d \in Calls : FieldsTyped(call'[d])
    BY <2>1, <2>2 DEF CallsTyped
  <2> QED BY <2>3 DEF CallsTyped, FieldsTyped
<1>2. CASE WorldMoves
  <2>1. call' = call
    BY <1>2 DEF WorldMoves, BrokerFills, SetPolicy, VerdictChanges, SwitchChanges, TomorrowComes
  <2> QED BY <2>1 DEF CallsTyped, FieldsTyped
<1> QED BY <1>1, <1>2 DEF RoutingNext

\* A row of status s is a row still.
LEMMA StatusTyped ==
    ASSUME RoutingInv, RowsTyped, NEW i \in Intents, NEW s \in Statuses,
           intent' = [intent EXCEPT ![i].status = s]
    PROVE  RowsTyped'
<1>1. RowShaped(intent[i])
  BY DEF RoutingInv
<1> DEFINE r == [intent[i] EXCEPT !.status = s]
<1>2. r.status = s /\ r.action = intent[i].action /\ r.symbol = intent[i].symbol
  BY <1>1 DEF RowShaped
<1>3. intent = [k \in Intents |-> intent[k]]
  BY DEF RoutingInv
<1>4. intent'[i] = r /\ \A k \in Intents : k # i => intent'[k] = intent[k]
  BY <1>3
<1> HIDE DEF r
<1> QED BY <1>2, <1>4 DEF RowsTyped

LEMMA RowsStayTyped ==
    ASSUME RoutingInv, SignalInv, RowsTyped, RoutingNext
    PROVE  RowsTyped'
<1>1. ASSUME NEW c \in Calls, RecordIntent(c) PROVE RowsTyped'
  <2>1. PICK i \in Intents, action \in Actions, s \in Symbols :
          intent' = [intent EXCEPT ![i] = [status |-> "none", action |-> action,
                                           symbol |-> s, cycle |-> c]]
    BY <1>1 DEF RecordIntent
  <2>2. intent = [k \in Intents |-> intent[k]]
    BY DEF RoutingInv
  <2> DEFINE r == [status |-> "none", action |-> action, symbol |-> s, cycle |-> c]
  <2>3. r.status = "none" /\ r.action = action /\ r.symbol = s
    OBVIOUS
  <2> HIDE DEF r
  <2>4. intent'[i] = r /\ \A k \in Intents : k # i => intent'[k] = intent[k]
    BY <2>1, <2>2 DEF r
  <2> QED BY <2>3, <2>4 DEF RowsTyped, Statuses
<1>2. ASSUME NEW c \in Calls, Create(c) PROVE RowsTyped'
  <2>1. call[c].intent \in Intents
    BY <1>2 DEF Create, At, RoutingInv, RouteInv
  <2> DEFINE s == IF call[c].dup THEN "duplicate" ELSE "pending"
  <2>2. intent' = [intent EXCEPT ![call[c].intent].status = s] /\ s \in Statuses
    BY <1>2 DEF Create, Statuses
  <2> HIDE DEF s
  <2> QED BY <2>1, <2>2, StatusTyped
<1>3. ASSUME NEW c \in Calls, Decide(c) PROVE RowsTyped'
  <2>1. call[c].intent \in Intents
    BY <1>3 DEF Decide, Decided, RoutingInv, RouteInv
  <2>2. Decided[call[c].pc] \in Statuses
    BY <1>3 DEF Decide, Decided, Statuses
  <2> QED BY <1>3, <2>1, <2>2, StatusTyped DEF Decide
<1>4. CASE BrokerFills
  <2>1. PICK o \in orders : intent' = [intent EXCEPT ![o.intent].status = "executed"]
    BY <1>4 DEF BrokerFills
  <2>2. o.intent \in Intents /\ "executed" \in Statuses
    BY DEF SignalInv, Statuses
  <2> QED BY <2>1, <2>2, StatusTyped
<1>5. CASE intent' = intent
  BY <1>5 DEF RowsTyped
<1>6. \/ \E c \in Calls : RecordIntent(c) \/ Create(c) \/ Decide(c)
      \/ BrokerFills \/ intent' = intent
  BY DEF RoutingNext, CallMoves, ReadAutonomous, OpenIntent, Approve, Reject, ReadPolicy, RouteExit,
         EffectiveMode, WalkForwardGate, LoadAccount, PaperGate, SaveBaseline, RealGate,
         RunPaperExecution, StoreAccount, ReadHalt, Recheck, Size, Submit,
         WorldMoves, SetPolicy, VerdictChanges, SwitchChanges, TomorrowComes
<1> QED BY <1>1, <1>2, <1>3, <1>4, <1>5, <1>6

LEMMA WorldStaysTyped ==
    ASSUME RoutingInv, SignalInv, CallsTyped, RowsTyped, WorldTyped, RoutingNext
    PROVE  WorldTyped'
<1>0. /\ policy \in Policy /\ robust \in BOOLEAN /\ stopped \in BOOLEAN /\ held \in [Symbols -> Int]
      /\ \A o \in orders : o.side \in {"buy", "sell"} /\ o.qty \in Nat
      /\ today \in 1 .. MaxToday /\ changes \in 0 .. MaxChanges
      /\ MaxToday \in Nat /\ MaxChanges \in Nat
  BY RoutingAssumption DEF WorldTyped
<1>1. ASSUME NEW c \in Calls, CallMoves(c) PROVE WorldTyped'
  <2>1. UNCHANGED worldVars
    BY <1>1 DEF CallMoves, RecordIntent, Create, ReadAutonomous, OpenIntent, Approve, Reject,
                ReadPolicy, RouteExit, EffectiveMode, WalkForwardGate, LoadAccount, PaperGate,
                SaveBaseline, RealGate, RunPaperExecution, StoreAccount, Decide, ReadHalt,
                Recheck, Size, Submit
  <2>2. CASE orders' = orders
    BY <2>1, <2>2 DEF worldVars, WorldTyped
  <2>3. CASE Submit(c)
    <3> DEFINE o == [intent |-> call[c].intent, side |-> Side(Mine(c).action),
                     qty |-> call[c].qty, done |-> FALSE]
    <3>1. orders' = orders \/ orders' = orders \cup {o}
      BY <2>3 DEF Submit
    <3>2. o.side \in {"buy", "sell"} /\ o.qty \in Nat
      BY DEF Side, CallsTyped, FieldsTyped
    <3> HIDE DEF o
    <3>3. \A x \in orders' : x.side \in {"buy", "sell"} /\ x.qty \in Nat
      BY <1>0, <3>1, <3>2
    <3> QED BY <2>1, <3>3 DEF worldVars, WorldTyped
  <2> QED BY <1>1, <2>2, <2>3
       DEF CallMoves, RecordIntent, Create, ReadAutonomous, OpenIntent, Approve, Reject,
           ReadPolicy, RouteExit, EffectiveMode, WalkForwardGate, LoadAccount, PaperGate,
           SaveBaseline, RealGate, RunPaperExecution, StoreAccount, Decide, ReadHalt, Recheck, Size
<1>2. CASE BrokerFills
  <2>1. PICK o \in orders :
          /\ held' = [held EXCEPT ![intent[o.intent].symbol] = @ + Trade(o)]
          /\ orders' = (orders \ {o}) \cup {[o EXCEPT !.done = TRUE]}
    BY <1>2 DEF BrokerFills
  <2>2. UNCHANGED <<policy, robust, stopped, today, changes>>
    BY <1>2 DEF BrokerFills
  <2>3. OrderShaped(o) /\ intent[o.intent].symbol \in Symbols
    BY DEF SignalInv, RowsTyped
  <2>4. Trade(o) \in Int
    BY <1>0 DEF Trade
  <2> DEFINE done == [o EXCEPT !.done = TRUE]
  <2>5. done.side = o.side /\ done.qty = o.qty
    BY <2>3 DEF OrderShaped
  <2> HIDE DEF done
  <2>6. \A x \in orders' : x.side \in {"buy", "sell"} /\ x.qty \in Nat
    BY <1>0, <2>1, <2>5 DEF done
  <2>7. held' \in [Symbols -> Int]
    BY <1>0, <2>1, <2>3, <2>4
  <2> QED BY <1>0, <2>2, <2>6, <2>7 DEF WorldTyped
<1>3. CASE SetPolicy
  <2>1. PICK key \in DOMAIN policy : policy' = [policy EXCEPT ![key] = ~policy[key]]
    BY <1>3 DEF SetPolicy
  <2>2. policy' \in Policy
    BY <1>0, <2>1 DEF Policy
  <2> QED BY <1>0, <1>3, <2>2 DEF SetPolicy, WorldTyped
<1>4. CASE VerdictChanges \/ SwitchChanges \/ TomorrowComes
  <2>1. UNCHANGED <<policy, held, orders>> /\ robust' \in BOOLEAN /\ stopped' \in BOOLEAN
    BY <1>0, <1>4 DEF VerdictChanges, SwitchChanges, TomorrowComes
  <2>2. /\ today' = today \/ (today < MaxToday /\ today' = today + 1)
        /\ changes' = changes \/ (changes < MaxChanges /\ changes' = changes + 1)
    BY <1>4 DEF VerdictChanges, SwitchChanges, TomorrowComes
  <2> QED BY <1>0, <2>1, <2>2 DEF WorldTyped
<1> QED BY <1>1, <1>2, <1>3, <1>4 DEF RoutingNext, WorldMoves

\* The types of the routing: whatever a call has read and whatever it became of
\* its row, it is at a place there is, about an intent there is.
THEOREM RoutingKeepsTypes == RoutingSpec => []RoutingTypeOK
<1> DEFINE Typed == RoutingInv /\ SignalInv /\ CallsTyped /\ RowsTyped /\ WorldTyped
<1>1. RoutingInit => CallsTyped /\ RowsTyped /\ WorldTyped
  <2> SUFFICES ASSUME RoutingInit PROVE CallsTyped /\ RowsTyped /\ WorldTyped OBVIOUS
  <2>1. CallsTyped
    BY IdleFields DEF RoutingInit, CallsTyped
  <2>2. RowsTyped
    BY RoutingAssumption DEF RoutingInit, RowsTyped, NoIntent, Statuses, Actions
  <2>3. WorldTyped
    <3>1. policy \in Policy /\ held \in [Symbols -> Int]
      BY DEF RoutingInit, Policy
    <3>2. 1 \in 1 .. MaxToday /\ 0 \in 0 .. MaxChanges
      BY RoutingAssumption
    <3> QED BY <3>1, <3>2 DEF RoutingInit, WorldTyped
  <2> QED BY <2>1, <2>2, <2>3
<1>2. RoutingInit => Typed
  BY <1>1, RoutingStarts, SignalsStart
<1>3. Typed /\ [RoutingNext]_routingVars => CallsTyped' /\ RowsTyped' /\ WorldTyped'
  <2> SUFFICES ASSUME Typed, [RoutingNext]_routingVars PROVE CallsTyped' /\ RowsTyped' /\ WorldTyped'
    OBVIOUS
  <2>1. CASE RoutingNext
    BY <2>1, CallsStayTyped, RowsStayTyped, WorldStaysTyped
  <2>2. CASE UNCHANGED routingVars
    BY <2>2 DEF routingVars, worldVars, CallsTyped, FieldsTyped, RowsTyped, WorldTyped
  <2> QED BY <2>1, <2>2
<1>4. Typed /\ [RoutingNext]_routingVars => Typed'
  BY <1>3, RoutingStepKeeps, SignalsKeep
<1>5. Typed => RoutingTypeOK
  <2> SUFFICES ASSUME Typed PROVE RoutingTypeOK OBVIOUS
  <2>1. \A i \in Intents :
          /\ intent[i].status \in {"none", "pending", "duplicate", "real_pending"}
                                    \cup {Decided[pc] : pc \in DOMAIN Decided}
          /\ intent[i].action \in Actions /\ intent[i].symbol \in Symbols
    <3>1. /\ Decided["hold"] = "executed" /\ Decided["skip"] = "skipped"
          /\ Decided["refuse"] = "rejected" /\ Decided["fail"] = "failed"
          /\ {"hold", "skip", "refuse", "fail"} \subseteq DOMAIN Decided
      BY DEF Decided
    <3>2. Statuses \subseteq {"none", "pending", "duplicate", "real_pending"}
                               \cup {Decided[pc] : pc \in DOMAIN Decided}
      BY <3>1 DEF Statuses
    <3> QED BY <3>2 DEF RowsTyped
  <2>2. \A c \in Calls : /\ call[c].pc \in Places /\ call[c].policy \in Policy
                         /\ call[c].pc # "idle" => call[c].intent \in Intents
    BY DEF CallsTyped, FieldsTyped, RoutingInv, RouteInv
  <2>3. \A o \in orders : o.intent \in Intents /\ o.side \in {"buy", "sell"} /\ o.qty \in Nat
    BY DEF SignalInv, WorldTyped
  <2> QED BY <2>1, <2>2, <2>3 DEF RoutingTypeOK, WorldTyped
<1> HIDE DEF Typed
<1>6. RoutingSpec => []Typed
  BY <1>2, <1>4, PTL DEF RoutingSpec
<1> QED BY <1>5, <1>6, PTL
=============================================================================
