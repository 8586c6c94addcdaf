----------------------------- MODULE CycleProofs -----------------------------
(***************************************************************************)
(* Theorems about the trading cycle, for every set of skills, proposals,   *)
(* disciplines and replies and every bound: the run of the hooks in the    *)
(* sandbox (SkillChain), the veto layer and its ledger (AgentCycle), the   *)
(* governed LLM turn (GovernedTurn) and, for every portfolio, batch of     *)
(* signals and limit, the layers of the risk manager (RiskDiscipline).     *)
(***************************************************************************)
EXTENDS MCTradingCycle, IntentRoutingProofs, LearningProofs, FoldFacts, TLAPS

-----------------------------------------------------------------------------
(* SkillChain                                                              *)

Handable == UNION {SignalsOf(p) : p \in SkillNames}
Tags == UNION {[marked -> SkillNames] : marked \in SUBSET Handable}
Gatherings == [list : Seq(Handable), tag : Tags, errors : SUBSET SkillNames]

LEMMA SkillBounds ==
    /\ Len(SkillIds) \in Nat /\ DOMAIN SkillIds = 1 .. Len(SkillIds)
    /\ \A k \in DOMAIN SkillIds : SkillIds[k] \in SkillNames
    /\ HookConducts \subseteq [SkillNames -> Conducts]
BY SkillChainAssumption, LenProperties, ElementOfSeq

LEMMA HandableSignals ==
    ASSUME NEW p \in SkillNames
    PROVE  /\ <<p, 1>> \in Handable /\ <<p, 2>> \in Handable
           /\ SignalsOf(p) = {<<p, 1>>, <<p, 2>>}
<1>1. 1 .. 2 = {1, 2}
  OBVIOUS
<1>2. SignalsOf(p) = {<<p, 1>>, <<p, 2>>}
  BY <1>1 DEF SignalsOf
<1>3. SignalsOf(p) \subseteq Handable
  BY DEF Handable
<1> QED BY <1>2, <1>3

\* One signal more in the list.
LEMMA PutTyped ==
    ASSUME NEW got \in Gatherings, NEW p \in SkillNames, NEW s \in Handable
    PROVE  /\ PutSignal(got, p, s) \in Gatherings
           /\ PutSignal(got, p, s).errors = got.errors
           /\ ToSet(PutSignal(got, p, s).list) = ToSet(got.list) \cup {s}
<1> DEFINE put == PutSignal(got, p, s)
           tag == [x \in DOMAIN got.tag \cup {s} |-> IF x = s THEN p ELSE got.tag[x]]
<1>1. got.list \in Seq(Handable) /\ got.tag \in Tags /\ got.errors \in SUBSET SkillNames
  BY DEF Gatherings
<1>2. tag \in Tags
  <2>1. PICK marked \in SUBSET Handable : got.tag \in [marked -> SkillNames]
    BY <1>1 DEF Tags
  <2>2. tag \in [marked \cup {s} -> SkillNames]
    BY <2>1
  <2>3. marked \cup {s} \in SUBSET Handable
    BY <2>1
  <2> HIDE DEF tag
  <2> QED BY <2>2, <2>3 DEF Tags
<1> DEFINE list == Append(got.list, s)
<1>3. put = [got EXCEPT !.list = list, !.tag = tag]
  BY DEF PutSignal
<1> HIDE DEF tag, put, list
<1>4. list \in Seq(Handable) /\ ToSet(list) = ToSet(got.list) \cup {s}
  BY <1>1, ElementsOfAppend DEF list
<1>5. put \in Gatherings /\ put.errors = got.errors /\ put.list = list
  BY <1>1, <1>2, <1>3, <1>4 DEF Gatherings
<1> QED BY <1>4, <1>5 DEF put

\* All the signals of a hook in the list.
Collected(more, got, signals, k) ==
    /\ more \in Gatherings /\ more.errors = got.errors
    /\ ToSet(more.list) = ToSet(got.list) \cup {signals[j] : j \in 1 .. k}

LEMMA CollectTyped ==
    ASSUME NEW got \in Gatherings, NEW p \in SkillNames, NEW signals \in Seq(Handable)
    PROVE  /\ Collect(got, p, signals) \in Gatherings
           /\ Collect(got, p, signals).errors = got.errors
           /\ ToSet(Collect(got, p, signals).list) = ToSet(got.list) \cup ToSet(signals)
<1> DEFINE n == Len(signals)
           step == [q \in (1 .. n) \X Gatherings |-> PutSignal(q[2], p, signals[q[1]])]
           Right(fold) ==
             fold = [A \in SUBSET (DOMAIN signals) |->
                       IF A = {} THEN got
                       ELSE PutSignal(fold[A \ {Max(A)}], p, signals[Max(A)])]
           chosen == CHOOSE fold : Right(fold)
<1>1. n \in Nat /\ DOMAIN signals = 1 .. n /\ \A k \in 1 .. n : signals[k] \in Handable
  BY LenProperties, ElementOfSeq
<1>2. PICK fold : LeftFolds(fold, n, Gatherings, step, got)
  <2>1. step \in [(1 .. n) \X Gatherings -> Gatherings]
    BY <1>1, PutTyped
  <2>2. n \in Nat
    BY <1>1
  <2> HIDE DEF step, n
  <2> QED BY <2>1, <2>2, LeftFoldExists
<1>3. Right(fold)
  <2>1. ASSUME NEW A \in SUBSET (1 .. n), A # {}
        PROVE  fold[A] = PutSignal(fold[A \ {Max(A)}], p, signals[Max(A)])
    BY <1>2, <2>1 DEF LeftFolds
  <2> QED BY <1>1, <1>2, <2>1 DEF LeftFolds
<1>4. Right(chosen) /\ Collect(got, p, signals) = chosen[1 .. n]
  <2>1. Right(chosen)
    BY <1>3
  <2>2. Collect(got, p, signals) = chosen[DOMAIN signals]
    BY DEF Collect, FoldLeft, MapThenFoldSet
  <2> QED BY <1>1, <2>1, <2>2
<1> HIDE DEF chosen
<1> DEFINE T == {k \in Nat : k <= n => Collected(chosen[1 .. k], got, signals, k)}
<1>5. 0 \in T
  <2>1. 1 .. 0 = {}
    OBVIOUS
  <2>2. chosen[{}] = got
    BY <1>1, <1>4
  <2>3. Collected(got, got, signals, 0)
    BY <2>1 DEF Collected
  <2> QED BY <2>1, <2>2, <2>3
<1>6. ASSUME NEW k \in Nat, k \in T PROVE k + 1 \in T
  <2> SUFFICES ASSUME k + 1 <= n PROVE Collected(chosen[1 .. k + 1], got, signals, k + 1)
    OBVIOUS
  <2>1. Collected(chosen[1 .. k], got, signals, k) /\ k + 1 \in 1 .. n
    BY <1>1, <1>6
  <2>2. /\ 1 .. k + 1 \in SUBSET (1 .. n) /\ 1 .. k + 1 # {}
        /\ Max(1 .. k + 1) = k + 1 /\ (1 .. k + 1) \ {k + 1} = 1 .. k
    <3>1. (k + 1) - 1 = k
      OBVIOUS
    <3> QED BY <1>1, <2>1, <3>1, PrefixFacts
  <2>3. chosen[1 .. k + 1] = PutSignal(chosen[1 .. k], p, signals[k + 1])
    BY <1>1, <1>4, <2>2
  <2>4. {signals[j] : j \in 1 .. k + 1} = {signals[j] : j \in 1 .. k} \cup {signals[k + 1]}
    <3>1. 1 .. k + 1 = (1 .. k) \cup {k + 1}
      OBVIOUS
    <3> QED BY <3>1
  <2>5. signals[k + 1] \in Handable /\ chosen[1 .. k] \in Gatherings
    BY <1>1, <2>1 DEF Collected
  <2> DEFINE before == chosen[1 .. k]
             after == chosen[1 .. k + 1]
  <2> HIDE DEF n, before, after
  <2>6. after \in Gatherings /\ after.errors = before.errors
        /\ ToSet(after.list) = ToSet(before.list) \cup {signals[k + 1]}
    <3>1. before \in Gatherings /\ after = PutSignal(before, p, signals[k + 1])
      BY <2>3, <2>5 DEF before, after
    <3> DEFINE s == signals[k + 1]
    <3>2. s \in Handable
      BY <2>5
    <3> HIDE DEF s
    <3>3. /\ PutSignal(before, p, s) \in Gatherings /\ PutSignal(before, p, s).errors = before.errors
          /\ ToSet(PutSignal(before, p, s).list) = ToSet(before.list) \cup {s}
      BY <3>1, <3>2, PutTyped
    <3>4. after = PutSignal(before, p, s)
      BY <3>1 DEF s
    <3>5. /\ after \in Gatherings /\ after.errors = before.errors
          /\ ToSet(after.list) = ToSet(before.list) \cup {s}
      BY <3>3, <3>4
    <3> QED BY <3>5 DEF s
  <2>7. Collected(before, got, signals, k)
    BY <2>1 DEF before
  <2>8. Collected(after, got, signals, k + 1)
    BY <2>4, <2>6, <2>7 DEF Collected
  <2> QED BY <2>8 DEF after
<1> HIDE DEF T
<1>7. n \in T
  BY <1>1, <1>5, <1>6, NatSetInduction
<1>8. Collected(Collect(got, p, signals), got, signals, n)
  BY <1>1, <1>4, <1>7 DEF T
<1>9. {signals[j] : j \in 1 .. n} = ToSet(signals)
  BY <1>1 DEF ToSet
<1> QED BY <1>8, <1>9 DEF Collected

\* What the hook of p hands over, and whether it clears the list or raises.
HandedBy(conduct, p) ==
    IF conduct = "signals" THEN SignalsOf(p)
    ELSE IF conduct \in {"half", "repeats", "empties"} THEN {<<p, 1>>} ELSE {}
Raising == {"broken", "raises", "half"}

Adds(after, got, p, conduct) ==
    /\ after \in Gatherings
    /\ ToSet(after.list) = HandedBy(conduct, p)
         \cup (IF conduct = "empties" THEN {} ELSE ToSet(got.list))
    /\ after.errors = got.errors \cup (IF conduct \in Raising THEN {p} ELSE {})

LEMMA ReportTyped ==
    ASSUME NEW got \in Gatherings, NEW p \in SkillNames
    PROVE  /\ Report(got, p) \in Gatherings /\ Report(got, p).list = got.list
           /\ Report(got, p).errors = got.errors \cup {p}
BY DEF Report, Gatherings

LEMMA ListOfOne ==
    ASSUME NEW x
    PROVE  ToSet(<<x>>) = {x}
BY DEF ToSet

LEMMA ListOfTwo ==
    ASSUME NEW x, NEW y
    PROVE  ToSet(<<x, y>>) = {x, y}
BY DEF ToSet

LEMMA CalledAdds ==
    ASSUME NEW got \in Gatherings, NEW p \in SkillNames, NEW conduct \in Conducts \ {"broken"}
    PROVE  Adds(Called(got, p, conduct), got, p, conduct)
<1> DEFINE called == Called(got, p, conduct)
<1>1. /\ <<p, 1>> \in Handable /\ <<p, 2>> \in Handable
      /\ SignalsOf(p) = {<<p, 1>>, <<p, 2>>}
  BY HandableSignals
<1>2. got.list \in Seq(Handable)
  BY DEF Gatherings
<1> DEFINE one == <<p, 1>>
           two == <<p, 2>>
<1> HIDE DEF one, two
<1>3. one \in Handable /\ two \in Handable /\ SignalsOf(p) = {one, two}
  BY <1>1 DEF one, two
<1>4. /\ <<one>> \in Seq(Handable) /\ <<one, two>> \in Seq(Handable)
      /\ ToSet(<<one>>) = {one} /\ ToSet(<<one, two>>) = {one, two}
  BY <1>3, ListOfOne, ListOfTwo
<1>5. CASE conduct = "signals"
  <2>1. called = Collect(got, p, <<one, two>>)
    BY <1>5 DEF Called, one, two
  <2>2. /\ called \in Gatherings /\ called.errors = got.errors
        /\ ToSet(called.list) = ToSet(got.list) \cup {one, two}
    <3> DEFINE list == <<one, two>>
    <3> HIDE DEF list
    <3>1. list \in Seq(Handable) /\ ToSet(list) = {one, two}
      BY <1>4 DEF list
    <3>2. /\ Collect(got, p, list) \in Gatherings /\ Collect(got, p, list).errors = got.errors
          /\ ToSet(Collect(got, p, list).list) = ToSet(got.list) \cup ToSet(list)
      BY <3>1, CollectTyped
    <3>3. called = Collect(got, p, list)
      BY <2>1 DEF list
    <3> HIDE DEF called
    <3> QED BY <3>1, <3>2, <3>3
  <2> QED BY <1>3, <1>5, <2>2 DEF Adds, HandedBy, Raising
<1>6. CASE conduct = "half"
  <2> DEFINE got1 == Collect(got, p, <<one>>)
  <2>1. called = Report(got1, p)
    BY <1>6 DEF Called, one
  <2>2. /\ got1 \in Gatherings /\ got1.errors = got.errors
        /\ ToSet(got1.list) = ToSet(got.list) \cup {one}
    <3> DEFINE list == <<one>>
    <3> HIDE DEF list
    <3>1. list \in Seq(Handable) /\ ToSet(list) = {one}
      BY <1>4 DEF list
    <3>2. /\ Collect(got, p, list) \in Gatherings /\ Collect(got, p, list).errors = got.errors
          /\ ToSet(Collect(got, p, list).list) = ToSet(got.list) \cup ToSet(list)
      BY <3>1, CollectTyped
    <3>3. got1 = Collect(got, p, list)
      BY DEF list
    <3> HIDE DEF got1
    <3> QED BY <3>1, <3>2, <3>3
  <2> HIDE DEF got1
  <2>3. /\ called \in Gatherings /\ called.list = got1.list /\ called.errors = got1.errors \cup {p}
    BY <2>1, <2>2, ReportTyped
  <2> QED BY <1>6, <2>2, <2>3 DEF Adds, HandedBy, Raising, one
<1>7. CASE conduct = "raises"
  <2>1. called = Report(got, p)
    BY <1>7 DEF Called
  <2> QED BY <1>7, <2>1, ReportTyped DEF Adds, HandedBy, Raising
<1>8. CASE conduct = "repeats"
  <2>1. called = Collect(got, p, Append(got.list, one))
    BY <1>8 DEF Called, one
  <2>2. /\ Append(got.list, one) \in Seq(Handable)
        /\ ToSet(Append(got.list, one)) = ToSet(got.list) \cup {one}
    BY <1>2, <1>3, ElementsOfAppend
  <2> DEFINE more == Append(got.list, one)
  <2> HIDE DEF more
  <2>3. /\ called \in Gatherings /\ called.errors = got.errors
        /\ ToSet(called.list) = ToSet(got.list) \cup {one}
    <3>1. more \in Seq(Handable) /\ ToSet(more) = ToSet(got.list) \cup {one}
      BY <2>2 DEF more
    <3>2. /\ Collect(got, p, more) \in Gatherings /\ Collect(got, p, more).errors = got.errors
          /\ ToSet(Collect(got, p, more).list) = ToSet(got.list) \cup ToSet(more)
      BY <3>1, CollectTyped
    <3>3. called = Collect(got, p, more)
      BY <2>1 DEF more
    <3> HIDE DEF called
    <3> QED BY <3>1, <3>2, <3>3
  <2> QED BY <1>8, <2>3 DEF Adds, HandedBy, Raising, one
<1>9. CASE conduct = "empties"
  <2> DEFINE got1 == [got EXCEPT !.list = <<>>]
  <2>1. called = Collect(got1, p, <<one>>)
    BY <1>9 DEF Called, one
  <2>2. got1 \in Gatherings /\ got1.errors = got.errors /\ got1.list = <<>>
    <3>1. <<>> \in Seq(Handable)
      OBVIOUS
    <3> DEFINE none == <<>>
    <3> HIDE DEF none
    <3>2. none \in Seq(Handable)
      BY <3>1 DEF none
    <3>3. /\ [got EXCEPT !.list = none] \in Gatherings
          /\ [got EXCEPT !.list = none].errors = got.errors
          /\ [got EXCEPT !.list = none].list = none
      BY <3>2 DEF Gatherings
    <3> QED BY <3>3 DEF none
  <2>3. ToSet(<<>>) = {}
    BY DEF ToSet
  <2> HIDE DEF got1
  <2>4. called \in Gatherings /\ called.errors = got.errors /\ ToSet(called.list) = {one}
    <3> DEFINE list == <<one>>
    <3> HIDE DEF list
    <3>1. list \in Seq(Handable) /\ ToSet(list) = {one}
      BY <1>4 DEF list
    <3>2. /\ Collect(got1, p, list) \in Gatherings /\ Collect(got1, p, list).errors = got1.errors
          /\ ToSet(Collect(got1, p, list).list) = ToSet(got1.list) \cup ToSet(list)
      BY <2>2, <3>1, CollectTyped
    <3>3. called = Collect(got1, p, list)
      BY <2>1 DEF list
    <3> HIDE DEF called
    <3> QED BY <2>2, <2>3, <3>1, <3>2, <3>3
  <2> QED BY <1>9, <2>4 DEF Adds, HandedBy, Raising, one
<1>10. CASE conduct \notin {"signals", "half", "raises", "repeats", "empties"}
  <2>1. called = got
    BY <1>10 DEF Called
  <2> QED BY <1>10, <2>1 DEF Adds, HandedBy, Raising
<1> QED BY <1>5, <1>6, <1>7, <1>8, <1>9, <1>10

\* A broken import is reported like a hook that raises.
LEMMA BrokenAdds ==
    ASSUME NEW got \in Gatherings, NEW p \in SkillNames
    PROVE  Adds(Report(got, p), got, p, "broken")
BY ReportTyped DEF Adds, HandedBy, Raising

\* The places of the skills before n, and of those whose signals no later one
\* took out; what these handed over, and who of the former raised.
ActiveBefore(active, n) == {k \in DOMAIN SkillIds : SkillIds[k] \in active /\ k < n}
LiveSkills(conduct, active, n) ==
    {k \in ActiveBefore(active, n) :
       \A e \in ActiveBefore(active, n) : conduct[SkillIds[e]] = "empties" => e <= k}
Gathered(conduct, active, n) ==
    UNION {HandedBy(conduct[SkillIds[k]], SkillIds[k]) : k \in LiveSkills(conduct, active, n)}
Raised(conduct, active, n) ==
    {SkillIds[k] : k \in {j \in ActiveBefore(active, n) : conduct[SkillIds[j]] \in Raising}}

ChainRecord ==
    [pc : {"idle", "runner", "ok", "lost"}, conduct : HookConducts \cup {<<>>},
     active : SUBSET SkillNames, at : 0 .. Len(SkillIds) + 1, got : Gatherings]

ChainInv ==
    /\ chain \in ChainRecord
    /\ chain.pc \in {"runner", "ok"} =>
         /\ chain.conduct \in HookConducts
         /\ chain.at > 0
         /\ ToSet(chain.got.list) = Gathered(chain.conduct, chain.active, chain.at)
         /\ chain.got.errors = Raised(chain.conduct, chain.active, chain.at)
    /\ chain.pc = "ok" => chain.at = Len(SkillIds) + 1

LEMMA IdleChain ==
    /\ NoChain \in ChainRecord /\ NoChain.pc = "idle" /\ NoChain.got = NoSignals
    /\ NoSignals \in Gatherings /\ ToSet(NoSignals.list) = {} /\ NoSignals.errors = {}
<1>1. NoSignals \in Gatherings
  <2>1. <<>> \in Seq(Handable)
    OBVIOUS
  <2>2. <<>> \in [{} -> SkillNames]
    OBVIOUS
  <2>3. <<>> \in Tags
    BY <2>2 DEF Tags
  <2> DEFINE none == <<>>
  <2> HIDE DEF none
  <2>4. none \in Seq(Handable) /\ none \in Tags
    BY <2>1, <2>3 DEF none
  <2>5. [list |-> none, tag |-> none, errors |-> {}] \in Gatherings
    BY <2>4 DEF Gatherings
  <2> QED BY <2>5 DEF NoSignals, none
<1>2. 0 \in 0 .. Len(SkillIds) + 1
  BY SkillBounds
<1>3. ToSet(<<>>) = {}
  BY DEF ToSet
<1>4. NoSignals.list = <<>> /\ NoSignals.errors = {}
  BY DEF NoSignals
<1> QED BY <1>1, <1>2, <1>3, <1>4 DEF NoChain, ChainRecord

LEMMA ChainStarts == ChainInit => ChainInv
BY IdleChain DEF ChainInit, ChainInv

\* Another skill is behind the place.
LEMMA OneMoreLive ==
    ASSUME NEW conduct, NEW active, NEW k \in DOMAIN SkillIds
    PROVE  /\ SkillIds[k] \notin active =>
                /\ ActiveBefore(active, k + 1) = ActiveBefore(active, k)
                /\ LiveSkills(conduct, active, k + 1) = LiveSkills(conduct, active, k)
           /\ SkillIds[k] \in active =>
                /\ ActiveBefore(active, k + 1) = ActiveBefore(active, k) \cup {k}
                /\ conduct[SkillIds[k]] = "empties" => LiveSkills(conduct, active, k + 1) = {k}
                /\ conduct[SkillIds[k]] # "empties" =>
                     LiveSkills(conduct, active, k + 1) = LiveSkills(conduct, active, k) \cup {k}
<1>1. k \in Int /\ \A j \in DOMAIN SkillIds : j \in Int
  BY SkillBounds
<1>2. \A j \in DOMAIN SkillIds : j < k + 1 <=> j < k \/ j = k
  BY <1>1
<1>3. \A j \in ActiveBefore(active, k) : j \in DOMAIN SkillIds /\ j < k
  BY DEF ActiveBefore
<1>4. CASE SkillIds[k] \notin active
  <2>1. ActiveBefore(active, k + 1) = ActiveBefore(active, k)
    BY <1>2, <1>4 DEF ActiveBefore
  <2> QED BY <1>4, <2>1 DEF LiveSkills
<1>5. CASE SkillIds[k] \in active
  <2>1. ActiveBefore(active, k + 1) = ActiveBefore(active, k) \cup {k}
    BY <1>2, <1>5 DEF ActiveBefore
  <2>2. LiveSkills(conduct, active, k + 1) =
          {j \in ActiveBefore(active, k) \cup {k} :
             \A e \in ActiveBefore(active, k) \cup {k} : conduct[SkillIds[e]] = "empties" => e <= j}
    BY <2>1 DEF LiveSkills
  <2>3. \A e \in ActiveBefore(active, k) : e <= k /\ ~(k <= e)
    BY <1>1, <1>3
  <2>4. k <= k
    BY <1>1
  <2>5. CASE conduct[SkillIds[k]] = "empties"
    <3>1. LiveSkills(conduct, active, k + 1) = {k}
      BY <2>2, <2>3, <2>4, <2>5
    <3> QED BY <1>5, <2>1, <2>5, <3>1
  <2>6. CASE conduct[SkillIds[k]] # "empties"
    <3>1. LiveSkills(conduct, active, k + 1) = LiveSkills(conduct, active, k) \cup {k}
      BY <2>2, <2>3, <2>4, <2>6 DEF LiveSkills
    <3> QED BY <1>5, <2>1, <2>6, <3>1
  <2> QED BY <2>5, <2>6
<1> QED BY <1>4, <1>5

\* Before the first skill nothing was handed over and nobody raised.
LEMMA NothingGathered ==
    ASSUME NEW conduct, NEW active
    PROVE  Gathered(conduct, active, 1) = {} /\ Raised(conduct, active, 1) = {}
<1>1. ActiveBefore(active, 1) = {}
  BY SkillBounds DEF ActiveBefore
<1>2. LiveSkills(conduct, active, 1) = {}
  BY <1>1 DEF LiveSkills
<1> QED BY <1>1, <1>2 DEF Gathered, Raised

\* What another skill hands over comes on top, unless it emptied the list.
LEMMA OneMoreGathered ==
    ASSUME NEW conduct, NEW active, NEW k \in DOMAIN SkillIds
    PROVE  LET p == SkillIds[k]
               gathered == Gathered(conduct, active, k)
               raised == Raised(conduct, active, k)
           IN  /\ p \notin active =>
                    /\ Gathered(conduct, active, k + 1) = gathered
                    /\ Raised(conduct, active, k + 1) = raised
               /\ p \in active =>
                    /\ Gathered(conduct, active, k + 1) =
                         HandedBy(conduct[p], p)
                           \cup (IF conduct[p] = "empties" THEN {} ELSE gathered)
                    /\ Raised(conduct, active, k + 1) =
                         raised \cup (IF conduct[p] \in Raising THEN {p} ELSE {})
<1> DEFINE p == SkillIds[k]
           live == LiveSkills(conduct, active, k)
           behind == ActiveBefore(active, k)
           live1 == LiveSkills(conduct, active, k + 1)
           behind1 == ActiveBefore(active, k + 1)
<1>1. /\ p \notin active => /\ behind1 = behind
                            /\ live1 = live
      /\ p \in active => /\ behind1 = behind \cup {k}
                         /\ conduct[p] = "empties" => live1 = {k}
                         /\ conduct[p] # "empties" => live1 = live \cup {k}
  BY OneMoreLive
<1>2. /\ Gathered(conduct, active, k) =
           UNION {HandedBy(conduct[SkillIds[j]], SkillIds[j]) : j \in live}
      /\ Gathered(conduct, active, k + 1) =
           UNION {HandedBy(conduct[SkillIds[j]], SkillIds[j]) : j \in live1}
      /\ Raised(conduct, active, k) =
           {SkillIds[j] : j \in {i \in behind : conduct[SkillIds[i]] \in Raising}}
      /\ Raised(conduct, active, k + 1) =
           {SkillIds[j] : j \in {i \in behind1 : conduct[SkillIds[i]] \in Raising}}
  BY DEF Gathered, Raised
<1> HIDE DEF live, behind, live1, behind1
<1>3. CASE p \notin active
  BY <1>1, <1>2, <1>3
<1>4. CASE p \in active
  <2>1. Raised(conduct, active, k + 1) =
          Raised(conduct, active, k) \cup (IF conduct[p] \in Raising THEN {p} ELSE {})
    BY <1>1, <1>2, <1>4
  <2>2. CASE conduct[p] = "empties"
    <3>1. live1 = {k}
      BY <1>1, <1>4, <2>2
    <3>2. \A x : x \in Gathered(conduct, active, k + 1) <=>
                  \E j \in live1 : x \in HandedBy(conduct[SkillIds[j]], SkillIds[j])
      BY <1>2
    <3>3. \A x : x \in Gathered(conduct, active, k + 1) <=> x \in HandedBy(conduct[p], p)
      BY <3>1, <3>2
    <3>4. Gathered(conduct, active, k + 1) = HandedBy(conduct[p], p)
      BY <3>3
    <3> QED BY <1>4, <2>1, <2>2, <3>4
  <2>3. CASE conduct[p] # "empties"
    <3>1. live1 = live \cup {k}
      BY <1>1, <1>4, <2>3
    <3>2. Gathered(conduct, active, k + 1) =
            (UNION {HandedBy(conduct[SkillIds[j]], SkillIds[j]) : j \in live})
              \cup HandedBy(conduct[p], p)
      BY <1>2, <3>1
    <3> QED BY <1>2, <1>4, <2>1, <2>3, <3>2
  <2> QED BY <2>2, <2>3
<1> QED BY <1>3, <1>4

\* The hook of one skill: what the list and the errors have grown by.
LEMMA SkillRuns ==
    ASSUME ChainInv, NextSkill, chain'.pc # "lost"
    PROVE  ChainInv'
<1> DEFINE k == chain.at
           p == SkillIds[k]
           conduct == chain.conduct[p]
<1>1. /\ chain \in ChainRecord
      /\ chain.pc = "runner" /\ chain.conduct \in HookConducts /\ chain.at > 0
      /\ chain.at <= Len(SkillIds) /\ chain.got \in Gatherings /\ chain.at \in 0 .. Len(SkillIds) + 1
      /\ ToSet(chain.got.list) = Gathered(chain.conduct, chain.active, k)
      /\ chain.got.errors = Raised(chain.conduct, chain.active, k)
  BY DEF NextSkill, ChainInv, ChainRecord
<1>2. k \in DOMAIN SkillIds /\ p \in SkillNames /\ k + 1 \in 0 .. Len(SkillIds) + 1 /\ k + 1 > 0
  BY <1>1, SkillBounds
<1>3. conduct \in Conducts
  <2>1. chain.conduct \in [SkillNames -> Conducts]
    BY <1>1, SkillBounds
  <2> QED BY <1>2, <2>1
<1>4. PICK more :
        /\ chain' = [chain EXCEPT !.at = k + 1, !.got = more]
        /\ \/ p \notin chain.active /\ more = chain.got
           \/ p \in chain.active /\ Adds(more, chain.got, p, conduct)
  <2>1. CASE p \notin chain.active
    <3>1. chain' = [chain EXCEPT !.at = k + 1]
      BY <1>1, <2>1 DEF NextSkill
    <3>2. chain' = [chain EXCEPT !.at = k + 1, !.got = chain.got]
      BY <1>1, <3>1 DEF ChainRecord
    <3> QED BY <2>1, <3>2
  <2>2. CASE p \in chain.active /\ conduct = "broken"
    <3>1. Adds(Report(chain.got, p), chain.got, p, conduct)
      BY <1>1, <1>2, <2>2, BrokenAdds
    <3>2. chain' = [chain EXCEPT !.at = k + 1, !.got = Report(chain.got, p)]
      BY <1>1, <2>2 DEF NextSkill, RunCycleHook
    <3> QED BY <2>2, <3>1, <3>2
  <2>3. CASE p \in chain.active /\ conduct # "broken"
    <3>1. Adds(Called(chain.got, p, conduct), chain.got, p, conduct)
      BY <1>1, <1>2, <1>3, <2>3, CalledAdds
    <3>2. ~NeverEnds(chain.got, conduct)
      BY <1>1, <2>3 DEF NextSkill, RunCycleHook, ChainRecord
    <3>3. chain' = [chain EXCEPT !.at = k + 1, !.got = Called(chain.got, p, conduct)]
      BY <1>1, <2>3, <3>2 DEF NextSkill, RunCycleHook
    <3> QED BY <2>3, <3>1, <3>3
  <2> QED BY <2>1, <2>2, <2>3
<1>5. /\ chain'.pc = "runner" /\ chain'.conduct = chain.conduct /\ chain'.active = chain.active
      /\ chain'.at = k + 1 /\ chain'.got = more /\ chain' \in ChainRecord
  <2>1. more \in Gatherings
    BY <1>1, <1>4 DEF Adds
  <2> QED BY <1>1, <1>2, <1>4, <2>1 DEF ChainRecord
<1>6. /\ ToSet(more.list) = Gathered(chain.conduct, chain.active, k + 1)
      /\ more.errors = Raised(chain.conduct, chain.active, k + 1)
  <2>1. CASE p \notin chain.active
    BY <1>1, <1>2, <1>4, <2>1, OneMoreGathered
  <2>2. CASE p \in chain.active
    <3>1. /\ ToSet(more.list) = HandedBy(conduct, p)
               \cup (IF conduct = "empties" THEN {} ELSE ToSet(chain.got.list))
          /\ more.errors = chain.got.errors \cup (IF conduct \in Raising THEN {p} ELSE {})
      BY <1>4, <2>2 DEF Adds
    <3> QED BY <1>1, <1>2, <2>2, <3>1, OneMoreGathered
  <2> QED BY <2>1, <2>2
<1> QED BY <1>1, <1>2, <1>5, <1>6 DEF ChainInv

LEMMA ChainStepKeeps == ChainInv /\ [ChainNext]_chainVars => ChainInv'
<1> SUFFICES ASSUME ChainInv, [ChainNext]_chainVars PROVE ChainInv'
  OBVIOUS
<1>1. CASE CallCycle
  <2>1. PICK conduct \in HookConducts, active \in SUBSET SkillNames :
          chain' = [NoChain EXCEPT !.pc = "runner", !.conduct = conduct, !.active = active, !.at = 1]
    BY <1>1 DEF CallCycle
  <2>2. 1 \in 0 .. Len(SkillIds) + 1 /\ 1 > 0
    BY SkillBounds
  <2>3. /\ chain'.pc = "runner" /\ chain'.conduct = conduct /\ chain'.active = active
        /\ chain'.at = 1 /\ chain'.got = NoSignals /\ chain' \in ChainRecord
    BY <2>1, <2>2, IdleChain DEF ChainRecord
  <2> QED BY <2>2, <2>3, IdleChain, NothingGathered DEF ChainInv
<1>2. CASE NextSkill
  <2>1. CASE chain'.pc = "lost"
    <3>1. chain' = [chain EXCEPT !.pc = "lost"]
      BY <1>2, <2>1 DEF NextSkill, RunCycleHook, ChainInv, ChainRecord
    <3> QED BY <2>1, <3>1 DEF ChainInv, ChainRecord
  <2> QED BY <1>2, <2>1, SkillRuns
<1>3. CASE RunnerReplies
  <2>1. chain.at = Len(SkillIds) + 1
    BY <1>3, SkillBounds DEF RunnerReplies, ChainInv, ChainRecord
  <2> QED BY <1>3, <2>1 DEF RunnerReplies, ChainInv, ChainRecord
<1>4. CASE RunnerKilled
  BY <1>4 DEF RunnerKilled, ChainInv, ChainRecord
<1>5. CASE CallerReads
  BY <1>5, IdleChain DEF CallerReads, ChainInv
<1>6. CASE SmokeTest \/ ActivateHook \/ TrialEnds \/ UNCHANGED chainVars
  <2>1. chain' = chain
    BY <1>6 DEF SmokeTest, ActivateHook, TrialEnds, chainVars
  <2> QED BY <2>1 DEF ChainInv
<1> QED BY <1>1, <1>2, <1>3, <1>4, <1>5, <1>6 DEF ChainNext

\* A skill that cannot be imported, raises or breaks off ends nothing: the
\* answer of a cycle has what every other skill handed over, and an error for
\* each that raised (cmd_run_cycle).
THEOREM BrokenSkillIsIsolated == ChainSpec => []BrokenSkillEndsNothing
<1>1. ChainInv => BrokenSkillEndsNothing
  <2> SUFFICES ASSUME ChainInv PROVE BrokenSkillEndsNothing
    OBVIOUS
  <2>1. chain.pc # "error"
    BY DEF ChainInv, ChainRecord
  <2>2. ASSUME chain.pc = "ok"
        PROVE  /\ ToSet(chain.got.list) =
                    UNION {Handed(SkillIds[k]) :
                             k \in {j \in Asked : \A e \in LastEmptying : e <= j}}
               /\ chain.got.errors =
                    {p \in chain.active : chain.conduct[p] \in {"broken", "raises", "half"}}
    <3> DEFINE n == Len(SkillIds) + 1
    <3>1. /\ ToSet(chain.got.list) = Gathered(chain.conduct, chain.active, n)
          /\ chain.got.errors = Raised(chain.conduct, chain.active, n)
          /\ chain.active \subseteq SkillNames
      BY <2>2 DEF ChainInv, ChainRecord
    <3>2. \A k \in DOMAIN SkillIds : k < n
      BY SkillBounds
    <3>3. ActiveBefore(chain.active, n) = Asked
      BY <3>2 DEF ActiveBefore, Asked
    <3>4. LiveSkills(chain.conduct, chain.active, n) = {j \in Asked : \A e \in LastEmptying : e <= j}
      BY <3>3 DEF LiveSkills, LastEmptying
    <3>5. \A p : HandedBy(chain.conduct[p], p) = Handed(p)
      BY DEF HandedBy, Handed
    <3>6. \A p \in chain.active : \E k \in Asked : SkillIds[k] = p
      BY <3>1 DEF SkillNames, Asked
    <3>7. Raised(chain.conduct, chain.active, n) =
            {p \in chain.active : chain.conduct[p] \in {"broken", "raises", "half"}}
      BY <3>3, <3>6 DEF Raised, Raising, Asked
    <3>8. Gathered(chain.conduct, chain.active, n) =
            UNION {Handed(SkillIds[k]) : k \in {j \in Asked : \A e \in LastEmptying : e <= j}}
      BY <3>4, <3>5 DEF Gathered
    <3> QED BY <3>1, <3>7, <3>8
  <2> QED BY <2>1, <2>2 DEF BrokenSkillEndsNothing
<1> QED BY ChainStarts, ChainStepKeeps, <1>1, PTL DEF ChainSpec

\* Whoever raised was asked, whatever became of the run; a trial takes its steps.
RunTyped ==
    /\ chain.got.errors \subseteq chain.active
    /\ trial.pc \in {"idle", "activated", "ran"}

LEMMA RunStaysTyped ==
    ASSUME ChainInv, ChainInv', RunTyped, [ChainNext]_chainVars
    PROVE  RunTyped'
<1>0. chain \in ChainRecord /\ chain' \in ChainRecord
  BY DEF ChainInv
<1>1. trial'.pc \in {"idle", "activated", "ran"}
  <2>1. CASE SmokeTest
    BY <2>1 DEF SmokeTest
  <2>2. CASE ActivateHook
    <3>1. PICK answer : trial' = [trial EXCEPT !.pc = "ran", !.ran = answer]
      BY <2>2 DEF ActivateHook
    <3>2. CASE "pc" \in DOMAIN trial
      BY <3>1, <3>2
    <3>3. CASE "pc" \notin DOMAIN trial
      BY <3>1, <3>3 DEF RunTyped
    <3> QED BY <3>2, <3>3
  <2>3. CASE TrialEnds
    BY <2>3 DEF TrialEnds, NoTrial
  <2>4. CASE trial' = trial
    BY <2>4 DEF RunTyped
  <2> QED BY <2>1, <2>2, <2>3, <2>4 DEF ChainNext, chainVars, CallCycle, NextSkill, RunnerReplies,
                                        RunnerKilled, CallerReads
<1>2. CASE chain'.pc \in {"runner", "ok"}
  <2>1. chain'.got.errors = Raised(chain'.conduct, chain'.active, chain'.at)
    BY <1>2 DEF ChainInv
  <2>2. chain'.got.errors \subseteq chain'.active
    BY <2>1 DEF Raised, ActiveBefore
  <2> QED BY <1>1, <2>2 DEF RunTyped
<1>3. CASE chain'.pc \in {"idle", "lost"}
  <2>1. \/ chain' = NoChain
        \/ chain'.got = chain.got /\ chain'.active = chain.active
    BY <1>0, <1>3, IdleChain
       DEF ChainNext, chainVars, CallCycle, NextSkill, RunCycleHook, RunnerReplies, RunnerKilled,
           CallerReads, SmokeTest, ActivateHook, TrialEnds, ChainRecord
  <2>2. chain'.got.errors \subseteq chain'.active
    BY <2>1, IdleChain DEF RunTyped
  <2> QED BY <1>1, <2>2 DEF RunTyped
<1> QED BY <1>0, <1>2, <1>3 DEF ChainRecord

\* The types of a run of the hooks: no signal and no tag is of a skill that is
\* not there, and who raised was asked, in a run that is lost too.
THEOREM ChainKeepsTypes == ChainSpec => []ChainTypeOK
<1>1. ChainInit => RunTyped
  BY IdleChain DEF ChainInit, RunTyped, NoTrial
<1>2. ChainInv /\ RunTyped => ChainTypeOK
  <2> SUFFICES ASSUME ChainInv, RunTyped PROVE ChainTypeOK
    OBVIOUS
  <2>1. /\ chain.pc \in {"idle", "runner", "ok", "lost"} /\ chain.active \subseteq SkillNames
        /\ chain.at \in 0 .. Len(SkillIds) + 1 /\ chain.got.list \in Seq(Handable)
        /\ chain.got.tag \in Tags
    BY DEF ChainInv, ChainRecord, Gatherings
  <2>2. ToSet(chain.got.list) \subseteq Handable
    <3>1. DOMAIN chain.got.list = 1 .. Len(chain.got.list)
      BY <2>1, LenProperties
    <3> QED BY <2>1, <3>1, ElementOfSeq DEF ToSet
  <2>3. DOMAIN chain.got.tag \subseteq Handable
    BY <2>1 DEF Tags
  <2> QED BY <2>1, <2>2, <2>3 DEF ChainTypeOK, RunTyped, Handable
<1>3. ChainInv /\ ChainInv' /\ RunTyped /\ [ChainNext]_chainVars => RunTyped'
  BY RunStaysTyped
<1> QED BY <1>1, <1>2, <1>3, ChainStarts, ChainStepKeeps, PTL DEF ChainSpec

-----------------------------------------------------------------------------
(* AgentCycle                                                              *)

CycleFields == {"pc", "proposed", "pending", "todo", "failed", "approved", "rows",
                "pre", "post", "collected", "sent", "aborted"}

\* The disciplines that failed left nothing, and the later ones answer nothing
\* to nothing; from the ledger on the signals are those of the end of the veto.
ApprovalInv ==
    /\ DOMAIN cyc = CycleFields
    /\ cyc.failed => cyc.pending = <<>>
    /\ cyc.pc \notin {"idle", "veto"} => cyc.pending = cyc.approved

LEMMA IdleApproves ==
    /\ DOMAIN NoCycle = CycleFields
    /\ NoCycle.pc = "idle" /\ NoCycle.failed = FALSE /\ NoCycle.pending = <<>>
BY DEF NoCycle, CycleFields

\* A discipline has no answer to no signals but none.
LEMMA NothingAnswersNothing == Answers(<<>>) = {<<>>}
<1>1. DOMAIN <<>> = {} /\ Len(<<>>) = 0
  OBVIOUS
<1> QED BY <1>1 DEF Answers

LEMMA ApprovalStarts == CycleInit => ApprovalInv
BY IdleApproves DEF CycleInit, ApprovalInv

LEMMA ApprovalStepKeeps == ApprovalInv /\ [CycleNext]_cycleVars => ApprovalInv'
<1> SUFFICES ASSUME ApprovalInv, [CycleNext]_cycleVars PROVE ApprovalInv'
  OBVIOUS
<1> USE DEF ApprovalInv, CycleFields
<1>1. CASE RunHooks
  <2> PICK proposed \in Proposals \cup {<<>>}, pre \in 0 .. Extras, post \in 0 .. Extras :
        cyc' = [NoCycle EXCEPT !.pc = "veto", !.proposed = proposed, !.pending = proposed,
                  !.todo = Disciplines, !.pre = pre, !.post = post]
    BY <1>1 DEF RunHooks
  <2> QED BY IdleApproves
<1>2. CASE RunDiscipline
  <2> PICK kept \in Answers(cyc.pending) :
        cyc' = [cyc EXCEPT !.todo = Tail(@), !.pending = kept]
    BY <1>2 DEF RunDiscipline
  <2>1. cyc'.pc = "veto" /\ cyc'.failed = cyc.failed /\ cyc'.pending = kept
    BY <1>2 DEF RunDiscipline, AtStage
  <2>2. cyc.failed => kept = <<>>
    BY NothingAnswersNothing
  <2>3. DOMAIN cyc' = CycleFields
    OBVIOUS
  <2> QED BY <2>1, <2>2, <2>3
<1>3. CASE DisciplineFails
  BY <1>3 DEF DisciplineFails, AtStage
<1>4. CASE VetoEnds
  BY <1>4 DEF VetoEnds, AtStage
<1>5. CASE PersistVetoDecision
  <2> PICK row0 : cyc' = [cyc EXCEPT !.rows = Append(@, row0)]
    BY <1>5 DEF PersistVetoDecision
  <2> QED OBVIOUS
<1>6. CASE LedgerEnds
  BY <1>6 DEF LedgerEnds, AtStage, ToStage
<1>7. CASE RunPreExtra
  BY <1>7 DEF RunPreExtra, AtStage, MergeExtraCtx
<1>8. CASE AbortCycle
  BY <1>8 DEF AbortCycle, AtStage, ToStage
<1>9. CASE RunTurn
  BY <1>9 DEF RunTurn, AtStage, ToStage
<1>10. CASE RunPostExtra
  BY <1>10 DEF RunPostExtra, AtStage, MergeExtraCtx
<1>11. CASE PostEnds
  BY <1>11 DEF PostEnds, AtStage, ToStage
<1>12. CASE SendNotification
  BY <1>12 DEF SendNotification
<1>13. CASE CycleReturns
  BY <1>13 DEF CycleReturns, AtStage, ToStage
<1>14. CASE CycleThrows
  BY <1>14, IdleApproves DEF CycleThrows
<1>15. CASE CycleEnds
  BY <1>15, IdleApproves DEF CycleEnds
<1>16. CASE UNCHANGED cycleVars
  BY <1>16 DEF cycleVars
<1> QED
  BY <1>1, <1>2, <1>3, <1>4, <1>5, <1>6, <1>7, <1>8, <1>9, <1>10, <1>11, <1>12, <1>13,
     <1>14, <1>15, <1>16 DEF CycleNext

\* What the turn and the extras are given as approved is what the disciplines
\* left, and nothing if one of them failed (_runVetoLayer, _mergeExtraCtx).
THEOREM ApprovedByDisciplines == CycleSpec => []OnlyDisciplinesApprove
<1>1. ApprovalInv => OnlyDisciplinesApprove
  BY DEF ApprovalInv, OnlyDisciplinesApprove, AfterVeto
<1> QED BY ApprovalStarts, ApprovalStepKeeps, <1>1, PTL DEF CycleSpec

-----------------------------------------------------------------------------
(* AgentCycle: the ledger of the veto layer                                *)

\* No plugin gives two signals of one symbol, but for those of no plugin.
DistinctSources(signals) ==
    \A i, j \in DOMAIN signals :
      i # j /\ signals[i].symbol = signals[j].symbol =>
        signals[i].source = NoSource \/ signals[i].source # signals[j].source

\* No hook proposes a symbol twice; what the bundled plugins do.
ProposedOnce == \A signals \in Proposals : DistinctSources(signals)

Stages == {"idle", "veto", "ledger", "pre", "abort", "post", "notify", "done"}
Verdicts == {"approved", "blocked", "modified", "lost"}

\* Cutting one element out moves those behind it.
LEMMA RemovedElements ==
    ASSUME NEW S, NEW s \in Seq(S), NEW i \in 1 .. Len(s)
    PROVE  /\ RemoveAt(s, i) \in Seq(S) /\ Len(RemoveAt(s, i)) = Len(s) - 1
           /\ \A j \in 1 .. Len(s) - 1 :
                RemoveAt(s, i)[j] = IF j < i THEN s[j] ELSE s[j + 1]
<1> DEFINE before == SubSeq(s, 1, i - 1)
           after == SubSeq(s, i + 1, Len(s))
<1>1. Len(s) \in Nat /\ i \in Int /\ 1 <= i /\ i <= Len(s) /\ \A k \in 1 .. Len(s) : s[k] \in S
  BY LenProperties, ElementOfSeq
<1>2. /\ before \in Seq(S) /\ Len(before) = i - 1
      /\ \A k \in 1 .. i - 1 : before[k] = s[k]
  BY <1>1, SubSeqProperties
<1>3. /\ after \in Seq(S) /\ Len(after) = Len(s) - i
      /\ \A k \in 1 .. Len(s) - i : after[k] = s[i + k]
  <2>1. \A k \in i + 1 .. Len(s) : s[k] \in S
    BY <1>1
  <2>2. /\ after \in Seq(S)
        /\ Len(after) = IF i + 1 <= Len(s) THEN Len(s) - (i + 1) + 1 ELSE 0
        /\ \A k \in 1 .. Len(s) - (i + 1) + 1 : after[k] = s[i + 1 + k - 1]
    BY <1>1, <2>1, SubSeqProperties
  <2> QED BY <1>1, <2>2
<1> HIDE DEF before, after
<1>4. /\ before \o after \in Seq(S) /\ Len(before \o after) = Len(before) + Len(after)
      /\ \A k \in 1 .. Len(before) + Len(after) :
           (before \o after)[k] = IF k <= Len(before) THEN before[k] ELSE after[k - Len(before)]
  <2>1. before \in Seq(S) /\ after \in Seq(S)
    BY <1>2, <1>3
  <2> QED BY <2>1, ConcatProperties
<1>5. RemoveAt(s, i) = before \o after
  BY DEF RemoveAt, before, after
<1>6. ASSUME NEW j \in 1 .. Len(s) - 1
      PROVE  (before \o after)[j] = IF j < i THEN s[j] ELSE s[j + 1]
  <2>1. /\ j \in 1 .. Len(before) + Len(after) /\ j \in Int /\ 1 <= j
        /\ Len(before) = i - 1 /\ Len(s) \in Int /\ j <= Len(s) - 1
    BY <1>1, <1>2, <1>3
  <2>2. (before \o after)[j] = IF j <= i - 1 THEN before[j] ELSE after[j - (i - 1)]
    BY <1>4, <2>1
  <2>3. CASE j < i
    <3>1. j \in 1 .. i - 1 /\ j <= i - 1
      BY <1>1, <2>1, <2>3
    <3> QED BY <1>2, <2>2, <2>3, <3>1
  <2>4. CASE ~(j < i)
    <3>1. j - (i - 1) \in 1 .. Len(s) - i /\ ~(j <= i - 1) /\ i + (j - (i - 1)) = j + 1
      BY <1>1, <2>1, <2>4
    <3>2. after[j - (i - 1)] = s[i + (j - (i - 1))]
      BY <1>3, <3>1
    <3> QED BY <2>2, <2>4, <3>1, <3>2
  <2> QED BY <2>3, <2>4
<1>7. Len(before \o after) = Len(s) - 1
  BY <1>1, <1>2, <1>3, <1>4
<1> QED BY <1>4, <1>5, <1>6, <1>7

\* What a discipline leaves is signals, no more of them, and those it changed
\* keep their symbol and their source or lose it.
Left(kept, signals) ==
    /\ kept \in Seq(PendingSignal)
    /\ Len(kept) <= Len(signals)
    /\ DistinctSources(signals) => DistinctSources(kept)

LEMMA OneChanged ==
    ASSUME NEW s \in Seq(PendingSignal), NEW i \in DOMAIN s, NEW x \in PendingSignal,
           x.symbol = s[i].symbol, x.source \in {s[i].source, NoSource}
    PROVE  Left([s EXCEPT ![i] = x], s)
<1> DEFINE kept == [s EXCEPT ![i] = x]
<1>1. Len(s) \in Nat /\ DOMAIN s = 1 .. Len(s) /\ \A k \in 1 .. Len(s) : s[k] \in PendingSignal
  BY LenProperties, ElementOfSeq
<1>2. kept \in Seq(PendingSignal) /\ Len(kept) = Len(s)
  BY ExceptSeq
<1>3. DOMAIN kept = DOMAIN s /\ kept[i] = x /\ \A k \in DOMAIN s : k # i => kept[k] = s[k]
  OBVIOUS
<1>4. \A k \in DOMAIN s : /\ kept[k].symbol = s[k].symbol
                          /\ kept[k].source \in {s[k].source, NoSource}
  BY <1>3
<1> HIDE DEF kept
<1>5. DistinctSources(s) => DistinctSources(kept)
  BY <1>3, <1>4 DEF DistinctSources
<1>6. Left(kept, s)
  BY <1>1, <1>2, <1>5 DEF Left
<1> QED BY <1>6 DEF kept

LEMMA OneRemoved ==
    ASSUME NEW s \in Seq(PendingSignal), NEW i \in DOMAIN s
    PROVE  Left(RemoveAt(s, i), s)
<1> DEFINE kept == RemoveAt(s, i)
<1>1. Len(s) \in Nat /\ DOMAIN s = 1 .. Len(s) /\ i \in 1 .. Len(s)
  BY LenProperties
<1>2. /\ kept \in Seq(PendingSignal) /\ Len(kept) = Len(s) - 1
      /\ \A j \in 1 .. Len(s) - 1 : kept[j] = IF j < i THEN s[j] ELSE s[j + 1]
  BY <1>1, RemovedElements
<1> HIDE DEF kept
<1>3. DOMAIN kept = 1 .. Len(s) - 1
  BY <1>2, LenProperties
<1> DEFINE at(j) == IF j < i THEN j ELSE j + 1
<1>4. \A j \in 1 .. Len(s) - 1 : at(j) \in DOMAIN s /\ kept[j] = s[at(j)]
  BY <1>1, <1>2
<1>5. \A j, k \in 1 .. Len(s) - 1 : j # k => at(j) # at(k)
  BY <1>1
<1> HIDE DEF at
<1>6. DistinctSources(s) => DistinctSources(kept)
  BY <1>3, <1>4, <1>5 DEF DistinctSources
<1>7. Left(kept, s)
  BY <1>1, <1>2, <1>6 DEF Left
<1> QED BY <1>7 DEF kept

LEMMA AnswersLeave ==
    ASSUME NEW s \in Seq(PendingSignal), NEW kept \in Answers(s)
    PROVE  Left(kept, s)
<1>1. Len(s) \in Nat /\ DOMAIN s = 1 .. Len(s) /\ \A k \in DOMAIN s : s[k] \in PendingSignal
  BY LenProperties, ElementOfSeq
<1>2. \A x \in PendingSignal :
        /\ [x EXCEPT !.qty = @ + 1] \in PendingSignal
        /\ [x EXCEPT !.action = "cancelled"] \in PendingSignal
        /\ [x EXCEPT !.source = NoSource] \in PendingSignal
        /\ [x EXCEPT !.source = NoSource, !.qty = UnknownQty] \in PendingSignal
  <2> TAKE x \in PendingSignal
  <2>1. UnknownQty \in Nat
    BY DEF UnknownQty
  <2>2. x.qty + 1 \in Nat
    BY DEF PendingSignal
  <2>3. [x EXCEPT !.qty = @ + 1] \in PendingSignal
    BY <2>2 DEF PendingSignal
  <2>4. [x EXCEPT !.action = "cancelled"] \in PendingSignal
    BY <2>1 DEF PendingSignal
  <2>5. [x EXCEPT !.source = NoSource] \in PendingSignal
    BY <2>1 DEF PendingSignal
  <2>6. [x EXCEPT !.source = NoSource, !.qty = UnknownQty] \in PendingSignal
    BY <2>1 DEF PendingSignal
  <2> QED BY <2>3, <2>4, <2>5, <2>6
<1>3. CASE kept = s
  BY <1>1, <1>3 DEF Left
<1>4. ASSUME NEW i \in DOMAIN s, kept = RemoveAt(s, i) PROVE Left(kept, s)
  BY <1>4, OneRemoved
<1>5. ASSUME NEW i \in DOMAIN s, kept = [s EXCEPT ![i].qty = @ + 1] PROVE Left(kept, s)
  <2> DEFINE x == [s[i] EXCEPT !.qty = @ + 1]
  <2>1. x \in PendingSignal /\ x.symbol = s[i].symbol /\ x.source = s[i].source
    BY <1>1, <1>2 DEF PendingSignal
  <2>2. kept = [s EXCEPT ![i] = x]
    BY <1>5
  <2> QED BY <2>1, <2>2, OneChanged
<1>6. ASSUME NEW i \in DOMAIN s, kept = [s EXCEPT ![i].action = "cancelled"] PROVE Left(kept, s)
  <2> DEFINE x == [s[i] EXCEPT !.action = "cancelled"]
  <2>1. x \in PendingSignal /\ x.symbol = s[i].symbol /\ x.source = s[i].source
    BY <1>1, <1>2 DEF PendingSignal
  <2>2. kept = [s EXCEPT ![i] = x]
    BY <1>6
  <2> QED BY <2>1, <2>2, OneChanged
<1>7. ASSUME NEW i \in DOMAIN s, kept = [s EXCEPT ![i].source = NoSource] PROVE Left(kept, s)
  <2> DEFINE x == [s[i] EXCEPT !.source = NoSource]
  <2>1. x \in PendingSignal /\ x.symbol = s[i].symbol /\ x.source = NoSource
    BY <1>1, <1>2 DEF PendingSignal
  <2>2. kept = [s EXCEPT ![i] = x]
    BY <1>7
  <2> QED BY <2>1, <2>2, OneChanged
<1>8. ASSUME Len(s) >= 2, kept = <<[Head(s) EXCEPT !.source = NoSource, !.qty = UnknownQty]>>
      PROVE  Left(kept, s)
  <2> DEFINE x == [Head(s) EXCEPT !.source = NoSource, !.qty = UnknownQty]
  <2>1. s # <<>> /\ Head(s) \in PendingSignal
    BY <1>1, <1>8, EmptySeq, HeadTailProperties
  <2>2. x \in PendingSignal
    BY <1>2, <2>1
  <2> HIDE DEF x
  <2>3. <<x>> \in Seq(PendingSignal) /\ Len(<<x>>) = 1 /\ DOMAIN <<x>> = {1}
    BY <2>2
  <2>4. DistinctSources(<<x>>)
    BY <2>3 DEF DistinctSources
  <2> QED BY <1>1, <1>8, <2>3, <2>4 DEF Left, x
<1> QED BY <1>1, <1>3, <1>4, <1>5, <1>6, <1>7, <1>8 DEF Answers

\* What _findVetoMatch can find for a proposal p among the signals kept.
LEMMA MatchesFound ==
    ASSUME NEW p \in PendingSignal, NEW kept \in Seq(PendingSignal)
    PROVE  /\ Matches(p, kept) \in Seq(PendingSignal)
           /\ \A x \in ToSet(Matches(p, kept)) : x \in ToSet(kept) /\ x.symbol = p.symbol
           /\ \A x \in ToSet(kept) : x.symbol = p.symbol => Matches(p, kept) # <<>>
           /\ \A x \in ToSet(kept) : x.symbol = p.symbol /\ x.source = p.source =>
                \A y \in ToSet(Matches(p, kept)) : y.source = p.source
<1> DEFINE named == Named(p, kept)
           exact == Exact(p, kept)
<1>1. /\ named \in Seq(PendingSignal)
      /\ ToSet(named) = ToSet(kept) \cap {x \in ToSet(kept) : x.symbol = p.symbol}
  BY OnlyFacts DEF Named
<1>2. /\ exact \in Seq(PendingSignal)
      /\ ToSet(exact) = ToSet(named) \cap {x \in ToSet(kept) : x.source = p.source}
  BY <1>1, OnlyFacts DEF Exact
<1>3. ToSet(<<>>) = {}
  BY DEF ToSet
<1>4. Matches(p, kept) = IF exact # <<>> THEN exact ELSE named
  BY DEF Matches
<1> HIDE DEF named, exact
<1>5. \A x \in ToSet(kept) : x.symbol = p.symbol => named # <<>>
  BY <1>1, <1>3
<1>6. \A x \in ToSet(kept) : x.symbol = p.symbol /\ x.source = p.source => exact # <<>>
  BY <1>1, <1>2, <1>3
<1> QED BY <1>1, <1>2, <1>4, <1>5, <1>6

LEMMA FirstOfSome ==
    ASSUME NEW S, NEW s \in Seq(S), s # <<>>
    PROVE  Head(s) \in ToSet(s)
BY ElementsOfTail

\* The signals of p's symbol that are left to act on.
Alive(p, kept) ==
    {j \in DOMAIN kept : kept[j].symbol = p.symbol /\ kept[j].action # "cancelled"}

\* A blocked proposal has no match, or one that was cancelled.
LEMMA WhatBlocks ==
    ASSUME NEW p, NEW kept, NEW proposed
    PROVE  Verdict(p, kept, proposed) = "blocked" <=>
             Matches(p, kept) = <<>> \/ Head(Matches(p, kept)).action = "cancelled"
BY DEF Verdict

LEMMA VerdictSays ==
    ASSUME NEW p \in PendingSignal, NEW kept \in Seq(PendingSignal), NEW proposed
    PROVE  /\ Alive(p, kept) = {} => Verdict(p, kept, proposed) = "blocked"
           /\ Len(kept) = 1 /\ Alive(p, kept) # {} => Verdict(p, kept, proposed) # "blocked"
           /\ /\ DistinctSources(kept) /\ p.source # NoSource
              /\ Verdict(p, kept, proposed) = "blocked"
              => ~ \E j \in Alive(p, kept) : kept[j].source = p.source
<1> DEFINE found == Matches(p, kept)
<1>1. /\ found \in Seq(PendingSignal)
      /\ \A x \in ToSet(found) : x \in ToSet(kept) /\ x.symbol = p.symbol
      /\ \A x \in ToSet(kept) : x.symbol = p.symbol => found # <<>>
      /\ \A x \in ToSet(kept) : x.symbol = p.symbol /\ x.source = p.source =>
           \A y \in ToSet(found) : y.source = p.source
  BY MatchesFound
<1>2. Verdict(p, kept, proposed) = "blocked" <=> found = <<>> \/ Head(found).action = "cancelled"
  BY WhatBlocks
<1> HIDE DEF found
<1>3. found # <<>> => Head(found) \in ToSet(found)
  BY <1>1, FirstOfSome
<1>4. \A x : x \in ToSet(kept) <=> \E j \in DOMAIN kept : x = kept[j]
  BY DEF ToSet
<1>5. found # <<>> => \E j \in DOMAIN kept : kept[j] = Head(found) /\ kept[j].symbol = p.symbol
  BY <1>1, <1>3, <1>4
<1>6. ASSUME Alive(p, kept) = {} PROVE Verdict(p, kept, proposed) = "blocked"
  BY <1>2, <1>5, <1>6 DEF Alive
<1>7. ASSUME Len(kept) = 1, NEW j \in Alive(p, kept) PROVE Verdict(p, kept, proposed) # "blocked"
  <2>1. DOMAIN kept = {1} /\ j = 1 /\ j \in DOMAIN kept
    BY <1>7, LenProperties DEF Alive
  <2>2. kept[1].symbol = p.symbol /\ kept[1].action # "cancelled"
    BY <2>1 DEF Alive
  <2>3. found # <<>>
    BY <1>1, <1>4, <2>1, <2>2
  <2> QED BY <1>2, <1>5, <2>1, <2>2, <2>3
<1>8. ASSUME DistinctSources(kept), p.source # NoSource, NEW j \in Alive(p, kept),
             kept[j].source = p.source
      PROVE  Verdict(p, kept, proposed) # "blocked"
  <2>1. j \in DOMAIN kept /\ kept[j].symbol = p.symbol /\ kept[j].action # "cancelled"
    BY DEF Alive
  <2>2. kept[j] \in ToSet(kept)
    BY <1>4, <2>1
  <2>3. found # <<>> /\ \A y \in ToSet(found) : y.source = p.source
    BY <1>1, <1>8, <2>1, <2>2
  <2>4. PICK i \in DOMAIN kept : kept[i] = Head(found) /\ kept[i].symbol = p.symbol
    BY <1>5, <2>3
  <2>5. kept[i].source = p.source
    BY <1>3, <2>3, <2>4
  <2>6. i = j
    BY <1>8, <2>1, <2>4, <2>5 DEF DistinctSources
  <2> QED BY <1>2, <2>1, <2>3, <2>4, <2>6
<1> QED BY <1>6, <1>7, <1>8

CycleTyped ==
    /\ DOMAIN cyc = CycleFields
    /\ cyc.pc \in Stages
    /\ cyc.proposed \in Seq(PendingSignal) /\ cyc.pending \in Seq(PendingSignal)
    /\ cyc.rows \in Seq(Verdicts)
    /\ Len(cyc.pending) <= Len(cyc.proposed) /\ Len(cyc.rows) <= Len(cyc.proposed)
    /\ cyc.failed \in BOOLEAN /\ cyc.aborted \in BOOLEAN
    /\ cyc.pre \in 0 .. Extras /\ cyc.post \in 0 .. Extras
    /\ cyc.collected \in Nat /\ cyc.sent \in 0 .. cyc.collected
    /\ cycles \in 0 .. MaxCycles

\* No row is written before the veto is over, and from then on the signals are
\* those it approved; a row that was written says what the ledger says of it.
RowsInv ==
    /\ cyc.pc \in {"idle", "veto"} => cyc.rows = <<>>
    /\ cyc.pc \notin {"idle", "veto"} => cyc.approved = cyc.pending
    /\ \A i \in DOMAIN cyc.proposed : cyc.proposed[i].source # NoSource
    /\ ProposedOnce => DistinctSources(cyc.pending)
    /\ \A i \in DOMAIN cyc.rows :
         cyc.rows[i] \in {Verdict(cyc.proposed[i], cyc.approved, cyc.proposed), "lost"}

VetoInv == CycleTyped /\ RowsInv

LEMMA CycleBounds == MaxCycles \in Nat /\ Extras \in Nat
BY AgentCycleAssumption

LEMMA NoCycleTyped ==
    /\ DOMAIN NoCycle = CycleFields
    /\ NoCycle.pc = "idle" /\ NoCycle.proposed = <<>> /\ NoCycle.pending = <<>>
    /\ NoCycle.approved = <<>> /\ NoCycle.rows = <<>>
    /\ NoCycle.failed = FALSE /\ NoCycle.aborted = FALSE
    /\ NoCycle.pre = 0 /\ NoCycle.post = 0 /\ NoCycle.collected = 0 /\ NoCycle.sent = 0
BY DEF NoCycle, CycleFields

LEMMA NothingLeft ==
    /\ \A S : <<>> \in Seq(S)
    /\ Len(<<>>) = 0 /\ DOMAIN <<>> = {} /\ DistinctSources(<<>>)
BY DEF DistinctSources

LEMMA ZeroIsIn ==
    /\ 0 \in Nat /\ 0 \in 0 .. 0 /\ 0 \in 0 .. Extras /\ 0 \in 0 .. MaxCycles
    /\ 0 <= 0 /\ "idle" \in Stages /\ "veto" \in Stages /\ FALSE \in BOOLEAN
<1>1. 0 \in Nat /\ 0 \in 0 .. 0 /\ 0 <= 0
  OBVIOUS
<1>2. 0 \in 0 .. Extras /\ 0 \in 0 .. MaxCycles
  BY CycleBounds
<1>3. "idle" \in Stages /\ "veto" \in Stages
  BY DEF Stages
<1> QED BY <1>1, <1>2, <1>3

LEMMA NoCycleKeeps ==
    ASSUME cyc' = NoCycle, cycles' \in 0 .. MaxCycles
    PROVE  VetoInv'
<1>1. CycleTyped'
  <2>1. cyc'.proposed \in Seq(PendingSignal) /\ cyc'.pending \in Seq(PendingSignal)
        /\ cyc'.rows \in Seq(Verdicts)
    BY NoCycleTyped, NothingLeft
  <2>2. Len(cyc'.pending) = 0 /\ Len(cyc'.proposed) = 0 /\ Len(cyc'.rows) = 0
    BY NoCycleTyped, NothingLeft
  <2> QED BY <2>1, <2>2, NoCycleTyped, ZeroIsIn DEF CycleTyped
<1>2. RowsInv'
  BY NoCycleTyped, NothingLeft DEF RowsInv
<1> QED BY <1>1, <1>2 DEF VetoInv

LEMMA VetoStarts == CycleInit => VetoInv
<1> SUFFICES ASSUME CycleInit PROVE VetoInv
  OBVIOUS
<1>1. cyc = NoCycle /\ cycles = 0
  BY DEF CycleInit
<1>2. CycleTyped
  <2>1. cyc.proposed \in Seq(PendingSignal) /\ cyc.pending \in Seq(PendingSignal)
        /\ cyc.rows \in Seq(Verdicts)
    BY <1>1, NoCycleTyped, NothingLeft
  <2>2. Len(cyc.pending) = 0 /\ Len(cyc.proposed) = 0 /\ Len(cyc.rows) = 0
    BY <1>1, NoCycleTyped, NothingLeft
  <2> QED BY <1>1, <2>1, <2>2, NoCycleTyped, ZeroIsIn DEF CycleTyped
<1>3. RowsInv
  BY <1>1, NoCycleTyped, NothingLeft DEF RowsInv
<1> QED BY <1>2, <1>3 DEF VetoInv

\* The proposals of the hooks are signals of a plugin.
LEMMA ProposalsTyped ==
    ASSUME NEW s \in Proposals \cup {<<>>}
    PROVE  /\ s \in Seq(PendingSignal)
           /\ \A i \in DOMAIN s : s[i].source # NoSource
           /\ ProposedOnce => DistinctSources(s)
<1>1. CASE s = <<>>
  BY <1>1, NothingLeft
<1>2. CASE s \in Proposals
  <2>1. \A i \in DOMAIN s : s[i] \in ToSet(s)
    BY DEF ToSet
  <2>2. \A i \in DOMAIN s : s[i] \in Proposed
    BY <1>2, <2>1 DEF Proposed
  <2> QED BY <1>2, <2>2, AgentCycleAssumption DEF ProposedOnce
<1> QED BY <1>1, <1>2

LEMMA RunHooksKeeps == VetoInv /\ RunHooks => VetoInv'
<1> SUFFICES ASSUME VetoInv, RunHooks PROVE VetoInv'
  OBVIOUS
<1>1. PICK proposed \in Proposals \cup {<<>>}, pre \in 0 .. Extras, post \in 0 .. Extras :
        cyc' = [NoCycle EXCEPT !.pc = "veto", !.proposed = proposed, !.pending = proposed,
                  !.todo = Disciplines, !.pre = pre, !.post = post]
  BY DEF RunHooks
<1>2. /\ cyc'.pc = "veto" /\ cyc'.proposed = proposed /\ cyc'.pending = proposed
      /\ cyc'.rows = <<>> /\ cyc'.pre = pre /\ cyc'.post = post /\ DOMAIN cyc' = CycleFields
      /\ cyc'.failed = FALSE /\ cyc'.aborted = FALSE /\ cyc'.collected = 0 /\ cyc'.sent = 0
  BY <1>1, NoCycleTyped DEF CycleFields
<1>3. cycles' \in 0 .. MaxCycles
  BY CycleBounds DEF RunHooks, VetoInv, CycleTyped
<1>4. /\ proposed \in Seq(PendingSignal) /\ \A i \in DOMAIN proposed : proposed[i].source # NoSource
      /\ ProposedOnce => DistinctSources(proposed)
  BY ProposalsTyped
<1>5. Len(proposed) \in Nat
  BY <1>4, LenProperties
<1>6. CycleTyped'
  <2>1. cyc'.rows \in Seq(Verdicts) /\ Len(cyc'.rows) <= Len(proposed)
    BY <1>2, <1>5, NothingLeft
  <2>2. cyc'.proposed \in Seq(PendingSignal) /\ cyc'.pending \in Seq(PendingSignal)
        /\ Len(cyc'.pending) <= Len(cyc'.proposed) /\ Len(cyc'.rows) <= Len(cyc'.proposed)
    BY <1>2, <1>4, <1>5, <2>1
  <2>3. cyc'.collected \in Nat /\ cyc'.sent \in 0 .. cyc'.collected
        /\ cyc'.failed \in BOOLEAN /\ cyc'.aborted \in BOOLEAN /\ cyc'.pc \in Stages
    BY <1>2, ZeroIsIn
  <2> QED BY <1>2, <1>3, <2>1, <2>2, <2>3 DEF CycleTyped
<1>7. RowsInv'
  BY <1>2, <1>4, NothingLeft DEF RowsInv
<1> QED BY <1>6, <1>7 DEF VetoInv

\* The steps of the veto: the signals that are left change, the ledger is empty.
LEMMA VetoStepKeeps == VetoInv /\ (RunDiscipline \/ DisciplineFails \/ VetoEnds) => VetoInv'
<1> SUFFICES ASSUME VetoInv, RunDiscipline \/ DisciplineFails \/ VetoEnds PROVE VetoInv'
  OBVIOUS
<1>1. CycleTyped /\ RowsInv
  BY DEF VetoInv
<1>2. cyc.pc = "veto" /\ cyc.rows = <<>> /\ cycles' = cycles
  BY <1>1 DEF RowsInv, RunDiscipline, DisciplineFails, VetoEnds, AtStage
<1>3. /\ DOMAIN cyc' = CycleFields /\ cyc'.proposed = cyc.proposed /\ cyc'.rows = <<>>
      /\ cyc'.failed \in BOOLEAN /\ cyc'.aborted = cyc.aborted /\ cyc'.pre = cyc.pre
      /\ cyc'.post = cyc.post /\ cyc'.collected = cyc.collected /\ cyc'.sent = cyc.sent
      /\ cyc'.pc \in {"veto", "ledger"}
      /\ cyc'.pc = "ledger" => cyc'.approved = cyc'.pending
  <2>1. CASE RunDiscipline
    BY <1>1, <1>2, <2>1 DEF RunDiscipline, CycleTyped, CycleFields
  <2>2. CASE DisciplineFails
    BY <1>1, <1>2, <2>2 DEF DisciplineFails, CycleTyped, CycleFields
  <2>3. CASE VetoEnds
    BY <1>1, <1>2, <2>3 DEF VetoEnds, CycleTyped, CycleFields
  <2> QED BY <2>1, <2>2, <2>3
<1>4. Left(cyc'.pending, cyc.pending)
  <2>1. cyc.pending \in Seq(PendingSignal) /\ Len(cyc.pending) \in Nat /\ "pending" \in DOMAIN cyc
    BY <1>1, LenProperties DEF CycleTyped, CycleFields
  <2>2. CASE RunDiscipline
    <3>1. cyc'.pending \in Answers(cyc.pending)
      BY <2>1, <2>2 DEF RunDiscipline
    <3> QED BY <2>1, <3>1, AnswersLeave
  <2>3. CASE DisciplineFails
    <3>1. cyc'.pending = <<>>
      BY <2>1, <2>3 DEF DisciplineFails
    <3> QED BY <2>1, <3>1, NothingLeft DEF Left
  <2>4. CASE VetoEnds
    <3>1. cyc'.pending = cyc.pending
      BY <2>1, <2>4 DEF VetoEnds
    <3> QED BY <2>1, <3>1 DEF Left
  <2> QED BY <2>2, <2>3, <2>4
<1>5. Len(cyc'.pending) <= Len(cyc.proposed)
  <2>1. cyc'.pending \in Seq(PendingSignal) /\ Len(cyc'.pending) <= Len(cyc.pending)
    BY <1>4 DEF Left
  <2>2. Len(cyc.pending) <= Len(cyc.proposed) /\ cyc.pending \in Seq(PendingSignal)
        /\ cyc.proposed \in Seq(PendingSignal)
    BY <1>1 DEF CycleTyped
  <2>3. Len(cyc'.pending) \in Nat /\ Len(cyc.pending) \in Nat /\ Len(cyc.proposed) \in Nat
    BY <2>1, <2>2, LenProperties
  <2> QED BY <2>1, <2>2, <2>3
<1>6. CycleTyped'
  BY <1>1, <1>2, <1>3, <1>4, <1>5, NothingLeft DEF CycleTyped, Left, Stages
<1>7. RowsInv'
  BY <1>1, <1>2, <1>3, <1>4, NothingLeft DEF RowsInv, Left
<1> QED BY <1>6, <1>7 DEF VetoInv

\* One row more, which says what the ledger says of its proposal or nothing.
LEMMA RowIsWritten == VetoInv /\ PersistVetoDecision => VetoInv'
<1> SUFFICES ASSUME VetoInv, PersistVetoDecision PROVE VetoInv'
  OBVIOUS
<1>1. CycleTyped /\ RowsInv
  BY DEF VetoInv
<1> DEFINE n == Len(cyc.rows)
<1>2. PICK row0 \in {Verdict(cyc.proposed[n + 1], cyc.pending, cyc.proposed), "lost"} :
        cyc' = [cyc EXCEPT !.rows = Append(@, row0)]
  BY DEF PersistVetoDecision
<1>3. cyc.pc = "ledger" /\ n < Len(cyc.proposed) /\ cycles' = cycles
  BY DEF PersistVetoDecision, AtStage
<1>4. /\ DOMAIN cyc' = CycleFields /\ cyc'.pc = "ledger" /\ cyc'.proposed = cyc.proposed
      /\ cyc'.pending = cyc.pending /\ cyc'.approved = cyc.approved /\ cyc'.failed = cyc.failed
      /\ cyc'.aborted = cyc.aborted /\ cyc'.pre = cyc.pre /\ cyc'.post = cyc.post
      /\ cyc'.collected = cyc.collected /\ cyc'.sent = cyc.sent
      /\ cyc'.rows = Append(cyc.rows, row0)
  BY <1>1, <1>2, <1>3 DEF CycleTyped, CycleFields
<1>5. row0 \in Verdicts
  BY DEF Verdict, Verdicts
<1>6. /\ cyc'.rows \in Seq(Verdicts) /\ Len(cyc'.rows) = n + 1 /\ n \in Nat
      /\ cyc'.rows[n + 1] = row0 /\ \A i \in 1 .. n : cyc'.rows[i] = cyc.rows[i]
      /\ DOMAIN cyc'.rows = 1 .. n + 1 /\ DOMAIN cyc.rows = 1 .. n
  <2>1. cyc.rows \in Seq(Verdicts)
    BY <1>1 DEF CycleTyped
  <2>2. /\ Append(cyc.rows, row0) \in Seq(Verdicts) /\ Len(Append(cyc.rows, row0)) = n + 1
        /\ n \in Nat /\ Append(cyc.rows, row0)[n + 1] = row0
        /\ \A i \in 1 .. n : Append(cyc.rows, row0)[i] = cyc.rows[i]
        /\ DOMAIN cyc.rows = 1 .. n
    BY <1>5, <2>1, AppendProperties, LenProperties
  <2>3. DOMAIN cyc'.rows = 1 .. n + 1
    BY <1>4, <2>2, LenProperties
  <2> QED BY <1>4, <2>2, <2>3
<1>7. Len(cyc.proposed) \in Nat
  BY <1>1, LenProperties DEF CycleTyped
<1>8. CycleTyped'
  BY <1>1, <1>3, <1>4, <1>6, <1>7 DEF CycleTyped
<1>9. \A i \in DOMAIN cyc'.rows :
        cyc'.rows[i] \in {Verdict(cyc'.proposed[i], cyc'.approved, cyc'.proposed), "lost"}
  <2>1. cyc.approved = cyc.pending
    BY <1>1, <1>3 DEF RowsInv
  <2>2. ASSUME NEW i \in 1 .. n
        PROVE  cyc'.rows[i] \in {Verdict(cyc.proposed[i], cyc.approved, cyc.proposed), "lost"}
    BY <1>1, <1>6 DEF RowsInv
  <2>3. cyc'.rows[n + 1] \in {Verdict(cyc.proposed[n + 1], cyc.approved, cyc.proposed), "lost"}
    BY <1>6, <2>1
  <2>4. \A i \in 1 .. n + 1 : i = n + 1 \/ i \in 1 .. n
    BY <1>6
  <2>5. \A i \in 1 .. n + 1 :
          cyc'.rows[i] \in {Verdict(cyc.proposed[i], cyc.approved, cyc.proposed), "lost"}
    BY <2>2, <2>3, <2>4
  <2> QED BY <1>4, <1>6, <2>5
<1>10. RowsInv'
  BY <1>1, <1>3, <1>4, <1>9 DEF RowsInv
<1> QED BY <1>8, <1>10 DEF VetoInv

\* The steps after the ledger: what was proposed, vetoed and written stays.
LEMMA LaterKeeps ==
    ASSUME VetoInv, DOMAIN cyc' = CycleFields, cyc'.pc \in Stages \ {"idle", "veto"},
           cyc.pc \notin {"idle", "veto"}, cycles' = cycles,
           \A f \in {"proposed", "pending", "approved", "rows", "failed"} : cyc'[f] = cyc[f],
           cyc'.aborted \in BOOLEAN, cyc'.pre \in 0 .. Extras, cyc'.post \in 0 .. Extras,
           cyc'.collected \in Nat, cyc'.sent \in 0 .. cyc'.collected
    PROVE  VetoInv'
<1>1. /\ cyc'.proposed = cyc.proposed /\ cyc'.pending = cyc.pending
      /\ cyc'.approved = cyc.approved /\ cyc'.rows = cyc.rows /\ cyc'.failed = cyc.failed
  OBVIOUS
<1>2. CycleTyped /\ RowsInv
  BY DEF VetoInv
<1>3. CycleTyped'
  BY <1>1, <1>2 DEF CycleTyped
<1>4. RowsInv'
  BY <1>1, <1>2 DEF RowsInv
<1> QED BY <1>3, <1>4 DEF VetoInv

LEMMA ExtrasKeep == VetoInv /\ (RunPreExtra \/ RunPostExtra) => VetoInv'
<1> SUFFICES ASSUME VetoInv, RunPreExtra \/ RunPostExtra PROVE VetoInv'
  OBVIOUS
<1>1. CycleTyped
  BY DEF VetoInv
<1>2. /\ cyc.pc \in {"pre", "post"} /\ cycles' = cycles
      /\ DOMAIN cyc' = CycleFields /\ cyc'.pc \in {"pre", "abort", "post"}
      /\ cyc'.proposed = cyc.proposed /\ cyc'.pending = cyc.pending
      /\ cyc'.approved = cyc.approved /\ cyc'.rows = cyc.rows /\ cyc'.failed = cyc.failed
      /\ cyc'.aborted \in BOOLEAN /\ cyc'.sent = cyc.sent
      /\ \E wants \in 0 .. 1 : cyc'.collected = cyc.collected + wants
      /\ cyc'.pre = cyc.pre \/ (cyc'.pre = cyc.pre - 1 /\ cyc.pre > 0)
      /\ cyc'.post = cyc.post \/ (cyc'.post = cyc.post - 1 /\ cyc.post > 0)
  <2>1. CASE RunPreExtra
    <3>1. PICK offered \in {cyc.pending, cyc.proposed}, wants \in 0 .. 1, abort \in BOOLEAN :
           cyc' = [cyc EXCEPT !.pre = @ - 1, !.pending = MergeExtraCtx(@, offered),
                              !.collected = @ + wants, !.aborted = abort,
                              !.pc = IF abort THEN "abort" ELSE "pre"]
      BY <2>1 DEF RunPreExtra
    <3>2. cyc.pc = "pre" /\ cyc.pre > 0 /\ cycles' = cycles /\ DOMAIN cyc = CycleFields
      BY <1>1, <2>1 DEF RunPreExtra, AtStage, CycleTyped
    <3> QED BY <3>1, <3>2 DEF MergeExtraCtx, CycleFields
  <2>2. CASE RunPostExtra
    <3>1. PICK offered \in {cyc.pending, cyc.proposed}, wants \in 0 .. 1 :
           cyc' = [cyc EXCEPT !.post = @ - 1, !.pending = MergeExtraCtx(@, offered),
                              !.collected = @ + wants]
      BY <2>2 DEF RunPostExtra
    <3>2. cyc.pc = "post" /\ cyc.post > 0 /\ cycles' = cycles /\ DOMAIN cyc = CycleFields
          /\ cyc.aborted \in BOOLEAN
      BY <1>1, <2>2 DEF RunPostExtra, AtStage, CycleTyped
    <3> QED BY <3>1, <3>2 DEF MergeExtraCtx, CycleFields
  <2> QED BY <2>1, <2>2
<1>3. cyc'.pre \in 0 .. Extras /\ cyc'.post \in 0 .. Extras
  <2>1. cyc.pre \in 0 .. Extras /\ cyc.post \in 0 .. Extras
    BY <1>1 DEF CycleTyped
  <2>2. \A x \in 0 .. Extras : x > 0 => x - 1 \in 0 .. Extras
    BY CycleBounds
  <2> QED BY <1>2, <2>1, <2>2
<1>4. cyc'.collected \in Nat /\ cyc'.sent \in 0 .. cyc'.collected
  <2>1. cyc.collected \in Nat /\ cyc.sent \in 0 .. cyc.collected
    BY <1>1 DEF CycleTyped
  <2> QED BY <1>2, <2>1
<1>5. \A f \in {"proposed", "pending", "approved", "rows", "failed"} : cyc'[f] = cyc[f]
  BY <1>2
<1>6. cyc'.pc \in Stages \ {"idle", "veto"} /\ cyc.pc \notin {"idle", "veto"}
  BY <1>2 DEF Stages
<1> QED BY <1>2, <1>3, <1>4, <1>5, <1>6, LaterKeeps

LEMMA RestKeeps ==
    VetoInv /\ (LedgerEnds \/ AbortCycle \/ RunTurn \/ PostEnds \/ SendNotification \/ CycleReturns)
      => VetoInv'
<1> SUFFICES ASSUME VetoInv,
                    \/ LedgerEnds \/ AbortCycle \/ RunTurn
                    \/ PostEnds \/ SendNotification \/ CycleReturns
             PROVE  VetoInv'
  OBVIOUS
<1>1. CycleTyped
  BY DEF VetoInv
<1>2. /\ DOMAIN cyc = CycleFields /\ cyc.aborted \in BOOLEAN /\ cyc.pre \in 0 .. Extras
      /\ cyc.post \in 0 .. Extras /\ cyc.collected \in Nat /\ cyc.sent \in 0 .. cyc.collected
  BY <1>1 DEF CycleTyped
<1>3. CASE SendNotification
  <2>1. /\ cyc.pc = "notify" /\ cyc.sent < cyc.collected /\ cycles' = cycles
        /\ cyc' = [cyc EXCEPT !.sent = @ + 1]
    BY <1>3 DEF SendNotification, AtStage
  <2>2. /\ DOMAIN cyc' = CycleFields /\ cyc'.pc = "notify" /\ cyc'.sent = cyc.sent + 1
        /\ \A f \in CycleFields \ {"sent"} : cyc'[f] = cyc[f]
    BY <1>2, <2>1 DEF CycleFields
  <2>3. cyc'.sent \in 0 .. cyc.collected
    BY <1>2, <2>1, <2>2
  <2>4. /\ cyc'.aborted = cyc.aborted /\ cyc'.pre = cyc.pre /\ cyc'.post = cyc.post
        /\ cyc'.collected = cyc.collected
        /\ \A f \in {"proposed", "pending", "approved", "rows", "failed"} : cyc'[f] = cyc[f]
    BY <2>2 DEF CycleFields
  <2> QED BY <1>2, <2>1, <2>2, <2>3, <2>4, LaterKeeps DEF Stages
<1>4. CASE LedgerEnds \/ AbortCycle \/ RunTurn \/ PostEnds \/ CycleReturns
  <2>1. /\ cyc.pc \notin {"idle", "veto"} /\ cycles' = cycles
        /\ \E pc \in Stages \ {"idle", "veto"} : cyc' = [cyc EXCEPT !.pc = pc]
    BY <1>4 DEF LedgerEnds, AbortCycle, RunTurn, PostEnds, CycleReturns, AtStage, ToStage, Stages
  <2>2. /\ DOMAIN cyc' = CycleFields /\ cyc'.pc \in Stages \ {"idle", "veto"}
        /\ \A f \in CycleFields \ {"pc"} : cyc'[f] = cyc[f]
    BY <1>2, <2>1 DEF CycleFields
  <2>3. /\ cyc'.aborted = cyc.aborted /\ cyc'.pre = cyc.pre /\ cyc'.post = cyc.post
        /\ cyc'.collected = cyc.collected /\ cyc'.sent = cyc.sent
        /\ \A f \in {"proposed", "pending", "approved", "rows", "failed"} : cyc'[f] = cyc[f]
    BY <2>2 DEF CycleFields
  <2> QED BY <1>2, <2>1, <2>2, <2>3, LaterKeeps
<1> QED BY <1>3, <1>4

LEMMA VetoNextKeeps == VetoInv /\ [CycleNext]_cycleVars => VetoInv'
<1> SUFFICES ASSUME VetoInv, [CycleNext]_cycleVars PROVE VetoInv'
  OBVIOUS
<1>1. CASE CycleThrows \/ CycleEnds
  BY <1>1, NoCycleKeeps DEF CycleThrows, CycleEnds, VetoInv, CycleTyped
<1>2. CASE UNCHANGED cycleVars
  BY <1>2 DEF cycleVars, VetoInv, CycleTyped, RowsInv
<1> QED
  BY <1>1, <1>2, RunHooksKeeps, VetoStepKeeps, RowIsWritten, ExtrasKeep, RestKeeps
  DEF CycleNext

\* The pipeline of a cycle keeps to its types: no discipline leaves more than
\* was proposed, no more rows are written than proposals, and no more is sent
\* than was asked for (_executeCycle).
THEOREM CycleKeepsTypes == CycleSpec => []CycleTypeOK
<1>1. VetoInv => CycleTypeOK
  <2> SUFFICES ASSUME VetoInv PROVE CycleTypeOK
    OBVIOUS
  <2>1. CycleTyped
    BY DEF VetoInv
  <2>2. ToSet(cyc.rows) \subseteq Verdicts
    <3>1. cyc.rows \in Seq(Verdicts)
      BY <2>1 DEF CycleTyped
    <3>2. \A i \in DOMAIN cyc.rows : cyc.rows[i] \in Verdicts
      BY <3>1, LenProperties, ElementOfSeq
    <3> QED BY <3>2 DEF ToSet
  <2> QED BY <2>1, <2>2 DEF CycleTyped, CycleTypeOK, Stages, Verdicts
<1> QED BY VetoStarts, VetoNextKeeps, <1>1, PTL DEF CycleSpec

\* If no plugin proposes a symbol twice, the ledger never calls blocked what a
\* discipline left to act on, and never passes over that it left nothing
\* (_persistVetoDecisions, _findVetoMatch).
THEOREM BlockedSignalsAreGone ==
    ASSUME ProposedOnce
    PROVE  CycleSpec => []BlockedMeansGone
<1>1. VetoInv => BlockedMeansGone
  <2> SUFFICES ASSUME VetoInv, NEW i \in DOMAIN cyc.rows
               PROVE  LET alive == Alive(cyc.proposed[i], cyc.approved)
                      IN  /\ cyc.rows[i] = "blocked" =>
                               ~ \E j \in alive : cyc.approved[j].source = cyc.proposed[i].source
                          /\ alive = {} => cyc.rows[i] \in {"blocked", "lost"}
                          /\ Len(cyc.approved) = 1 /\ alive # {} => cyc.rows[i] # "blocked"
    BY DEF BlockedMeansGone, Alive
  <2> DEFINE p == cyc.proposed[i]
  <2>1. CycleTyped /\ RowsInv
    BY DEF VetoInv
  <2>2. cyc.rows # <<>>
    BY NothingLeft
  <2>3. cyc.approved = cyc.pending /\ cyc.pending \in Seq(PendingSignal)
    BY <2>1, <2>2 DEF RowsInv, CycleTyped
  <2>4. p \in PendingSignal /\ p.source # NoSource
    <3>1. /\ cyc.rows \in Seq(Verdicts) /\ cyc.proposed \in Seq(PendingSignal)
          /\ Len(cyc.rows) <= Len(cyc.proposed)
      BY <2>1 DEF CycleTyped
    <3>2. i \in 1 .. Len(cyc.proposed) /\ DOMAIN cyc.proposed = 1 .. Len(cyc.proposed)
      BY <3>1, LenProperties
    <3> QED BY <2>1, <3>1, <3>2, ElementOfSeq DEF RowsInv
  <2>5. cyc.rows[i] \in {Verdict(p, cyc.approved, cyc.proposed), "lost"}
    BY <2>1 DEF RowsInv
  <2>6. DistinctSources(cyc.approved)
    BY <2>1, <2>3 DEF RowsInv
  <2> HIDE DEF p
  <2>7. /\ Alive(p, cyc.approved) = {} => Verdict(p, cyc.approved, cyc.proposed) = "blocked"
        /\ Len(cyc.approved) = 1 /\ Alive(p, cyc.approved) # {} =>
             Verdict(p, cyc.approved, cyc.proposed) # "blocked"
        /\ Verdict(p, cyc.approved, cyc.proposed) = "blocked" =>
             ~ \E j \in Alive(p, cyc.approved) : cyc.approved[j].source = p.source
    BY <2>3, <2>4, <2>6, VerdictSays
  <2>8. /\ cyc.rows[i] = "blocked" =>
             ~ \E j \in Alive(p, cyc.approved) : cyc.approved[j].source = p.source
        /\ Alive(p, cyc.approved) = {} => cyc.rows[i] \in {"blocked", "lost"}
        /\ Len(cyc.approved) = 1 /\ Alive(p, cyc.approved) # {} => cyc.rows[i] # "blocked"
    BY <2>5, <2>7
  <2> QED BY <2>8 DEF p
<1> QED BY VetoStarts, VetoNextKeeps, <1>1, PTL DEF CycleSpec

-----------------------------------------------------------------------------
(* GovernedTurn                                                            *)

TurnRecord ==
    [pc : {"idle", "ask", "split", "dispatch"}, source : Sources, virtual : BOOLEAN,
     n : 0 .. 10, executed : Nat, searched : Nat, maxTurns : 1 .. 10, maxCalls : 1 .. 20,
     hoisted : SUBSET TurnPlugins, debate : {"off", "allow", "block"},
     valid : Seq(Kinds), search : Seq(Kinds), run : Seq(Kinds)]
RanRecord == [calls : Nat, searches : Nat, kinds : SUBSET Kinds]

\* A turn that asks has a turn left.
TurnTyped ==
    /\ turn \in TurnRecord
    /\ ran \in RanRecord
    /\ running \subseteq TurnPlugins
    /\ toggles \in 0 .. MaxToggles
    /\ turn.pc = "ask" => turn.n < turn.maxTurns

\* What has run and what waits to run was counted when it was let through.
BudgetInv ==
    turn.pc # "idle" =>
      /\ ran.calls + Len(turn.run) <= turn.executed /\ turn.executed <= turn.maxCalls
      /\ ran.searches + Len(turn.search) <= turn.searched /\ turn.searched <= SearchesPerCycle

\* What a turn may ever run, by its source.
Allowed(t) ==
    {k \in Kinds : /\ k \in {"mutate", "promote"} => t.source = "reflection"
                   /\ t.source = "chat" => k = "search"
                   /\ t.virtual => k # "trade"}

\* What was let through was looked at, and so was what waits and what has run.
GateInv ==
    turn.pc # "idle" =>
      /\ turn.source = "chat" => turn.hoisted = {}
      /\ turn.pc # "ask" => ToSet(turn.valid) \subseteq Allowed(turn)
      /\ ToSet(turn.search) \cup ToSet(turn.run) \cup ran.kinds \subseteq Allowed(turn)

LEMMA TurnBounds ==
    /\ SearchesPerIteration \in Nat /\ SearchesPerCycle \in Nat /\ MaxToggles \in Nat
    /\ Replies \subseteq Seq(Kinds)
    /\ \A r \in RawLimits : ResolveMaxTurns(r) \in 1 .. 10 /\ ResolveMaxToolCalls(r) \in 1 .. 20
BY TurnAssumption DEF ResolveMaxTurns, ResolveMaxToolCalls, Clamp

LEMMA CountsAreWhole ==
    ASSUME NEW t \in TurnRecord
    PROVE  t.executed \in Nat /\ t.searched \in Nat /\ t.maxCalls \in Nat
<1>1. t.executed \in Nat
  BY DEF TurnRecord
<1>2. t.searched \in Nat
  BY DEF TurnRecord
<1>3. t.maxCalls \in 1 .. 20
  BY DEF TurnRecord
<1>4. 1 .. 20 \subseteq Nat
  OBVIOUS
<1> QED BY <1>1, <1>2, <1>3, <1>4

LEMMA IdleTurnTyped == IdleTurn \in TurnRecord /\ NothingRan \in RanRecord /\ IdleTurn.pc = "idle"
<1>1. <<>> \in Seq(Kinds)
  OBVIOUS
<1> QED BY <1>1 DEF IdleTurn, NothingRan, TurnRecord, RanRecord, Sources

LEMMA FirstOfFacts ==
    ASSUME NEW S, NEW s \in Seq(S), NEW n \in Nat
    PROVE  /\ FirstOf(s, n) \in Seq(S)
           /\ Len(FirstOf(s, n)) <= n
           /\ ToSet(FirstOf(s, n)) \subseteq ToSet(s)
<1> DEFINE m == IF Len(s) <= n THEN Len(s) ELSE n
<1>1. Len(s) \in Nat /\ m \in 0 .. Len(s) /\ m <= n
  BY LenProperties
<1>2. FirstOf(s, n) = SubSeq(s, 1, m)
  BY DEF FirstOf
<1> HIDE DEF m
<1>3. /\ SubSeq(s, 1, m) \in Seq(S) /\ Len(SubSeq(s, 1, m)) = m
      /\ \A i \in 1 .. m : SubSeq(s, 1, m)[i] = s[i]
  BY <1>1
<1>4. ToSet(SubSeq(s, 1, m)) \subseteq ToSet(s)
  BY <1>1, <1>3 DEF ToSet
<1> QED BY <1>1, <1>2, <1>3, <1>4

\* Whatever is let through is allowed to the turn.
LEMMA ValidatedIsAllowed ==
    ASSUME NEW reply \in Seq(Kinds), NEW active \in SUBSET TurnPlugins,
           turn \in TurnRecord, turn.source = "chat" => turn.hoisted = {}
    PROVE  /\ Validate(reply, active) \in Seq(Kinds)
           /\ ToSet(Validate(reply, active)) \subseteq Allowed(turn)
<1> DEFINE wanted == {k \in Kinds : DropReason(k, active) = "none"}
<1>1. wanted \subseteq Allowed(turn)
  <2> SUFFICES ASSUME NEW k \in Kinds, DropReason(k, active) = "none" PROVE k \in Allowed(turn)
    OBVIOUS
  <2>1. CASE k \in KernelKinds
    BY <2>1 DEF DropReason, KernelKinds, Allowed, Kinds
  <2>2. CASE k \notin KernelKinds
    <3>1. PluginOf(k) \in active /\ PluginOf(k) \in turn.hoisted
      BY <2>2 DEF DropReason
    <3>2. turn.virtual => k # "trade"
      BY <2>2, <3>1 DEF DropReason, PluginOf
    <3> QED BY <2>2, <3>1, <3>2 DEF KernelKinds, Allowed, Kinds
  <2> QED BY <2>1, <2>2
<1>2. Validate(reply, active) = Only(reply, wanted)
  BY DEF Validate
<1> HIDE DEF wanted
<1>3. Only(reply, wanted) \in Seq(Kinds) /\ ToSet(Only(reply, wanted)) \subseteq wanted
  BY OnlyFacts
<1> QED BY <1>1, <1>2, <1>3

\* What Split takes of what is valid.
LEMMA SplitFacts ==
    ASSUME TurnTyped, Split
    PROVE  \E search \in Seq(Kinds), run \in Seq(Kinds) :
             /\ turn' = [turn EXCEPT !.pc = "dispatch", !.search = search, !.run = run,
                            !.executed = turn.executed + Len(run),
                            !.searched = turn.searched + Len(search)]
             /\ ToSet(search) \cup ToSet(run) \subseteq ToSet(turn.valid)
             /\ Len(run) <= Remaining(turn.maxCalls, turn.executed)
             /\ Len(search) <= Remaining(SearchesPerCycle, turn.searched)
<1> DEFINE searches == Only(turn.valid, {"search"})
           calls == Only(turn.valid, Kinds \ {"search"})
           others == PrioritizeExits(calls)
           left == Remaining(SearchesPerCycle, turn.searched)
           cap == IF left < SearchesPerIteration THEN left ELSE SearchesPerIteration
           search == FirstOf(searches, cap)
           run == FirstOf(others, Remaining(turn.maxCalls, turn.executed))
<1>1. turn.valid \in Seq(Kinds)
  BY DEF TurnTyped, TurnRecord
<1>2. /\ searches \in Seq(Kinds) /\ ToSet(searches) \subseteq ToSet(turn.valid)
      /\ calls \in Seq(Kinds) /\ ToSet(calls) \subseteq ToSet(turn.valid)
  BY <1>1, OnlyFacts
<1>3. others \in Seq(Kinds) /\ ToSet(others) \subseteq ToSet(turn.valid)
  <2> HIDE DEF calls
  <2> DEFINE exits == Only(calls, {"exit"})
             rest == Only(calls, Kinds \ {"exit"})
  <2>1. /\ exits \in Seq(Kinds) /\ ToSet(exits) \subseteq ToSet(calls)
        /\ rest \in Seq(Kinds) /\ ToSet(rest) \subseteq ToSet(calls)
    BY <1>2, OnlyFacts
  <2>2. others = exits \o rest
    BY DEF PrioritizeExits
  <2> HIDE DEF exits, rest, others
  <2>3. others \in Seq(Kinds) /\ ToSet(others) = ToSet(exits) \cup ToSet(rest)
    BY <2>1, <2>2, ElementsOfConcat
  <2> QED BY <1>2, <2>1, <2>3
<1>4. /\ left \in Nat /\ cap \in Nat /\ cap <= left
      /\ Remaining(turn.maxCalls, turn.executed) \in Nat
  <2>1. turn.searched \in Nat /\ turn.executed \in Nat /\ turn.maxCalls \in Nat
    BY CountsAreWhole DEF TurnTyped
  <2>2. SearchesPerCycle \in Nat /\ SearchesPerIteration \in Nat
    BY TurnBounds
  <2> HIDE DEF searches, calls, others, search, run
  <2>3. left \in Nat /\ Remaining(turn.maxCalls, turn.executed) \in Nat
    BY <2>1, <2>2 DEF Remaining
  <2> HIDE DEF left
  <2> QED BY <2>2, <2>3
<1>5. turn' = [turn EXCEPT !.pc = "dispatch", !.search = search, !.run = run,
                  !.executed = turn.executed + Len(run), !.searched = turn.searched + Len(search)]
  BY DEF Split
<1> HIDE DEF searches, others, left, cap
<1>6. /\ search \in Seq(Kinds) /\ Len(search) <= cap /\ ToSet(search) \subseteq ToSet(searches)
      /\ run \in Seq(Kinds) /\ Len(run) <= Remaining(turn.maxCalls, turn.executed)
      /\ ToSet(run) \subseteq ToSet(others)
  BY <1>2, <1>3, <1>4, FirstOfFacts
<1>7. Len(search) <= left
  BY <1>4, <1>6, LenProperties
<1>8. Len(search) <= Remaining(SearchesPerCycle, turn.searched)
  BY <1>7 DEF left
<1> HIDE DEF search, run
<1> QED BY <1>2, <1>3, <1>5, <1>6, <1>8

\* What is left of a budget, taken, does not exceed it.
LEMMA SpendingFits ==
    ASSUME NEW limit \in Nat, NEW used \in Nat, used <= limit,
           NEW n \in Nat, n <= Remaining(limit, used)
    PROVE  used + n <= limit
BY DEF Remaining

TurnInv == TurnTyped /\ BudgetInv /\ GateInv

LEMMA TurnStarts == TurnInit => TurnInv
<1> SUFFICES ASSUME TurnInit PROVE TurnInv
  OBVIOUS
<1>1. turn = IdleTurn /\ ran = NothingRan /\ running = TurnPlugins /\ toggles = 0
  BY DEF TurnInit
<1> QED BY <1>1, IdleTurnTyped, TurnBounds DEF TurnInv, TurnTyped, BudgetInv, GateInv

LEMMA BeginTurnKeeps == TurnInv /\ BeginTurn => TurnInv'
<1> SUFFICES ASSUME TurnInv, BeginTurn PROVE TurnInv'
  OBVIOUS
<1>1. PICK source \in Sources, turns \in RawLimits, calls \in RawLimits,
           debate \in {"off", "allow", "block"} :
         turn' = [IdleTurn EXCEPT !.pc = "ask", !.source = source, !.virtual = source = "pretest",
                    !.maxTurns = ResolveMaxTurns(turns), !.maxCalls = ResolveMaxToolCalls(calls),
                    !.hoisted = IF source = "chat" THEN {} ELSE running, !.debate = debate]
  BY DEF BeginTurn
<1>2. ResolveMaxTurns(turns) \in 1 .. 10 /\ ResolveMaxToolCalls(calls) \in 1 .. 20
  BY TurnBounds
<1>3. ran' = NothingRan /\ UNCHANGED <<running, toggles>>
  BY DEF BeginTurn
<1>4. /\ turn'.pc = "ask" /\ turn'.n = 0 /\ turn'.maxTurns \in 1 .. 10 /\ turn'.maxCalls \in 1 .. 20
      /\ turn'.executed = 0 /\ turn'.searched = 0 /\ turn'.source = source
      /\ turn'.hoisted = IF source = "chat" THEN {} ELSE running
      /\ turn'.valid = <<>> /\ turn'.search = <<>> /\ turn'.run = <<>>
  BY <1>1, <1>2 DEF IdleTurn
<1>5. turn' \in TurnRecord
  <2>1. (source = "pretest") \in BOOLEAN /\ (IF source = "chat" THEN {} ELSE running) \in SUBSET TurnPlugins
    BY DEF TurnInv, TurnTyped
  <2> QED BY <1>1, <1>2, <2>1, IdleTurnTyped DEF TurnRecord
<1>6. TurnTyped'
  BY <1>3, <1>4, <1>5, IdleTurnTyped DEF TurnInv, TurnTyped
<1>7. BudgetInv'
  BY <1>3, <1>4, TurnBounds DEF BudgetInv, NothingRan
<1>8. GateInv'
  <2>1. ToSet(<<>>) = {}
    BY DEF ToSet
  <2> QED BY <1>3, <1>4, <2>1 DEF GateInv, NothingRan
<1> QED BY <1>6, <1>7, <1>8 DEF TurnInv

\* An idle turn has nothing to keep.
LEMMA IdleKeeps ==
    ASSUME TurnTyped, turn' = IdleTurn, UNCHANGED <<running, toggles, ran>>
    PROVE  TurnInv'
BY IdleTurnTyped DEF TurnInv, TurnTyped, BudgetInv, GateInv

LEMMA AskLlmKeeps == TurnInv /\ AskLlm => TurnInv'
<1> SUFFICES ASSUME TurnInv, AskLlm PROVE TurnInv'
  OBVIOUS
<1>1. turn \in TurnRecord /\ turn.pc = "ask" /\ UNCHANGED <<running, toggles, ran>>
  BY DEF TurnInv, TurnTyped, AskLlm, AtTurn
<1>2. CASE turn' = IdleTurn
  BY <1>1, <1>2, IdleKeeps DEF TurnInv
<1>3. ASSUME NEW reply \in Replies, NEW active \in SUBSET TurnPlugins,
             turn' = [turn EXCEPT !.pc = "split", !.n = turn.n + 1, !.valid = Validate(reply, active)]
      PROVE  TurnInv'
  <2>1. /\ Validate(reply, active) \in Seq(Kinds)
        /\ ToSet(Validate(reply, active)) \subseteq Allowed(turn)
    BY <1>1, TurnBounds, ValidatedIsAllowed DEF TurnInv, GateInv
  <2> DEFINE valid == Validate(reply, active)
  <2> HIDE DEF valid
  <2>2. turn.n + 1 \in 0 .. 10
    BY <1>1 DEF TurnInv, TurnTyped, TurnRecord
  <2>3. turn' = [turn EXCEPT !.pc = "split", !.n = turn.n + 1, !.valid = valid] /\ valid \in Seq(Kinds)
    BY <1>3, <2>1 DEF valid
  <2>4. turn' \in TurnRecord
    BY <1>1, <2>2, <2>3 DEF TurnRecord
  <2>5. /\ turn'.pc = "split" /\ turn'.valid = valid /\ turn'.source = turn.source
        /\ turn'.virtual = turn.virtual /\ turn'.hoisted = turn.hoisted
        /\ turn'.search = turn.search /\ turn'.run = turn.run /\ turn'.executed = turn.executed
        /\ turn'.searched = turn.searched /\ turn'.maxCalls = turn.maxCalls
    BY <1>1, <2>3 DEF TurnRecord
  <2>6. Allowed(turn') = Allowed(turn)
    BY <2>5 DEF Allowed
  <2>7. TurnTyped'
    BY <1>1, <2>4, <2>5 DEF TurnInv, TurnTyped
  <2>8. BudgetInv'
    BY <1>1, <2>5 DEF TurnInv, BudgetInv
  <2>9. GateInv'
    BY <1>1, <2>1, <2>5, <2>6 DEF TurnInv, GateInv, valid
  <2> QED BY <2>7, <2>8, <2>9 DEF TurnInv
<1>4. \A reply \in Replies : (IF turn.source = "cycle" THEN turn.hoisted ELSE running) \in SUBSET TurnPlugins
  BY <1>1 DEF TurnInv, TurnTyped, TurnRecord
<1> QED BY <1>2, <1>3, <1>4 DEF AskLlm

LEMMA SplitKeeps == TurnInv /\ Split => TurnInv'
<1> SUFFICES ASSUME TurnInv, Split PROVE TurnInv'
  OBVIOUS
<1>1. turn \in TurnRecord /\ ran \in RanRecord /\ turn.pc = "split" /\ UNCHANGED <<running, toggles, ran>>
  BY DEF TurnInv, TurnTyped, Split, AtTurn
<1>2. PICK search \in Seq(Kinds), run \in Seq(Kinds) :
             /\ turn' = [turn EXCEPT !.pc = "dispatch", !.search = search, !.run = run,
                            !.executed = turn.executed + Len(run),
                            !.searched = turn.searched + Len(search)]
             /\ ToSet(search) \cup ToSet(run) \subseteq ToSet(turn.valid)
             /\ Len(run) <= Remaining(turn.maxCalls, turn.executed)
             /\ Len(search) <= Remaining(SearchesPerCycle, turn.searched)
  BY SplitFacts DEF TurnInv
<1>3. Len(search) \in Nat /\ Len(run) \in Nat
  BY LenProperties
<1>4. turn' \in TurnRecord
  <2>1. turn.executed + Len(run) \in Nat /\ turn.searched + Len(search) \in Nat
    BY <1>1, <1>3 DEF TurnRecord
  <2> QED BY <1>1, <1>2, <2>1 DEF TurnRecord
<1>5. /\ turn'.pc = "dispatch" /\ turn'.valid = turn.valid /\ turn'.source = turn.source
      /\ turn'.virtual = turn.virtual /\ turn'.hoisted = turn.hoisted
      /\ turn'.search = search /\ turn'.run = run /\ turn'.executed = turn.executed + Len(run)
      /\ turn'.searched = turn.searched + Len(search) /\ turn'.maxCalls = turn.maxCalls
  BY <1>1, <1>2 DEF TurnRecord
<1>6. TurnTyped'
  BY <1>1, <1>4, <1>5 DEF TurnInv, TurnTyped
<1>7. BudgetInv'
  <2>1. /\ turn.executed \in Nat /\ turn.searched \in Nat /\ turn.maxCalls \in Nat
        /\ SearchesPerCycle \in Nat /\ ran.calls \in Nat /\ ran.searches \in Nat
    <3>1. turn.executed \in Nat /\ turn.searched \in Nat /\ turn.maxCalls \in Nat
      BY <1>1, CountsAreWhole
    <3>2. ran.calls \in Nat /\ ran.searches \in Nat
      BY <1>1 DEF RanRecord
    <3> QED BY <3>1, <3>2, TurnBounds
  <2>2. /\ ran.calls <= turn.executed /\ turn.executed <= turn.maxCalls
        /\ ran.searches <= turn.searched /\ turn.searched <= SearchesPerCycle
    <3>1. Len(turn.run) \in Nat /\ Len(turn.search) \in Nat
      BY <1>1, LenProperties DEF TurnRecord
    <3> QED BY <1>1, <2>1, <3>1 DEF TurnInv, BudgetInv
  <2>3. turn.executed + Len(run) <= turn.maxCalls /\ turn.searched + Len(search) <= SearchesPerCycle
    BY <1>2, <1>3, <2>1, <2>2, SpendingFits
  <2>4. ran.calls + Len(run) <= turn.executed + Len(run) /\ ran.searches + Len(search) <= turn.searched + Len(search)
    BY <1>3, <2>1, <2>2
  <2> QED BY <1>1, <1>5, <2>3, <2>4 DEF BudgetInv
<1>8. GateInv'
  <2>1. Allowed(turn') = Allowed(turn)
    BY <1>5 DEF Allowed
  <2> QED BY <1>1, <1>2, <1>5, <2>1 DEF TurnInv, GateInv
<1> QED BY <1>6, <1>7, <1>8 DEF TurnInv

LEMMA SearchKeeps == TurnInv /\ Search => TurnInv'
<1> SUFFICES ASSUME TurnInv, Search PROVE TurnInv'
  OBVIOUS
<1>1. /\ turn \in TurnRecord /\ ran \in RanRecord /\ turn.pc = "dispatch" /\ turn.search # <<>>
      /\ UNCHANGED <<running, toggles>>
      /\ ran' = [ran EXCEPT !.searches = ran.searches + 1, !.kinds = ran.kinds \cup {"search"}]
      /\ turn' = [turn EXCEPT !.search = Tail(turn.search)]
  BY DEF TurnInv, TurnTyped, Search, AtTurn
<1>2. /\ Tail(turn.search) \in Seq(Kinds) /\ ToSet(Tail(turn.search)) \subseteq ToSet(turn.search)
      /\ Len(Tail(turn.search)) = Len(turn.search) - 1 /\ Len(turn.search) \in Nat
  BY <1>1, ElementsOfTail DEF TurnRecord
<1>3. turn' \in TurnRecord /\ ran' \in RanRecord
  <2>1. turn' \in TurnRecord
    BY <1>1, <1>2 DEF TurnRecord
  <2>2. ran.searches + 1 \in Nat /\ ran.kinds \cup {"search"} \in SUBSET Kinds
    BY <1>1 DEF RanRecord, Kinds
  <2>3. ran' \in RanRecord
    BY <1>1, <2>2 DEF RanRecord
  <2> QED BY <2>1, <2>3
<1>4. /\ turn'.pc = "dispatch" /\ turn'.valid = turn.valid /\ turn'.source = turn.source
      /\ turn'.virtual = turn.virtual /\ turn'.hoisted = turn.hoisted
      /\ turn'.search = Tail(turn.search) /\ turn'.run = turn.run /\ turn'.executed = turn.executed
      /\ turn'.searched = turn.searched /\ turn'.maxCalls = turn.maxCalls
      /\ ran'.searches = ran.searches + 1 /\ ran'.calls = ran.calls
      /\ ran'.kinds = ran.kinds \cup {"search"}
  BY <1>1 DEF TurnRecord, RanRecord
<1>5. TurnTyped'
  BY <1>1, <1>3, <1>4 DEF TurnInv, TurnTyped
<1>6. BudgetInv'
  <2>1. ran.searches \in Nat
    BY <1>1 DEF RanRecord
  <2>2. ran'.searches + Len(turn'.search) = ran.searches + Len(turn.search)
    BY <1>2, <1>4, <2>1
  <2> QED BY <1>1, <1>4, <2>2 DEF TurnInv, BudgetInv
<1>7. GateInv'
  <2>1. Allowed(turn') = Allowed(turn) /\ "search" \in Allowed(turn)
    BY <1>4 DEF Allowed, Kinds
  <2> QED BY <1>1, <1>2, <1>4, <2>1 DEF TurnInv, GateInv
<1> QED BY <1>5, <1>6, <1>7 DEF TurnInv

LEMMA DispatchKeeps == TurnInv /\ Dispatch => TurnInv'
<1> SUFFICES ASSUME TurnInv, Dispatch PROVE TurnInv'
  OBVIOUS
<1>1. /\ turn \in TurnRecord /\ ran \in RanRecord /\ turn.pc = "dispatch" /\ turn.run # <<>>
      /\ UNCHANGED <<running, toggles>>
      /\ turn' = [turn EXCEPT !.run = Tail(turn.run)]
  BY DEF TurnInv, TurnTyped, Dispatch, AtTurn
<1>2. \/ ran' = ran
      \/ ran' = [ran EXCEPT !.calls = ran.calls + 1, !.kinds = ran.kinds \cup {Head(turn.run)}]
  BY DEF Dispatch
<1>3. /\ Tail(turn.run) \in Seq(Kinds) /\ ToSet(Tail(turn.run)) \subseteq ToSet(turn.run)
      /\ Len(Tail(turn.run)) = Len(turn.run) - 1 /\ Len(turn.run) \in Nat
      /\ Head(turn.run) \in ToSet(turn.run) /\ Head(turn.run) \in Kinds
  <2>1. turn.run \in Seq(Kinds)
    BY <1>1 DEF TurnRecord
  <2> QED BY <1>1, <2>1, ElementsOfTail, HeadTailProperties
<1>4. turn' \in TurnRecord /\ ran' \in RanRecord
  <2>1. turn' \in TurnRecord
    BY <1>1, <1>3 DEF TurnRecord
  <2>2. ran.calls + 1 \in Nat /\ ran.kinds \cup {Head(turn.run)} \in SUBSET Kinds
    BY <1>1, <1>3 DEF RanRecord
  <2>3. ran' \in RanRecord
    BY <1>1, <1>2, <2>2 DEF RanRecord
  <2> QED BY <2>1, <2>3
<1>5. /\ turn'.pc = "dispatch" /\ turn'.valid = turn.valid /\ turn'.source = turn.source
      /\ turn'.virtual = turn.virtual /\ turn'.hoisted = turn.hoisted
      /\ turn'.search = turn.search /\ turn'.run = Tail(turn.run) /\ turn'.executed = turn.executed
      /\ turn'.searched = turn.searched /\ turn'.maxCalls = turn.maxCalls
      /\ ran'.searches = ran.searches /\ ran'.calls \in {ran.calls, ran.calls + 1}
      /\ ran'.kinds \subseteq ran.kinds \cup {Head(turn.run)}
  BY <1>1, <1>2 DEF TurnRecord, RanRecord
<1>6. TurnTyped'
  BY <1>1, <1>4, <1>5 DEF TurnInv, TurnTyped
<1>7. BudgetInv'
  <2>1. ran.calls \in Nat /\ turn.executed \in Nat
    BY <1>1 DEF RanRecord, TurnRecord
  <2>2. ran'.calls + Len(turn'.run) <= ran.calls + Len(turn.run) /\ ran.calls + Len(turn.run) <= turn.executed
    BY <1>1, <1>3, <1>5, <2>1 DEF TurnInv, BudgetInv
  <2>3. ran'.calls + Len(turn'.run) <= turn.executed
    BY <1>3, <1>5, <2>1, <2>2
  <2> QED BY <1>1, <1>5, <2>3 DEF TurnInv, BudgetInv
<1>8. GateInv'
  <2>1. Allowed(turn') = Allowed(turn)
    BY <1>5 DEF Allowed
  <2> QED BY <1>1, <1>3, <1>5, <2>1 DEF TurnInv, GateInv
<1> QED BY <1>6, <1>7, <1>8 DEF TurnInv

LEMMA EndIterationKeeps == TurnInv /\ EndIteration => TurnInv'
<1> SUFFICES ASSUME TurnInv, EndIteration PROVE TurnInv'
  OBVIOUS
<1>1. turn \in TurnRecord /\ turn.pc = "dispatch" /\ UNCHANGED <<running, toggles, ran>>
  BY DEF TurnInv, TurnTyped, EndIteration, AtTurn
<1>2. CASE turn' = IdleTurn
  BY <1>1, <1>2, IdleKeeps DEF TurnInv
<1>3. CASE turn' = [turn EXCEPT !.pc = "ask"] /\ ~(turn.n >= turn.maxTurns)
  <2>1. turn' \in TurnRecord
    BY <1>1, <1>3 DEF TurnRecord
  <2>2. /\ turn'.pc = "ask" /\ turn'.valid = turn.valid /\ turn'.source = turn.source
        /\ turn'.virtual = turn.virtual /\ turn'.hoisted = turn.hoisted
        /\ turn'.search = turn.search /\ turn'.run = turn.run /\ turn'.executed = turn.executed
        /\ turn'.searched = turn.searched /\ turn'.maxCalls = turn.maxCalls
        /\ turn'.n = turn.n /\ turn'.maxTurns = turn.maxTurns /\ turn.n < turn.maxTurns
    <3>1. turn.n < turn.maxTurns
      <4>1. turn.n \in Nat /\ turn.maxTurns \in Nat
        BY <1>1 DEF TurnRecord
      <4> QED BY <1>3, <4>1
    <3>2. /\ turn'.pc = "ask" /\ turn'.valid = turn.valid /\ turn'.source = turn.source
          /\ turn'.virtual = turn.virtual /\ turn'.hoisted = turn.hoisted
          /\ turn'.search = turn.search /\ turn'.run = turn.run /\ turn'.executed = turn.executed
          /\ turn'.searched = turn.searched /\ turn'.maxCalls = turn.maxCalls
          /\ turn'.n = turn.n /\ turn'.maxTurns = turn.maxTurns
      BY <1>1, <1>3 DEF TurnRecord
    <3> QED BY <3>1, <3>2
  <2>3. Allowed(turn') = Allowed(turn)
    BY <2>2 DEF Allowed
  <2>4. TurnTyped'
    BY <1>1, <2>1, <2>2 DEF TurnInv, TurnTyped
  <2>5. BudgetInv'
    BY <1>1, <2>2 DEF TurnInv, BudgetInv
  <2>6. GateInv'
    BY <1>1, <2>2, <2>3 DEF TurnInv, GateInv
  <2> QED BY <2>4, <2>5, <2>6 DEF TurnInv
<1> QED BY <1>2, <1>3 DEF EndIteration

LEMMA TurnStepKeeps == TurnInv /\ [TurnNext]_turnVars => TurnInv'
<1> SUFFICES ASSUME TurnInv, [TurnNext]_turnVars PROVE TurnInv'
  OBVIOUS
<1>1. CASE TogglePlugin
  <2>1. UNCHANGED <<turn, ran>> /\ running' \subseteq TurnPlugins /\ toggles' \in 0 .. MaxToggles
    <3>1. PICK p \in TurnPlugins : running' = IF p \in running THEN running \ {p} ELSE running \cup {p}
      BY <1>1 DEF TogglePlugin
    <3>2. running' \subseteq TurnPlugins
      BY <3>1 DEF TurnInv, TurnTyped
    <3>3. toggles' \in 0 .. MaxToggles
      BY <1>1, TurnBounds DEF TogglePlugin, TurnInv, TurnTyped
    <3> QED BY <1>1, <3>2, <3>3 DEF TogglePlugin
  <2> QED BY <2>1 DEF TurnInv, TurnTyped, BudgetInv, GateInv, Allowed
<1>2. CASE UNCHANGED turnVars
  BY <1>2 DEF turnVars, TurnInv, TurnTyped, BudgetInv, GateInv, Allowed
<1> QED BY <1>1, <1>2, BeginTurnKeeps, AskLlmKeeps, SplitKeeps, SearchKeeps, DispatchKeeps,
           EndIterationKeeps DEF TurnNext

\* Over all its iterations a turn runs no more than its budgets, whatever the
\* LLM asks for in each of them (_executeToolCalls, MAX_WEB_SEARCH_CALLS_PER_CYCLE).
THEOREM TurnStaysInBudget == TurnSpec => []BudgetHolds
<1>1. TurnInv => BudgetHolds
  <2> SUFFICES ASSUME TurnInv, turn.pc # "idle"
               PROVE  ran.calls <= turn.maxCalls /\ ran.searches <= SearchesPerCycle
    BY DEF BudgetHolds
  <2>1. /\ Len(turn.run) \in Nat /\ Len(turn.search) \in Nat /\ ran.calls \in Nat
        /\ ran.searches \in Nat /\ turn.executed \in Nat /\ turn.searched \in Nat
        /\ turn.maxCalls \in Nat /\ SearchesPerCycle \in Nat
    <3>1. turn \in TurnRecord /\ ran \in RanRecord
      BY DEF TurnInv, TurnTyped
    <3>2. turn.run \in Seq(Kinds) /\ turn.search \in Seq(Kinds)
      BY <3>1 DEF TurnRecord
    <3>3. Len(turn.run) \in Nat /\ Len(turn.search) \in Nat
      BY <3>2, LenProperties
    <3>4. turn.executed \in Nat /\ turn.searched \in Nat /\ turn.maxCalls \in Nat
      BY <3>1, CountsAreWhole
    <3>5. ran.calls \in Nat /\ ran.searches \in Nat
      BY <3>1 DEF RanRecord
    <3> QED BY <3>3, <3>4, <3>5, TurnBounds
  <2>2. /\ ran.calls + Len(turn.run) <= turn.executed /\ turn.executed <= turn.maxCalls
        /\ ran.searches + Len(turn.search) <= turn.searched /\ turn.searched <= SearchesPerCycle
    BY DEF TurnInv, BudgetInv
  <2>3. ran.calls <= turn.maxCalls
    BY <2>1, <2>2
  <2>4. ran.searches <= SearchesPerCycle
    BY <2>1, <2>2
  <2> QED BY <2>3, <2>4
<1> QED BY TurnStarts, TurnStepKeeps, <1>1, PTL DEF TurnSpec

\* Only a reflection changes what the platform learns and promotes, a chat runs
\* no plugin, and a virtual evaluation reaches no broker (_resolveDropReason).
THEOREM SourcesAreGated == TurnSpec => []SourceGateHolds
<1>1. TurnInv => SourceGateHolds
  <2> SUFFICES ASSUME TurnInv, turn.pc # "idle"
               PROVE  /\ ran.kinds \cap {"mutate", "promote"} # {} => turn.source = "reflection"
                      /\ turn.source = "chat" => ran.kinds \subseteq {"search"}
                      /\ turn.virtual => "trade" \notin ran.kinds
    BY DEF SourceGateHolds
  <2>1. ran.kinds \subseteq Allowed(turn)
    BY DEF TurnInv, GateInv
  <2> QED BY <2>1 DEF Allowed
<1> QED BY TurnStarts, TurnStepKeeps, <1>1, PTL DEF TurnSpec

\* The state of a turn keeps to its types.
THEOREM TurnKeepsTypes == TurnSpec => []TurnTypeOK
<1>1. TurnInv => TurnTypeOK
  BY DEF TurnInv, TurnTyped, TurnRecord, RanRecord, TurnTypeOK
<1> QED BY TurnStarts, TurnStepKeeps, <1>1, PTL DEF TurnSpec
-----------------------------------------------------------------------------
(* RiskDiscipline                                                          *)

Batch == Seq(RiskSignals)
Sizes == [Sectors -> Int]
Executions == [book : [RiskSymbols -> Nat], sector : Sizes]

LiveOnes == {sig \in RiskSignals : IsLive(sig)}
Cancelled == {sig \in RiskSignals : ~IsLive(sig)}
ExitOnes == {sig \in RiskSignals : sig.action \in RiskExits}

\* What a layer may make of a signal leaves it a signal, of the same symbol.
LEMMA SignalChanged ==
    ASSUME NEW sig \in RiskSignals
    PROVE  /\ Cancel(sig) \in Cancelled /\ ~OpensPosition(Cancel(sig)) /\ Cancel(sig) \notin ExitOnes
           /\ OpensPosition(sig) => sig \in LiveOnes /\ sig \notin ExitOnes
           /\ sig \in ExitOnes => sig \in LiveOnes
           /\ \A n \in Nat : /\ [sig EXCEPT !.notional = n] \in RiskSignals
                             /\ [sig EXCEPT !.notional = n].action = sig.action
                             /\ [sig EXCEPT !.notional = n].symbol = sig.symbol
                             /\ [sig EXCEPT !.notional = n].notional = n
                             /\ [sig EXCEPT !.notional = n].size = sig.size
           /\ \A n \in Nat : /\ [sig EXCEPT !.size = n] \in RiskSignals
                             /\ [sig EXCEPT !.size = n].action = sig.action
                             /\ [sig EXCEPT !.size = n].symbol = sig.symbol
                             /\ [sig EXCEPT !.size = n].notional = sig.notional
                             /\ [sig EXCEPT !.size = n].size = n
           /\ \A n \in Nat : /\ [sig EXCEPT !.usd = n] \in RiskSignals
                             /\ [sig EXCEPT !.usd = n].action = sig.action
                             /\ [sig EXCEPT !.usd = n].symbol = sig.symbol
                             /\ [sig EXCEPT !.usd = n].notional = sig.notional
                             /\ [sig EXCEPT !.usd = n].size = sig.size
<1>1. /\ sig.symbol \in RiskSymbols /\ sig.action \in RiskActions /\ sig.notional \in Nat
      /\ sig.size \in Nat /\ sig.usd \in Nat
  BY DEF RiskSignals
<1>2. Cancel(sig) \in RiskSignals /\ Cancel(sig).action = "cancelled"
  BY DEF Cancel, RiskSignals, RiskActions
<1>3. /\ Cancel(sig) \in Cancelled /\ ~OpensPosition(Cancel(sig)) /\ Cancel(sig) \notin ExitOnes
      /\ OpensPosition(sig) => sig \in LiveOnes /\ sig \notin ExitOnes
      /\ sig \in ExitOnes => sig \in LiveOnes
  BY <1>2 DEF Cancelled, LiveOnes, ExitOnes, IsLive, OpensPosition, RiskEntries, RiskExits
<1>4. ASSUME NEW n \in Nat
      PROVE  /\ [sig EXCEPT !.notional = n] \in RiskSignals
             /\ [sig EXCEPT !.size = n] \in RiskSignals
             /\ [sig EXCEPT !.usd = n] \in RiskSignals
  BY DEF RiskSignals
<1> QED BY <1>3, <1>4 DEF RiskSignals

\* The bounds are whole numbers.
LEMMA RiskBounds ==
    ASSUME NEW ctx \in RiskContexts
    PROVE  /\ TradeCap(ctx) \in Int /\ AssetCap(ctx) \in Int /\ TotalCap(ctx) \in Int
           /\ RiskConfig.sector \in Int /\ RiskConfig.cash \in Int
           /\ IsFiniteSet(RiskSymbols)
           /\ ctx.held \in [RiskSymbols -> Nat] /\ ctx.sized \in [RiskSymbols -> Nat]
<1>1. ctx.value \in Nat /\ ctx.held \in [RiskSymbols -> Nat] /\ ctx.sized \in [RiskSymbols -> Nat]
  BY RiskAssumption
<1>2. /\ RiskConfig.trade \in Nat /\ RiskConfig.asset \in Nat /\ RiskConfig.total \in Nat
      /\ RiskConfig.sector \in Nat /\ RiskConfig.cash \in Nat
  BY RiskAssumption
<1>3. ASSUME NEW a \in Nat, NEW b \in Nat PROVE (a * b) \div 100 \in Int
  <2>1. a * b \in Int
    OBVIOUS
  <2> QED BY <2>1
<1>4. TradeCap(ctx) \in Int /\ AssetCap(ctx) \in Int /\ TotalCap(ctx) \in Int
  BY <1>1, <1>2, <1>3 DEF TradeCap, AssetCap, TotalCap
<1>5. IsFiniteSet(RiskSymbols)
  BY RiskAssumption
<1> QED BY <1>1, <1>2, <1>4, <1>5

\* The sector of a symbol is one of the sectors.
LEMMA SectorKnown ==
    ASSUME NEW ctx \in RiskContexts
    PROVE  /\ \A s \in RiskSymbols : SectorOf[s] \in Sectors
           /\ SectorSize(ctx) \in Sizes
           /\ SumFunction(ctx.held) \in Int /\ SumFunction(ctx.sized) \in Int
<1>1. /\ IsFiniteSet(RiskSymbols)
      /\ ctx.held \in [RiskSymbols -> Nat] /\ ctx.sized \in [RiskSymbols -> Nat]
  BY RiskBounds
<1>2. ASSUME NEW S \in SUBSET RiskSymbols, NEW f \in [RiskSymbols -> Nat]
      PROVE  SumFunctionOnSet(f, S) \in Int
  <2>1. IsFiniteSet(S)
    BY <1>1, FS_Subset
  <2> QED BY <2>1, TotalType
<1>3. SectorSize(ctx) \in Sizes
  <2> DEFINE of(c) == {s \in RiskSymbols : SectorOf[s] = c}
  <2>1. \A c \in Sectors : SumFunctionOnSet(ctx.sized, of(c)) \in Int
    BY <1>1, <1>2
  <2> QED BY <2>1 DEF SectorSize, Sizes
<1>4. SumFunction(ctx.held) \in Int /\ SumFunction(ctx.sized) \in Int
  <2>1. DOMAIN ctx.held = RiskSymbols /\ DOMAIN ctx.sized = RiskSymbols
    BY <1>1
  <2> QED BY <1>1, <1>2, <2>1 DEF SumFunction
<1> QED BY <1>3, <1>4 DEF Sectors

-----------------------------------------------------------------------------
(* Executing a list of signals                                             *)

LEMMA BeforeTyped == \A ctx \in RiskContexts : Before(ctx) \in Executions
BY RiskBounds, SectorKnown DEF Before, Executions

LEMMA ExecuteTyped ==
    ASSUME NEW run \in Executions, NEW sig \in RiskSignals
    PROVE  Execute(run, sig) \in Executions
<1>1. /\ sig.symbol \in RiskSymbols /\ sig.notional \in Nat /\ sig.size \in Nat
      /\ SectorOf[sig.symbol] \in Sectors
  BY DEF RiskSignals, Sectors
<1>2. run.book[sig.symbol] \in Nat /\ run.sector[SectorOf[sig.symbol]] \in Int
  BY <1>1 DEF Executions, Sizes
<1>3. CASE OpensPosition(sig)
  <2> DEFINE b == run.book[sig.symbol] + sig.notional
             z == run.sector[SectorOf[sig.symbol]] + sig.size
  <2>1. b \in Nat /\ z \in Int
    BY <1>1, <1>2
  <2>2. Execute(run, sig) =
          [book |-> [run.book EXCEPT ![sig.symbol] = b],
           sector |-> [run.sector EXCEPT ![SectorOf[sig.symbol]] = z]]
    BY <1>3 DEF Execute, OpensPosition, RiskEntries, RiskExits
  <2>3. run.book \in [RiskSymbols -> Nat] /\ run.sector \in [Sectors -> Int]
    BY DEF Executions, Sizes
  <2> HIDE DEF b, z
  <2> QED BY <1>1, <2>1, <2>2, <2>3 DEF Executions, Sizes
<1>4. CASE ~OpensPosition(sig) /\ sig.action \in RiskExits
  <2> DEFINE b == Positive(run.book[sig.symbol] - sig.notional)
  <2>1. b \in Nat
    BY <1>1, <1>2 DEF Positive
  <2>2. Execute(run, sig) = [run EXCEPT !.book[sig.symbol] = b]
    BY <1>4 DEF Execute
  <2> HIDE DEF b
  <2> QED BY <1>1, <2>1, <2>2 DEF Executions
<1> QED BY <1>3, <1>4 DEF Execute

ExecuteStep == [p \in Executions \X RiskSignals |-> Execute(p[1], p[2])]

LEMMA ExecuteStepTyped ==
    /\ ExecuteStep \in [Executions \X RiskSignals -> Executions]
    /\ \A run \in Executions, sig \in RiskSignals : ExecuteStep[<<run, sig>>] = Execute(run, sig)
BY ExecuteTyped DEF ExecuteStep

LEMMA ExecutedFolds ==
    ASSUME NEW ctx \in RiskContexts, NEW s \in Seq(RiskSignals)
    PROVE  FoldsTo(Executed(ctx, s), s, Executions, ExecuteStep, Before(ctx))
<1> DEFINE Right(fold) ==
             fold = [A \in SUBSET (DOMAIN s) |->
                       IF A = {} THEN Before(ctx) ELSE Execute(fold[A \ {Max(A)}], s[Max(A)])]
           chosen == CHOOSE fold : Right(fold)
<1>1. Before(ctx) \in Executions
  BY BeforeTyped
<1>2. PICK fold : SetFold(fold, s, RiskSignals, Executions, ExecuteStep, Before(ctx))
  BY <1>1, ExecuteStepTyped, SeqFoldExists
<1>3. Right(fold)
  BY <1>2, ExecuteStepTyped DEF SetFold
<1>4. Right(chosen)
  BY <1>3
<1>5. Executed(ctx, s) = chosen[DOMAIN s]
  BY DEF Executed, FoldLeft, MapThenFoldSet
<1>6. StepsOnSets(chosen, s, Executions, ExecuteStep, Before(ctx))
  <2>1. \A A \in SUBSET DOMAIN s : A # {} => s[Max(A)] \in RiskSignals
    BY <1>2 DEF SetFold
  <2> HIDE DEF chosen
  <2> QED BY <1>4, <2>1, ExecuteStepTyped DEF StepsOnSets
<1> HIDE DEF chosen, Right
<1>7. FoldsTo(chosen[DOMAIN s], s, Executions, ExecuteStep, Before(ctx))
  BY <1>1, <1>6, ExecuteStepTyped, PrefixesFold
<1> QED BY <1>5, <1>7

\* Signals are executed one after the other.
LEMMA ExecutedInTurn ==
    ASSUME NEW ctx \in RiskContexts
    PROVE  /\ Executed(ctx, <<>>) = Before(ctx) /\ Before(ctx) \in Executions
           /\ \A s \in Seq(RiskSignals), x \in RiskSignals :
                /\ Executed(ctx, s) \in Executions
                /\ Executed(ctx, Append(s, x)) = Execute(Executed(ctx, s), x)
<1>1. Before(ctx) \in Executions
  BY BeforeTyped
<1>2. Executed(ctx, <<>>) = Before(ctx)
  <2>1. FoldsTo(Executed(ctx, <<>>), <<>>, Executions, ExecuteStep, Before(ctx))
    <3>1. <<>> \in Seq(RiskSignals)
      OBVIOUS
    <3> QED BY <3>1, ExecutedFolds
  <2> QED BY <2>1, FoldsNothing
<1>3. ASSUME NEW s \in Seq(RiskSignals), NEW x \in RiskSignals
      PROVE  /\ Executed(ctx, s) \in Executions
             /\ Executed(ctx, Append(s, x)) = Execute(Executed(ctx, s), x)
  <2> DEFINE v == Executed(ctx, s)
             t == Append(s, x)
             w == Executed(ctx, t)
             base == Before(ctx)
             step == ExecuteStep
  <2>1. t \in Seq(RiskSignals) /\ OneLonger(t, s, x, RiskSignals)
    BY AppendProperties DEF OneLonger
  <2> HIDE DEF t
  <2>2. FoldsTo(v, s, Executions, step, base) /\ FoldsTo(w, t, Executions, step, base)
    BY <2>1, ExecutedFolds
  <2>3. StepOn(step, RiskSignals, Executions, base)
    BY <1>1, ExecuteStepTyped DEF StepOn
  <2> HIDE DEF v, w, base, step
  <2>4. v \in Executions /\ w = step[<<v, x>>]
    BY <2>1, <2>2, <2>3, FoldsAppend
  <2> QED BY <2>4, ExecuteStepTyped DEF v, w, t, step
<1> QED BY <1>1, <1>2, <1>3
-----------------------------------------------------------------------------
(* Layer 1: exposure                                                       *)

Exposures == [book : [RiskSymbols -> Nat], total : Int, out : Batch]

Unexposed(ctx) == [book |-> ctx.held, total |-> SumFunction(ctx.held), out |-> <<>>]

\* A signal goes on and the book stays: it is cancelled, or it trades nothing.
ExposesNothing(run, sig, next) ==
    \E made \in {sig, Cancel(sig)} :
      /\ next = [run EXCEPT !.out = Append(@, made)]
      /\ made.action \notin RiskExits /\ sig \notin ExitOnes
      /\ OpensPosition(made) => made.notional = 0

\* An exit takes what it sells out of the book.
ExposesExit(run, sig, next) ==
    /\ sig \in ExitOnes /\ ~OpensPosition(sig)
    /\ next = [book |-> [run.book EXCEPT ![sig.symbol] = Positive(@ - sig.notional)],
               total |-> Positive(run.total - sig.notional), out |-> Append(run.out, sig)]

\* An entry takes the room its caps leave it.
ExposesEntry(ctx, run, sig, next) ==
    /\ OpensPosition(sig) /\ sig \notin ExitOnes
    /\ \E n \in Nat :
         /\ run.book[sig.symbol] + n <= AssetCap(ctx)
         /\ run.total + n <= TotalCap(ctx)
         /\ next = [book |-> [run.book EXCEPT ![sig.symbol] = @ + n],
                    total |-> run.total + n, out |-> Append(run.out, [sig EXCEPT !.notional = n])]

LEMMA ExposeCases ==
    ASSUME NEW ctx \in RiskContexts, NEW run \in Exposures, NEW sig \in RiskSignals
    PROVE  \/ ExposesNothing(run, sig, Expose(ctx, run, sig))
           \/ ExposesExit(run, sig, Expose(ctx, run, sig))
           \/ ExposesEntry(ctx, run, sig, Expose(ctx, run, sig))
<1>1. /\ sig.symbol \in RiskSymbols /\ sig.notional \in Nat /\ sig.action \in RiskActions
      /\ run.book[sig.symbol] \in Nat /\ run.total \in Int /\ run.out \in Batch
      /\ run.book \in [RiskSymbols -> Nat]
  BY DEF RiskSignals, Exposures
<1>2. /\ TradeCap(ctx) \in Int /\ AssetCap(ctx) \in Int /\ TotalCap(ctx) \in Int
  BY RiskBounds
<1>3. Emit(run, Cancel(sig)) = [run EXCEPT !.out = Append(@, Cancel(sig))]
  BY DEF Emit
<1>4. /\ Cancel(sig).action \notin RiskExits /\ ~OpensPosition(Cancel(sig))
  BY SignalChanged DEF Cancel, RiskExits, OpensPosition, RiskEntries
<1>5. CASE OpensPosition(sig)
  <2> DEFINE n == Least(FitsAsset(ctx, run, sig), TotalCap(ctx) - run.total)
             refused == \/ sig.action \in {"short", "sell_short"} /\ ~RiskConfig.shorts
                        \/ sig.notional > 0 /\ (n <= 0 \/ TooManyOpen(run, sig))
  <2>1. /\ Expose(ctx, run, sig) = EntryCapped(ctx, run, sig)
        /\ sig \notin ExitOnes /\ sig.action \notin RiskExits
    BY <1>5 DEF Expose, OpensPosition, RiskEntries, RiskExits, ExitOnes
  <2>2. CASE refused
    <3>1. EntryCapped(ctx, run, sig) = Emit(run, Cancel(sig))
      BY <2>2 DEF EntryCapped
    <3> QED BY <1>3, <1>4, <2>1, <3>1 DEF ExposesNothing
  <2>3. CASE ~refused /\ sig.notional = 0
    <3>1. EntryCapped(ctx, run, sig) = Emit(run, sig)
      BY <2>3 DEF EntryCapped
    <3> QED BY <2>1, <2>3, <3>1 DEF ExposesNothing, Emit
  <2>4. CASE ~refused /\ sig.notional # 0
    <3>1. EntryCapped(ctx, run, sig) =
            Emit([run EXCEPT !.book[sig.symbol] = @ + n, !.total = @ + n],
                 [sig EXCEPT !.notional = n])
      BY <2>4 DEF EntryCapped
    <3>2. n \in Int /\ n > 0
      BY <1>1, <1>2, <2>4 DEF FitsAsset, FitsTrade, Least
    <3>3. n <= AssetCap(ctx) - run.book[sig.symbol] /\ n <= TotalCap(ctx) - run.total
      BY <1>1, <1>2 DEF FitsAsset, FitsTrade, Least
    <3> HIDE DEF n
    <3>4. n \in Nat /\ run.book[sig.symbol] + n <= AssetCap(ctx) /\ run.total + n <= TotalCap(ctx)
      BY <1>1, <1>2, <3>2, <3>3
    <3>5. EntryCapped(ctx, run, sig) =
            [book |-> [run.book EXCEPT ![sig.symbol] = @ + n],
             total |-> run.total + n, out |-> Append(run.out, [sig EXCEPT !.notional = n])]
      BY <1>1, <3>1 DEF Emit, Exposures
    <3> QED BY <1>5, <2>1, <3>4, <3>5 DEF ExposesEntry
  <2> QED BY <2>2, <2>3, <2>4
<1>6. CASE ~OpensPosition(sig) /\ sig.action \in RiskExits
  <2>1. Expose(ctx, run, sig) = ExitPasses(run, sig) /\ sig \in ExitOnes
    BY <1>6 DEF Expose, ExitOnes
  <2>2. ExitPasses(run, sig) =
          [book |-> [run.book EXCEPT ![sig.symbol] = Positive(@ - sig.notional)],
           total |-> Positive(run.total - sig.notional), out |-> Append(run.out, sig)]
    <3> DEFINE b == Positive(run.book[sig.symbol] - sig.notional)
               r == Positive(run.total - sig.notional)
    <3>1. ExitPasses(run, sig) = Emit([run EXCEPT !.book[sig.symbol] = b, !.total = r], sig)
      BY DEF ExitPasses
    <3> HIDE DEF b, r
    <3>2. ExitPasses(run, sig) = [book |-> [run.book EXCEPT ![sig.symbol] = b],
                                  total |-> r, out |-> Append(run.out, sig)]
      BY <1>1, <3>1 DEF Emit, Exposures
    <3> QED BY <3>2 DEF b, r
  <2> QED BY <1>6, <2>1, <2>2 DEF ExposesExit
<1>7. CASE ~OpensPosition(sig) /\ sig.action \notin RiskExits
  <2>1. Expose(ctx, run, sig) = Emit(run, sig) /\ sig \notin ExitOnes
    BY <1>7 DEF Expose, ExitOnes
  <2> QED BY <1>7, <2>1 DEF ExposesNothing, Emit
<1> QED BY <1>5, <1>6, <1>7

LEMMA ExposeTyped ==
    ASSUME NEW ctx \in RiskContexts, NEW run \in Exposures, NEW sig \in RiskSignals
    PROVE  Expose(ctx, run, sig) \in Exposures
<1> DEFINE next == Expose(ctx, run, sig)
<1>1. /\ sig.symbol \in RiskSymbols /\ sig.notional \in Nat
      /\ run.book[sig.symbol] \in Nat /\ run.total \in Int /\ run.out \in Batch
      /\ run.book \in [RiskSymbols -> Nat]
  BY DEF RiskSignals, Exposures
<1>2. Cancel(sig) \in RiskSignals /\ \A n \in Nat : [sig EXCEPT !.notional = n] \in RiskSignals
  BY SignalChanged DEF Cancelled
<1>3. \A x \in RiskSignals : Append(run.out, x) \in Batch
  BY <1>1, AppendProperties DEF Batch
<1>4. CASE ExposesNothing(run, sig, next)
  BY <1>2, <1>3, <1>4 DEF ExposesNothing, Exposures
<1>5. CASE ExposesExit(run, sig, next)
  <2> DEFINE b == Positive(run.book[sig.symbol] - sig.notional)
             r == Positive(run.total - sig.notional)
             o == Append(run.out, sig)
  <2>1. b \in Nat /\ r \in Int /\ o \in Batch
    BY <1>1, <1>3 DEF Positive
  <2>2. next = [book |-> [run.book EXCEPT ![sig.symbol] = b], total |-> r, out |-> o]
    BY <1>5 DEF ExposesExit
  <2> HIDE DEF b, r, o, next
  <2>3. [run.book EXCEPT ![sig.symbol] = b] \in [RiskSymbols -> Nat]
    BY <1>1, <2>1
  <2> QED BY <2>1, <2>2, <2>3 DEF Exposures, next
<1>6. CASE ExposesEntry(ctx, run, sig, next)
  <2>1. PICK n \in Nat :
          next = [book |-> [run.book EXCEPT ![sig.symbol] = @ + n],
                  total |-> run.total + n, out |-> Append(run.out, [sig EXCEPT !.notional = n])]
    BY <1>6 DEF ExposesEntry
  <2> DEFINE b == run.book[sig.symbol] + n
             r == run.total + n
             o == Append(run.out, [sig EXCEPT !.notional = n])
  <2>2. b \in Nat /\ r \in Int /\ o \in Batch
    BY <1>1, <1>2, <1>3
  <2>3. next = [book |-> [run.book EXCEPT ![sig.symbol] = b], total |-> r, out |-> o]
    BY <2>1
  <2> HIDE DEF b, r, o, next
  <2>4. [run.book EXCEPT ![sig.symbol] = b] \in [RiskSymbols -> Nat]
    BY <1>1, <2>2
  <2> QED BY <2>2, <2>3, <2>4 DEF Exposures, next
<1> QED BY <1>4, <1>5, <1>6, ExposeCases

ExposeStep(ctx) == [p \in Exposures \X RiskSignals |-> Expose(ctx, p[1], p[2])]

LEMMA ExposeStepTyped ==
    ASSUME NEW ctx \in RiskContexts
    PROVE  /\ Unexposed(ctx) \in Exposures
           /\ ExposeStep(ctx) \in [Exposures \X RiskSignals -> Exposures]
           /\ \A run \in Exposures, sig \in RiskSignals :
                ExposeStep(ctx)[<<run, sig>>] = Expose(ctx, run, sig)
<1>1. <<>> \in Batch
  BY DEF Batch
<1>2. Unexposed(ctx) \in Exposures
  BY <1>1, RiskBounds, SectorKnown DEF Unexposed, Exposures
<1> QED BY <1>2, ExposeTyped DEF ExposeStep

LEMMA ExposureFolds ==
    ASSUME NEW ctx \in RiskContexts, NEW s \in Seq(RiskSignals)
    PROVE  FoldsTo(Exposure(ctx, s), s, Exposures, ExposeStep(ctx), Unexposed(ctx))
<1> DEFINE Right(fold) ==
             fold = [A \in SUBSET (DOMAIN s) |->
                       IF A = {} THEN Unexposed(ctx)
                       ELSE Expose(ctx, fold[A \ {Max(A)}], s[Max(A)])]
           chosen == CHOOSE fold : Right(fold)
<1>1. Unexposed(ctx) \in Exposures
  BY ExposeStepTyped
<1>2. PICK fold : SetFold(fold, s, RiskSignals, Exposures, ExposeStep(ctx), Unexposed(ctx))
  BY <1>1, ExposeStepTyped, SeqFoldExists
<1>3. Right(fold)
  BY <1>2, ExposeStepTyped DEF SetFold
<1>4. Right(chosen)
  BY <1>3
<1>5. Exposure(ctx, s) = chosen[DOMAIN s]
  BY DEF Exposure, FoldLeft, MapThenFoldSet, Unexposed
<1>6. StepsOnSets(chosen, s, Exposures, ExposeStep(ctx), Unexposed(ctx))
  <2>1. \A A \in SUBSET DOMAIN s : A # {} => s[Max(A)] \in RiskSignals
    BY <1>2 DEF SetFold
  <2> HIDE DEF chosen
  <2> QED BY <1>4, <2>1, ExposeStepTyped DEF StepsOnSets
<1> HIDE DEF chosen, Right
<1>7. FoldsTo(chosen[DOMAIN s], s, Exposures, ExposeStep(ctx), Unexposed(ctx))
  BY <1>1, <1>6, ExposeStepTyped, PrefixesFold
<1> QED BY <1>5, <1>7

\* The layer takes one signal after the other.
LEMMA ExposureInTurn ==
    ASSUME NEW ctx \in RiskContexts
    PROVE  /\ Exposure(ctx, <<>>) = Unexposed(ctx) /\ Unexposed(ctx) \in Exposures
           /\ \A s \in Seq(RiskSignals), x \in RiskSignals :
                /\ Exposure(ctx, s) \in Exposures
                /\ Exposure(ctx, Append(s, x)) = Expose(ctx, Exposure(ctx, s), x)
<1>1. Unexposed(ctx) \in Exposures
  BY ExposeStepTyped
<1>2. Exposure(ctx, <<>>) = Unexposed(ctx)
  <2>1. FoldsTo(Exposure(ctx, <<>>), <<>>, Exposures, ExposeStep(ctx), Unexposed(ctx))
    <3>1. <<>> \in Seq(RiskSignals)
      OBVIOUS
    <3> QED BY <3>1, ExposureFolds
  <2> QED BY <2>1, FoldsNothing
<1>3. ASSUME NEW s \in Seq(RiskSignals), NEW x \in RiskSignals
      PROVE  /\ Exposure(ctx, s) \in Exposures
             /\ Exposure(ctx, Append(s, x)) = Expose(ctx, Exposure(ctx, s), x)
  <2> DEFINE v == Exposure(ctx, s)
             t == Append(s, x)
             w == Exposure(ctx, t)
             base == Unexposed(ctx)
             step == ExposeStep(ctx)
  <2>1. t \in Seq(RiskSignals) /\ OneLonger(t, s, x, RiskSignals)
    BY AppendProperties DEF OneLonger
  <2> HIDE DEF t
  <2>2. FoldsTo(v, s, Exposures, step, base) /\ FoldsTo(w, t, Exposures, step, base)
    BY <2>1, ExposureFolds
  <2>3. StepOn(step, RiskSignals, Exposures, base)
    BY <1>1, ExposeStepTyped DEF StepOn
  <2> HIDE DEF v, w, base, step
  <2>4. v \in Exposures /\ w = step[<<v, x>>]
    BY <2>1, <2>2, <2>3, FoldsAppend
  <2> QED BY <2>4, ExposeStepTyped DEF v, w, t, step
<1> QED BY <1>1, <1>2, <1>3

\* The exits of a list that grows.
LEMMA ExitsOfAppend ==
    ASSUME NEW s \in Batch, NEW x \in RiskSignals
    PROVE  /\ LiveExits(s) \in Batch
           /\ x \in ExitOnes => LiveExits(Append(s, x)) = Append(LiveExits(s), x)
           /\ x \notin ExitOnes => LiveExits(Append(s, x)) = LiveExits(s)
<1>1. LiveExits(s) = Only(s, ExitOnes) /\ LiveExits(Append(s, x)) = Only(Append(s, x), ExitOnes)
  BY DEF LiveExits, ExitOnes
<1>2. Only(Append(s, x), ExitOnes) =
        IF x \in ExitOnes THEN Append(Only(s, ExitOnes), x) ELSE Only(s, ExitOnes)
  BY OnlyAppend DEF Batch
<1>3. Only(s, ExitOnes) \in Batch
  BY OnlyFacts DEF Batch
<1> QED BY <1>1, <1>2, <1>3, Zenon

\* What executing a signal does.
LEMMA ExecuteEffect ==
    ASSUME NEW run \in Executions, NEW sig \in RiskSignals
    PROVE  /\ OpensPosition(sig) =>
                /\ Execute(run, sig).book = [run.book EXCEPT ![sig.symbol] = @ + sig.notional]
                /\ Execute(run, sig).sector = [run.sector EXCEPT ![SectorOf[sig.symbol]] = @ + sig.size]
           /\ sig \in ExitOnes =>
                /\ Execute(run, sig).book = [run.book EXCEPT ![sig.symbol] = Positive(@ - sig.notional)]
                /\ Execute(run, sig).sector = run.sector
           /\ ~OpensPosition(sig) /\ sig \notin ExitOnes => Execute(run, sig) = run
<1>1. CASE OpensPosition(sig)
  <2>1. sig \notin ExitOnes
    BY <1>1, SignalChanged
  <2>2. Execute(run, sig) = [book |-> [run.book EXCEPT ![sig.symbol] = @ + sig.notional],
          sector |-> [run.sector EXCEPT ![SectorOf[sig.symbol]] = @ + sig.size]]
    BY <1>1 DEF Execute, OpensPosition, RiskEntries, RiskExits
  <2> QED BY <1>1, <2>1, <2>2
<1>2. CASE sig \in ExitOnes
  <2>1. ~OpensPosition(sig) /\ sig.action \in RiskExits
    BY <1>2, SignalChanged DEF ExitOnes
  <2> DEFINE b == Positive(run.book[sig.symbol] - sig.notional)
  <2>2. Execute(run, sig) = [run EXCEPT !.book[sig.symbol] = b]
    BY <2>1 DEF Execute
  <2> HIDE DEF b
  <2>3. Execute(run, sig).book = [run.book EXCEPT ![sig.symbol] = b] /\ Execute(run, sig).sector = run.sector
    BY <2>2 DEF Executions
  <2> QED BY <1>2, <2>1, <2>3 DEF b
<1>3. CASE ~OpensPosition(sig) /\ sig \notin ExitOnes
  BY <1>3 DEF Execute, ExitOnes
<1> QED BY <1>1, <1>2, <1>3

\* What the layer keeps true of the batch so far.
ExposureKeeps(ctx, s, run) ==
    /\ run.book = Executed(ctx, run.out).book
    /\ \A sym \in RiskSymbols : AtMost(run.book[sym], AssetCap(ctx), ctx.held[sym])
    /\ LiveExits(run.out) = LiveExits(s)
    /\ LiveExits(s) = <<>> =>
         /\ run.total = SumFunction(run.book)
         /\ AtMost(run.total, TotalCap(ctx), SumFunction(ctx.held))

LEMMA ExposureKept ==
    ASSUME NEW ctx \in RiskContexts, NEW run \in Exposures,
           NEW s \in Batch, NEW x \in RiskSignals, ExposureKeeps(ctx, s, run)
    PROVE  ExposureKeeps(ctx, Append(s, x), Expose(ctx, run, x))
<1> DEFINE next == Expose(ctx, run, x)
           sym == x.symbol
           done == Executed(ctx, run.out)
<1>1. /\ sym \in RiskSymbols /\ x.notional \in Nat
      /\ run.book[sym] \in Nat /\ run.total \in Int /\ run.out \in Batch
      /\ run.book \in [RiskSymbols -> Nat]
      /\ AssetCap(ctx) \in Int /\ TotalCap(ctx) \in Int
      /\ ctx.held \in [RiskSymbols -> Nat] /\ IsFiniteSet(RiskSymbols)
      /\ SumFunction(ctx.held) \in Int
  BY RiskBounds, SectorKnown DEF RiskSignals, Exposures
<1>2. done \in Executions /\ \A y \in RiskSignals :
        Executed(ctx, Append(run.out, y)) = Execute(done, y)
  BY <1>1, ExecutedInTurn DEF Batch
<1>3. done.book = run.book
  BY DEF ExposureKeeps
<1>4. next \in Exposures
  BY ExposeTyped
<1>5. CASE ExposesNothing(run, x, next)
  <2>1. PICK made \in {x, Cancel(x)} :
          /\ next = [run EXCEPT !.out = Append(@, made)]
          /\ made.action \notin RiskExits /\ x \notin ExitOnes
          /\ OpensPosition(made) => made.notional = 0
    BY <1>5 DEF ExposesNothing
  <2>2. made \in RiskSignals /\ made \notin ExitOnes
    BY <2>1, SignalChanged DEF Cancelled, ExitOnes
  <2>3. next.book = run.book /\ next.total = run.total /\ next.out = Append(run.out, made)
    BY <2>1 DEF Exposures
  <2>4. Execute(done, made).book = done.book
    <3>1. CASE OpensPosition(made)
      <4>1. made.symbol \in RiskSymbols /\ done.book \in [RiskSymbols -> Nat]
        BY <1>2, <2>2 DEF RiskSignals, Executions
      <4> HIDE DEF done
      <4>2. Execute(done, made).book = [done.book EXCEPT ![made.symbol] = @ + made.notional]
        BY <1>2, <2>2, <3>1, ExecuteEffect
      <4> QED BY <2>1, <3>1, <4>1, <4>2
    <3>2. CASE ~OpensPosition(made)
      BY <1>2, <2>2, <3>2, ExecuteEffect
    <3> QED BY <3>1, <3>2
  <2>5. next.book = Executed(ctx, next.out).book
    BY <1>2, <1>3, <2>2, <2>3, <2>4
  <2>6. LiveExits(next.out) = LiveExits(run.out) /\ LiveExits(Append(s, x)) = LiveExits(s)
    BY <1>1, <2>1, <2>2, <2>3, ExitsOfAppend
  <2> HIDE DEF next, done
  <2> QED BY <2>3, <2>5, <2>6 DEF ExposureKeeps, next
<1>6. CASE ExposesExit(run, x, next)
  <2> DEFINE b == Positive(run.book[sym] - x.notional)
  <2>1. x \in ExitOnes /\ next.book = [run.book EXCEPT ![sym] = b] /\ next.out = Append(run.out, x)
    BY <1>6 DEF ExposesExit
  <2>2. b \in Nat /\ b <= run.book[sym]
    BY <1>1 DEF Positive
  <2>3. Execute(done, x).book = [run.book EXCEPT ![sym] = b]
    <3> HIDE DEF done
    <3>1. Execute(done, x).book = [done.book EXCEPT ![x.symbol] = Positive(@ - x.notional)]
      BY <1>2, <2>1, ExecuteEffect
    <3> QED BY <1>3, <3>1
  <2> HIDE DEF b, next, done
  <2>4. next.book = Executed(ctx, next.out).book
    BY <1>2, <2>1, <2>3
  <2>5. ASSUME NEW z \in RiskSymbols
        PROVE  AtMost(next.book[z], AssetCap(ctx), ctx.held[z])
    <3>1. AtMost(run.book[z], AssetCap(ctx), ctx.held[z])
      BY DEF ExposureKeeps
    <3>2. run.book[z] \in Nat /\ ctx.held[z] \in Nat /\ next.book[z] \in Nat /\ next.book[z] <= run.book[z]
      BY <1>1, <2>1, <2>2
    <3> QED BY <1>1, <3>1, <3>2 DEF AtMost
  <2>6. LiveExits(next.out) = Append(LiveExits(run.out), x) /\ LiveExits(Append(s, x)) = Append(LiveExits(s), x)
    BY <1>1, <2>1, ExitsOfAppend
  <2>7. LiveExits(s) \in Batch /\ LiveExits(run.out) = LiveExits(s)
    BY ExitsOfAppend DEF ExposureKeeps
  <2>8. Append(LiveExits(s), x) # <<>>
    BY <2>7, AppendProperties DEF Batch
  <2>9. LiveExits(next.out) = LiveExits(Append(s, x)) /\ LiveExits(Append(s, x)) # <<>>
    BY <2>6, <2>7, <2>8
  <2> QED BY <2>4, <2>5, <2>9 DEF ExposureKeeps, next
<1>7. CASE ExposesEntry(ctx, run, x, next)
  <2>1. PICK n \in Nat :
         /\ run.book[sym] + n <= AssetCap(ctx)
         /\ run.total + n <= TotalCap(ctx)
         /\ next = [book |-> [run.book EXCEPT ![sym] = @ + n],
                    total |-> run.total + n, out |-> Append(run.out, [x EXCEPT !.notional = n])]
    BY <1>7 DEF ExposesEntry
  <2> DEFINE made == [x EXCEPT !.notional = n]
  <2>2. /\ made \in RiskSignals /\ made.symbol = sym /\ made.notional = n
        /\ OpensPosition(x) /\ x \notin ExitOnes /\ OpensPosition(made) /\ made \notin ExitOnes
    <3>1. OpensPosition(x) /\ x \notin ExitOnes
      BY <1>7 DEF ExposesEntry
    <3>2. made \in RiskSignals /\ made.symbol = sym /\ made.notional = n /\ made.action = x.action
      BY SignalChanged
    <3> HIDE DEF made
    <3> QED BY <3>1, <3>2 DEF OpensPosition, ExitOnes
  <2>3. /\ next.book = [run.book EXCEPT ![sym] = @ + n] /\ next.total = run.total + n
        /\ next.out = Append(run.out, made)
    BY <2>1
  <2> HIDE DEF made, next, done
  <2>4. Execute(done, made).book = [run.book EXCEPT ![sym] = @ + n]
    <3>1. Execute(done, made).book = [done.book EXCEPT ![made.symbol] = @ + made.notional]
      BY <1>2, <2>2, ExecuteEffect
    <3> QED BY <1>3, <2>2, <3>1
  <2>5. next.book = Executed(ctx, next.out).book
    BY <1>2, <2>2, <2>3, <2>4
  <2>6. ASSUME NEW z \in RiskSymbols
        PROVE  AtMost(next.book[z], AssetCap(ctx), ctx.held[z])
    <3>1. AtMost(run.book[z], AssetCap(ctx), ctx.held[z])
      BY DEF ExposureKeeps
    <3>2. z = sym \/ next.book[z] = run.book[z]
      BY <1>1, <2>3
    <3>3. next.book[sym] <= AssetCap(ctx)
      BY <1>1, <2>1, <2>3
    <3> QED BY <3>1, <3>2, <3>3 DEF AtMost
  <2>7. LiveExits(next.out) = LiveExits(run.out) /\ LiveExits(Append(s, x)) = LiveExits(s)
    BY <1>1, <2>2, <2>3, ExitsOfAppend
  <2>8. SumFunction(next.book) = SumFunction(run.book) + n
    <3>1. /\ next.book \in [RiskSymbols -> Nat] /\ next.book[sym] = run.book[sym] + n
          /\ \A z \in RiskSymbols \ {sym} : next.book[z] = run.book[z]
      BY <1>1, <1>4, <2>3 DEF Exposures
    <3>2. SumFunction(next.book) = SumFunctionOnSet(next.book, RiskSymbols)
          /\ SumFunction(run.book) = SumFunctionOnSet(run.book, RiskSymbols)
      BY <1>1, <3>1 DEF SumFunction
    <3>3. SumFunctionOnSet(run.book, RiskSymbols) \in Int
      BY <1>1, TotalType
    <3>4. SumFunctionOnSet(next.book, RiskSymbols) =
            SumFunctionOnSet(run.book, RiskSymbols) + next.book[sym] - run.book[sym]
      BY <1>1, <3>1, TotalChanges
    <3> QED BY <1>1, <3>1, <3>2, <3>3, <3>4
  <2>9. LiveExits(s) = <<>> => next.total = SumFunction(next.book)
    BY <2>3, <2>8 DEF ExposureKeeps
  <2>10. AtMost(next.total, TotalCap(ctx), SumFunction(ctx.held))
    BY <2>1, <2>3 DEF AtMost
  <2>11. LiveExits(run.out) = LiveExits(s)
    BY DEF ExposureKeeps
  <2> QED BY <2>5, <2>6, <2>7, <2>9, <2>10, <2>11 DEF ExposureKeeps, next
<1> QED BY <1>5, <1>6, <1>7, ExposeCases

LEMMA ExposureHolds ==
    ASSUME NEW ctx \in RiskContexts, NEW s \in Batch
    PROVE  Exposure(ctx, s) \in Exposures /\ ExposureKeeps(ctx, s, Exposure(ctx, s))
<1> DEFINE T == {t \in Batch : ExposureKeeps(ctx, t, Exposure(ctx, t))}
<1>1. <<>> \in T
  <2>1. Exposure(ctx, <<>>) = Unexposed(ctx) /\ Executed(ctx, <<>>) = Before(ctx)
    BY ExposureInTurn, ExecutedInTurn
  <2>2. <<>> \in Batch
    BY DEF Batch
  <2>3. /\ ctx.held \in [RiskSymbols -> Nat] /\ SumFunction(ctx.held) \in Int
        /\ \A z \in RiskSymbols : ctx.held[z] \in Nat
    BY RiskBounds, SectorKnown
  <2>4. ExposureKeeps(ctx, <<>>, Unexposed(ctx))
    BY <2>1, <2>3 DEF ExposureKeeps, Unexposed, Before, AtMost
  <2> QED BY <2>1, <2>2, <2>4
<1>2. ASSUME NEW t \in Seq(RiskSignals), NEW x \in RiskSignals, t \in T
      PROVE  Append(t, x) \in T
  <2>1. Exposure(ctx, t) \in Exposures /\ Exposure(ctx, Append(t, x)) = Expose(ctx, Exposure(ctx, t), x)
    BY ExposureInTurn
  <2>2. Append(t, x) \in Batch
    BY AppendProperties DEF Batch
  <2>3. ExposureKeeps(ctx, Append(t, x), Expose(ctx, Exposure(ctx, t), x))
    BY <1>2, <2>1, ExposureKept
  <2> QED BY <2>1, <2>2, <2>3
<1>3. s \in T
  <2> HIDE DEF T
  <2>1. Seq(RiskSignals) \subseteq T
    BY <1>1, <1>2, SeqSetInduction
  <2> QED BY <2>1 DEF Batch
<1>4. Exposure(ctx, s) \in Exposures
  BY ExposureInTurn DEF Batch
<1> QED BY <1>3, <1>4
-----------------------------------------------------------------------------
(* Layer 2: concentration                                                  *)

Concentrations == [sector : Sizes, total : Int, count : Nat, out : Batch]

Portfolioed(ctx) ==
    [sector |-> SectorSize(ctx), total |-> SumFunction(ctx.sized),
     count |-> Cardinality({s \in RiskSymbols : ctx.sized[s] > 0}), out |-> <<>>]

\* What a layer after the first may make of a signal: it passes an exit as it
\* is, and it cancels nothing but an entry.
Softens(made, sig) ==
    /\ made \in RiskSignals /\ made.symbol = sig.symbol /\ made.notional = sig.notional
    /\ made.action = sig.action \/ (OpensPosition(sig) /\ made.action = "cancelled")
    /\ sig \in ExitOnes => made = sig

\* The sectors stay: the signal is cancelled, or it opens nothing.
ConcentratesNothing(run, sig, next) ==
    \E made \in RiskSignals :
      /\ Softens(made, sig) /\ ~OpensPosition(made)
      /\ next = [run EXCEPT !.out = Append(@, made)]

\* An entry takes the room its sector leaves it.
ConcentratesEntry(run, sig, next) ==
    /\ OpensPosition(sig)
    /\ \E n \in Nat, total \in Int, count \in Nat :
         /\ run.sector[SectorOf[sig.symbol]] + n <= RiskConfig.sector
         /\ next = [sector |-> [run.sector EXCEPT ![SectorOf[sig.symbol]] = @ + n],
                    total |-> total, count |-> count,
                    out |-> Append(run.out, [sig EXCEPT !.size = n])]

LEMMA ConcentrateCases ==
    ASSUME NEW ctx \in RiskContexts, NEW run \in Concentrations, NEW sig \in RiskSignals
    PROVE  \/ ConcentratesNothing(run, sig, Concentrate(ctx, run, sig))
           \/ ConcentratesEntry(run, sig, Concentrate(ctx, run, sig))
<1> DEFINE sector == SectorOf[sig.symbol]
           next == Concentrate(ctx, run, sig)
<1>1. /\ sig.symbol \in RiskSymbols /\ sig.size \in Nat /\ sector \in Sectors
      /\ run.sector \in [Sectors -> Int] /\ run.total \in Int /\ run.count \in Nat
      /\ run.out \in Batch /\ RiskConfig.sector \in Int /\ RiskConfig.cash \in Int
  BY RiskBounds DEF RiskSignals, Concentrations, Sizes, Sectors
<1>2. CASE ~OpensPosition(sig)
  <2>1. Softens(sig, sig)
    BY DEF Softens
  <2>2. next = [run EXCEPT !.out = Append(@, sig)]
    BY <1>2 DEF Concentrate, Emit
  <2> HIDE DEF next
  <2> QED BY <1>2, <2>1, <2>2 DEF ConcentratesNothing, next
<1>3. CASE OpensPosition(sig)
  <2> DEFINE new == ctx.sized[sig.symbol] = 0
             inSector == RiskConfig.sector - run.sector[sector]
             inCash == 100 - run.total - RiskConfig.cash
             wanted == Least(sig.size, inSector)
             size == Least(wanted, inCash)
             refused == \/ new /\ run.count >= RiskConfig.positions
                        \/ Refuses(inSector, sig.size) \/ Refuses(inCash, wanted)
             count == IF new THEN run.count + 1 ELSE run.count
  <2>1. next = Concentrates(ctx, run, sig)
    BY <1>3 DEF Concentrate
  <2>2. CASE refused
    <3>1. Concentrates(ctx, run, sig) = Emit(run, Cancel(sig))
      BY <2>2 DEF Concentrates
    <3>2. Cancel(sig) \in RiskSignals /\ ~OpensPosition(Cancel(sig)) /\ sig \notin ExitOnes
      BY <1>3, SignalChanged DEF Cancelled
    <3>3. Softens(Cancel(sig), sig)
      BY <1>3, <3>2 DEF Softens, Cancel, RiskSignals
    <3>4. next = [run EXCEPT !.out = Append(@, Cancel(sig))]
      BY <2>1, <3>1 DEF Emit
    <3> HIDE DEF next
    <3> QED BY <3>2, <3>3, <3>4 DEF ConcentratesNothing, next
  <2>3. CASE ~refused
    <3>1. Concentrates(ctx, run, sig) =
            Emit([run EXCEPT !.sector[sector] = @ + size, !.total = @ + size, !.count = count],
                 [sig EXCEPT !.size = size])
      BY <2>3 DEF Concentrates
    <3>2. /\ inSector \in Int /\ inCash \in Int /\ run.sector[sector] \in Int /\ count \in Nat
          /\ ~Refuses(inSector, sig.size) /\ ~Refuses(inCash, wanted)
      BY <1>1, <2>3
    <3>3. wanted \in Nat /\ wanted <= inSector
      BY <1>1, <3>2 DEF Least, Refuses
    <3>4. size \in Nat /\ size <= inSector
      BY <3>2, <3>3 DEF Least, Refuses
    <3>5. run.sector[sector] + size <= RiskConfig.sector
      BY <1>1, <3>2, <3>4
    <3> HIDE DEF size, count, sector
    <3>6. run.total + size \in Int
      BY <1>1, <3>4
    <3>7. Concentrates(ctx, run, sig) =
            [sector |-> [run.sector EXCEPT ![sector] = @ + size], total |-> run.total + size,
             count |-> count, out |-> Append(run.out, [sig EXCEPT !.size = size])]
      BY <1>1, <3>1 DEF Emit, Concentrations
    <3> HIDE DEF next
    <3> QED BY <1>3, <2>1, <3>2, <3>4, <3>5, <3>6, <3>7 DEF ConcentratesEntry, sector, next
  <2> QED BY <2>2, <2>3
<1> QED BY <1>2, <1>3

LEMMA ConcentrateTyped ==
    ASSUME NEW ctx \in RiskContexts, NEW run \in Concentrations, NEW sig \in RiskSignals
    PROVE  Concentrate(ctx, run, sig) \in Concentrations
<1> DEFINE next == Concentrate(ctx, run, sig)
           sector == SectorOf[sig.symbol]
<1>1. /\ sig.symbol \in RiskSymbols /\ sector \in Sectors
      /\ run.sector \in [Sectors -> Int] /\ run.sector[sector] \in Int /\ run.out \in Batch
  BY DEF RiskSignals, Concentrations, Sizes, Sectors
<1>2. \A x \in RiskSignals : Append(run.out, x) \in Batch
  BY <1>1, AppendProperties DEF Batch
<1> SUFFICES next \in Concentrations
  OBVIOUS
<1> HIDE DEF next, sector
<1>3. CASE ConcentratesNothing(run, sig, next)
  BY <1>2, <1>3 DEF ConcentratesNothing, Concentrations
<1>4. CASE ConcentratesEntry(run, sig, next)
  <2>1. PICK n \in Nat, total \in Int, count \in Nat :
          next = [sector |-> [run.sector EXCEPT ![sector] = @ + n],
                  total |-> total, count |-> count,
                  out |-> Append(run.out, [sig EXCEPT !.size = n])]
    BY <1>4 DEF ConcentratesEntry, sector
  <2> DEFINE o == Append(run.out, [sig EXCEPT !.size = n])
             z == [run.sector EXCEPT ![sector] = @ + n]
  <2>2. o \in Batch
    BY <1>2, SignalChanged
  <2>3. z \in Sizes
    BY <1>1 DEF Sizes
  <2> HIDE DEF o, z
  <2>4. next = [sector |-> z, total |-> total, count |-> count, out |-> o]
    BY <2>1 DEF o, z
  <2> QED BY <2>2, <2>3, <2>4 DEF Concentrations
<1>5. ConcentratesNothing(run, sig, next) \/ ConcentratesEntry(run, sig, next)
  BY ConcentrateCases DEF next
<1> QED BY <1>3, <1>4, <1>5

ConcentrateStep(ctx) ==
    [p \in Concentrations \X RiskSignals |-> Concentrate(ctx, p[1], p[2])]

LEMMA ConcentrateStepTyped ==
    ASSUME NEW ctx \in RiskContexts
    PROVE  /\ Portfolioed(ctx) \in Concentrations
           /\ ConcentrateStep(ctx) \in [Concentrations \X RiskSignals -> Concentrations]
           /\ \A run \in Concentrations, sig \in RiskSignals :
                ConcentrateStep(ctx)[<<run, sig>>] = Concentrate(ctx, run, sig)
<1>1. <<>> \in Batch
  BY DEF Batch
<1>2. Cardinality({s \in RiskSymbols : ctx.sized[s] > 0}) \in Nat
  <2> DEFINE sized == {s \in RiskSymbols : ctx.sized[s] > 0}
  <2>1. IsFiniteSet(RiskSymbols) /\ sized \subseteq RiskSymbols
    BY RiskBounds
  <2>2. IsFiniteSet(sized)
    BY <2>1, FS_Subset
  <2> QED BY <2>2, FS_CardinalityType
<1>3. Portfolioed(ctx) \in Concentrations
  BY <1>1, <1>2, SectorKnown DEF Portfolioed, Concentrations
<1> QED BY <1>3, ConcentrateTyped DEF ConcentrateStep

LEMMA ConcentrationFolds ==
    ASSUME NEW ctx \in RiskContexts, NEW s \in Seq(RiskSignals)
    PROVE  FoldsTo(Concentration(ctx, s), s, Concentrations, ConcentrateStep(ctx), Portfolioed(ctx))
<1> DEFINE Right(fold) ==
             fold = [A \in SUBSET (DOMAIN s) |->
                       IF A = {} THEN Portfolioed(ctx)
                       ELSE Concentrate(ctx, fold[A \ {Max(A)}], s[Max(A)])]
           chosen == CHOOSE fold : Right(fold)
<1>1. Portfolioed(ctx) \in Concentrations
  BY ConcentrateStepTyped
<1>2. PICK fold : SetFold(fold, s, RiskSignals, Concentrations, ConcentrateStep(ctx), Portfolioed(ctx))
  BY <1>1, ConcentrateStepTyped, SeqFoldExists
<1>3. Right(fold)
  BY <1>2, ConcentrateStepTyped DEF SetFold
<1>4. Right(chosen)
  BY <1>3
<1>5. Concentration(ctx, s) = chosen[DOMAIN s]
  BY DEF Concentration, FoldLeft, MapThenFoldSet, Portfolioed
<1>6. StepsOnSets(chosen, s, Concentrations, ConcentrateStep(ctx), Portfolioed(ctx))
  <2>1. \A A \in SUBSET DOMAIN s : A # {} => s[Max(A)] \in RiskSignals
    BY <1>2 DEF SetFold
  <2> HIDE DEF chosen
  <2> QED BY <1>4, <2>1, ConcentrateStepTyped DEF StepsOnSets
<1> HIDE DEF chosen, Right
<1>7. FoldsTo(chosen[DOMAIN s], s, Concentrations, ConcentrateStep(ctx), Portfolioed(ctx))
  BY <1>1, <1>6, ConcentrateStepTyped, PrefixesFold
<1> QED BY <1>5, <1>7

LEMMA ConcentrationInTurn ==
    ASSUME NEW ctx \in RiskContexts
    PROVE  /\ Concentration(ctx, <<>>) = Portfolioed(ctx) /\ Portfolioed(ctx) \in Concentrations
           /\ \A s \in Seq(RiskSignals), x \in RiskSignals :
                /\ Concentration(ctx, s) \in Concentrations
                /\ Concentration(ctx, Append(s, x)) = Concentrate(ctx, Concentration(ctx, s), x)
<1>1. Portfolioed(ctx) \in Concentrations
  BY ConcentrateStepTyped
<1>2. Concentration(ctx, <<>>) = Portfolioed(ctx)
  <2>1. FoldsTo(Concentration(ctx, <<>>), <<>>, Concentrations, ConcentrateStep(ctx), Portfolioed(ctx))
    <3>1. <<>> \in Seq(RiskSignals)
      OBVIOUS
    <3> QED BY <3>1, ConcentrationFolds
  <2> QED BY <2>1, FoldsNothing
<1>3. ASSUME NEW s \in Seq(RiskSignals), NEW x \in RiskSignals
      PROVE  /\ Concentration(ctx, s) \in Concentrations
             /\ Concentration(ctx, Append(s, x)) = Concentrate(ctx, Concentration(ctx, s), x)
  <2> DEFINE v == Concentration(ctx, s)
             t == Append(s, x)
             w == Concentration(ctx, t)
             base == Portfolioed(ctx)
             step == ConcentrateStep(ctx)
  <2>1. t \in Seq(RiskSignals) /\ OneLonger(t, s, x, RiskSignals)
    BY AppendProperties DEF OneLonger
  <2> HIDE DEF t
  <2>2. FoldsTo(v, s, Concentrations, step, base) /\ FoldsTo(w, t, Concentrations, step, base)
    BY <2>1, ConcentrationFolds
  <2>3. StepOn(step, RiskSignals, Concentrations, base)
    BY <1>1, ConcentrateStepTyped DEF StepOn
  <2> HIDE DEF v, w, base, step
  <2>4. v \in Concentrations /\ w = step[<<v, x>>]
    BY <2>1, <2>2, <2>3, FoldsAppend
  <2> QED BY <2>4, ConcentrateStepTyped DEF v, w, t, step
<1> QED BY <1>1, <1>2, <1>3

\* Executing one list leaves no more of any symbol than executing the other.
BookBelow(a, b) == \A s \in RiskSymbols : a.book[s] <= b.book[s]
SectorBelow(a, b) == \A c \in Sectors : a.sector[c] <= b.sector[c]

\* A softened signal adds no more than the signal, and takes out as much.
LEMMA ExecuteBelow ==
    ASSUME NEW a \in Executions, NEW b \in Executions,
           NEW sig \in RiskSignals, NEW made \in RiskSignals, Softens(made, sig)
    PROVE  /\ BookBelow(a, b) => BookBelow(Execute(a, made), Execute(b, sig))
           /\ SectorBelow(a, b) /\ made.size = sig.size =>
                SectorBelow(Execute(a, made), Execute(b, sig))
<1> DEFINE sym == sig.symbol
           c == SectorOf[sym]
<1>1. /\ sym \in RiskSymbols /\ c \in Sectors /\ sig.notional \in Nat /\ sig.size \in Nat
      /\ made.symbol = sym /\ made.notional = sig.notional
      /\ a.book \in [RiskSymbols -> Nat] /\ b.book \in [RiskSymbols -> Nat]
      /\ a.sector \in [Sectors -> Int] /\ b.sector \in [Sectors -> Int]
  BY DEF RiskSignals, Sectors, Executions, Sizes, Softens
<1> DEFINE A == Execute(a, made)
           B == Execute(b, sig)
<1>2. CASE sig \in ExitOnes
  <2>1. made = sig
    BY <1>2 DEF Softens
  <2>2. /\ A.book = [a.book EXCEPT ![sym] = Positive(@ - sig.notional)] /\ A.sector = a.sector
    BY <1>2, <2>1, ExecuteEffect
  <2>3. /\ B.book = [b.book EXCEPT ![sym] = Positive(@ - sig.notional)] /\ B.sector = b.sector
    BY <1>2, ExecuteEffect
  <2> HIDE DEF A, B, sym
  <2>4. \A x, y \in Nat : x <= y => Positive(x - sig.notional) <= Positive(y - sig.notional)
    BY <1>1 DEF Positive
  <2>5. ASSUME BookBelow(a, b), NEW s \in RiskSymbols PROVE A.book[s] <= B.book[s]
    <3>1. a.book[s] \in Nat /\ b.book[s] \in Nat /\ a.book[s] <= b.book[s]
      BY <1>1, <2>5 DEF BookBelow
    <3>2. /\ A.book[s] = IF s = sym THEN Positive(a.book[s] - sig.notional) ELSE a.book[s]
          /\ B.book[s] = IF s = sym THEN Positive(b.book[s] - sig.notional) ELSE b.book[s]
      BY <1>1, <2>2, <2>3
    <3> QED BY <2>4, <3>1, <3>2
  <2> QED BY <2>2, <2>3, <2>5 DEF BookBelow, SectorBelow, A, B
<1>3. CASE OpensPosition(sig)
  <2>1. /\ B.book = [b.book EXCEPT ![sym] = @ + sig.notional]
        /\ B.sector = [b.sector EXCEPT ![c] = @ + sig.size]
    BY <1>3, ExecuteEffect
  <2>2. CASE OpensPosition(made)
    <3>1. /\ A.book = [a.book EXCEPT ![sym] = @ + sig.notional]
          /\ A.sector = [a.sector EXCEPT ![c] = @ + made.size]
      <4>1. /\ A.book = [a.book EXCEPT ![made.symbol] = @ + made.notional]
            /\ A.sector = [a.sector EXCEPT ![SectorOf[made.symbol]] = @ + made.size]
        BY <2>2, ExecuteEffect
      <4> HIDE DEF A, sym
      <4> QED BY <1>1, <4>1
    <3> HIDE DEF A, B, sym, c
    <3> QED BY <1>1, <2>1, <3>1 DEF BookBelow, SectorBelow, A, B
  <2>3. CASE ~OpensPosition(made)
    <3>1. made \notin ExitOnes
      BY <1>3, <2>3 DEF Softens, OpensPosition, ExitOnes, RiskExits
    <3>2. A = a
      BY <2>3, <3>1, ExecuteEffect
    <3> HIDE DEF A, B, sym, c
    <3> QED BY <1>1, <2>1, <3>2 DEF BookBelow, SectorBelow, A, B
  <2> QED BY <2>2, <2>3
<1>4. CASE sig \notin ExitOnes /\ ~OpensPosition(sig)
  <2>1. made \notin ExitOnes /\ ~OpensPosition(made)
    BY <1>4 DEF Softens, OpensPosition, ExitOnes
  <2>2. A = a /\ B = b
    BY <1>4, <2>1, ExecuteEffect
  <2> QED BY <2>2
<1> QED BY <1>2, <1>3, <1>4

LEMMA BelowIsTransitive ==
    ASSUME NEW a \in Executions, NEW b \in Executions, NEW c \in Executions
    PROVE  /\ BookBelow(a, b) /\ BookBelow(b, c) => BookBelow(a, c)
           /\ SectorBelow(a, b) /\ SectorBelow(b, c) => SectorBelow(a, c)
           /\ BookBelow(a, a) /\ SectorBelow(a, a)
<1>1. \A s \in RiskSymbols : a.book[s] \in Nat /\ b.book[s] \in Nat /\ c.book[s] \in Nat
  BY DEF Executions
<1>2. \A s \in Sectors : a.sector[s] \in Int /\ b.sector[s] \in Int /\ c.sector[s] \in Int
  BY DEF Executions, Sizes
<1> QED BY <1>1, <1>2 DEF BookBelow, SectorBelow

\* A softened signal is live and an exit where the signal is one.
LEMMA ExitsOfSoftened ==
    ASSUME NEW s \in Batch, NEW x \in RiskSignals, NEW o \in Batch, NEW made \in RiskSignals,
           Softens(made, x), LiveExits(o) = LiveExits(s)
    PROVE  LiveExits(Append(o, made)) = LiveExits(Append(s, x))
<1>1. CASE x \in ExitOnes
  <2>1. made = x
    BY <1>1 DEF Softens
  <2>2. LiveExits(Append(o, x)) = Append(LiveExits(o), x) /\ LiveExits(Append(s, x)) = Append(LiveExits(s), x)
    BY <1>1, ExitsOfAppend
  <2> QED BY <2>1, <2>2
<1>2. CASE x \notin ExitOnes
  <2>1. made \notin ExitOnes
    BY <1>2 DEF Softens, ExitOnes, RiskExits
  <2> QED BY <1>2, <2>1, ExitsOfAppend
<1> QED BY <1>1, <1>2

\* What the layer keeps true of the batch so far.
ConcentrationKeeps(ctx, s, run) ==
    /\ BookBelow(Executed(ctx, run.out), Executed(ctx, s))
    /\ run.sector = Executed(ctx, run.out).sector
    /\ \A c \in Sectors : AtMost(run.sector[c], RiskConfig.sector, SectorSize(ctx)[c])
    /\ LiveExits(run.out) = LiveExits(s)

LEMMA ConcentrationKept ==
    ASSUME NEW ctx \in RiskContexts, NEW run \in Concentrations,
           NEW s \in Batch, NEW x \in RiskSignals, ConcentrationKeeps(ctx, s, run)
    PROVE  ConcentrationKeeps(ctx, Append(s, x), Concentrate(ctx, run, x))
<1> DEFINE next == Concentrate(ctx, run, x)
           done == Executed(ctx, run.out)
           meant == Executed(ctx, s)
           sector == SectorOf[x.symbol]
<1>1. /\ x.symbol \in RiskSymbols /\ sector \in Sectors /\ run.out \in Batch
      /\ run.sector \in [Sectors -> Int] /\ RiskConfig.sector \in Int
  BY RiskBounds DEF RiskSignals, Concentrations, Sizes, Sectors
<1>2. /\ done \in Executions /\ \A y \in RiskSignals : Executed(ctx, Append(run.out, y)) = Execute(done, y)
      /\ meant \in Executions /\ Executed(ctx, Append(s, x)) = Execute(meant, x)
  BY <1>1, ExecutedInTurn DEF Batch
<1>3. done.sector = run.sector /\ BookBelow(done, meant) /\ LiveExits(run.out) = LiveExits(s)
  BY DEF ConcentrationKeeps
<1>4. ASSUME NEW made \in RiskSignals, Softens(made, x), next.out = Append(run.out, made)
      PROVE  /\ BookBelow(Executed(ctx, next.out), Executed(ctx, Append(s, x)))
             /\ LiveExits(next.out) = LiveExits(Append(s, x))
  <2>1. BookBelow(Execute(done, made), Execute(meant, x))
    BY <1>2, <1>3, <1>4, ExecuteBelow
  <2>2. LiveExits(Append(run.out, made)) = LiveExits(Append(s, x))
    BY <1>1, <1>3, <1>4, ExitsOfSoftened
  <2> HIDE DEF next, done, meant
  <2> QED BY <1>2, <1>4, <2>1, <2>2
<1>5. CASE ConcentratesNothing(run, x, next)
  <2>1. PICK made \in RiskSignals :
          /\ Softens(made, x) /\ ~OpensPosition(made)
          /\ next = [run EXCEPT !.out = Append(@, made)]
    BY <1>5 DEF ConcentratesNothing
  <2>2. next.sector = run.sector /\ next.out = Append(run.out, made)
    BY <2>1 DEF Concentrations
  <2>3. Execute(done, made).sector = done.sector
    BY <1>2, <2>1, ExecuteEffect
  <2> HIDE DEF next, done, meant
  <2>4. next.sector = Executed(ctx, next.out).sector
    BY <1>2, <1>3, <2>2, <2>3
  <2>5. /\ BookBelow(Executed(ctx, next.out), Executed(ctx, Append(s, x)))
        /\ LiveExits(next.out) = LiveExits(Append(s, x))
    BY <1>4, <2>1, <2>2
  <2> QED BY <2>2, <2>4, <2>5 DEF ConcentrationKeeps, next
<1>6. CASE ConcentratesEntry(run, x, next)
  <2>1. PICK n \in Nat, total \in Int, count \in Nat :
         /\ run.sector[sector] + n <= RiskConfig.sector
         /\ next = [sector |-> [run.sector EXCEPT ![sector] = @ + n],
                    total |-> total, count |-> count,
                    out |-> Append(run.out, [x EXCEPT !.size = n])]
    BY <1>6 DEF ConcentratesEntry
  <2> DEFINE made == [x EXCEPT !.size = n]
  <2>2. /\ made \in RiskSignals /\ made.symbol = x.symbol /\ made.size = n
        /\ made.notional = x.notional /\ made.action = x.action
    BY SignalChanged
  <2>3. next.sector = [run.sector EXCEPT ![sector] = @ + n] /\ next.out = Append(run.out, made)
    BY <2>1
  <2> HIDE DEF made, next, done, meant
  <2>4. OpensPosition(x) /\ OpensPosition(made) /\ Softens(made, x)
    <3>1. OpensPosition(x)
      BY <1>6 DEF ConcentratesEntry
    <3>2. x \notin ExitOnes
      BY <3>1, SignalChanged
    <3> QED BY <2>2, <3>1, <3>2 DEF OpensPosition, Softens
  <2>5. Execute(done, made).sector = [run.sector EXCEPT ![sector] = @ + n]
    <3>1. Execute(done, made).sector = [done.sector EXCEPT ![SectorOf[made.symbol]] = @ + made.size]
      BY <1>2, <2>2, <2>4, ExecuteEffect
    <3> QED BY <1>3, <2>2, <3>1
  <2>6. next.sector = Executed(ctx, next.out).sector
    BY <1>2, <2>2, <2>3, <2>5
  <2>7. /\ BookBelow(Executed(ctx, next.out), Executed(ctx, Append(s, x)))
        /\ LiveExits(next.out) = LiveExits(Append(s, x))
    BY <1>4, <2>2, <2>3, <2>4
  <2>8. ASSUME NEW c \in Sectors
        PROVE  AtMost(next.sector[c], RiskConfig.sector, SectorSize(ctx)[c])
    <3>1. AtMost(run.sector[c], RiskConfig.sector, SectorSize(ctx)[c])
      BY DEF ConcentrationKeeps
    <3> HIDE DEF sector
    <3>2. next.sector[sector] <= RiskConfig.sector /\ (c # sector => next.sector[c] = run.sector[c])
      BY <1>1, <2>1, <2>3
    <3> QED BY <3>1, <3>2 DEF AtMost
  <2> QED BY <2>6, <2>7, <2>8 DEF ConcentrationKeeps, next
<1> QED BY <1>5, <1>6, ConcentrateCases

LEMMA ConcentrationHolds ==
    ASSUME NEW ctx \in RiskContexts, NEW s \in Batch
    PROVE  /\ Concentration(ctx, s) \in Concentrations
           /\ ConcentrationKeeps(ctx, s, Concentration(ctx, s))
<1> DEFINE T == {t \in Batch : ConcentrationKeeps(ctx, t, Concentration(ctx, t))}
<1>1. <<>> \in T
  <2>1. /\ Concentration(ctx, <<>>) = Portfolioed(ctx) /\ Executed(ctx, <<>>) = Before(ctx)
        /\ Before(ctx) \in Executions
    BY ConcentrationInTurn, ExecutedInTurn
  <2>2. <<>> \in Batch
    BY DEF Batch
  <2>3. SectorSize(ctx) \in Sizes /\ \A c \in Sectors : SectorSize(ctx)[c] \in Int
    BY SectorKnown DEF Sizes
  <2>4. BookBelow(Before(ctx), Before(ctx))
    BY <2>1, BelowIsTransitive
  <2>5. ConcentrationKeeps(ctx, <<>>, Portfolioed(ctx))
    BY <2>1, <2>3, <2>4 DEF ConcentrationKeeps, Portfolioed, Before, AtMost
  <2> QED BY <2>1, <2>2, <2>5
<1>2. ASSUME NEW t \in Seq(RiskSignals), NEW x \in RiskSignals, t \in T
      PROVE  Append(t, x) \in T
  <2>1. /\ Concentration(ctx, t) \in Concentrations
        /\ Concentration(ctx, Append(t, x)) = Concentrate(ctx, Concentration(ctx, t), x)
    BY ConcentrationInTurn
  <2>2. Append(t, x) \in Batch
    BY AppendProperties DEF Batch
  <2>3. ConcentrationKeeps(ctx, Append(t, x), Concentrate(ctx, Concentration(ctx, t), x))
    BY <1>2, <2>1, ConcentrationKept
  <2> QED BY <2>1, <2>2, <2>3
<1>3. s \in T
  <2> HIDE DEF T
  <2>1. Seq(RiskSignals) \subseteq T
    BY <1>1, <1>2, SeqSetInduction
  <2> QED BY <2>1 DEF Batch
<1>4. Concentration(ctx, s) \in Concentrations
  BY ConcentrationInTurn DEF Batch
<1> QED BY <1>3, <1>4
-----------------------------------------------------------------------------
(* Layers 3 and 4: each signal by itself                                   *)

\* Softening every signal of a list.
Softened(soften, s) == [i \in DOMAIN s |-> soften[s[i]]]

\* What is executed is no more, and the exits are the same.
Narrows(ctx, o, s) ==
    /\ o \in Batch
    /\ BookBelow(Executed(ctx, o), Executed(ctx, s))
    /\ SectorBelow(Executed(ctx, o), Executed(ctx, s))
    /\ LiveExits(o) = LiveExits(s)

LEMMA SoftenedAppend ==
    ASSUME NEW soften \in [RiskSignals -> RiskSignals], NEW s \in Batch, NEW x \in RiskSignals,
           Softened(soften, s) \in Batch
    PROVE  Softened(soften, Append(s, x)) = Append(Softened(soften, s), soften[x])
<1> DEFINE n == Len(s)
           t == Append(s, x)
           o == Softened(soften, s)
           u == Append(o, soften[x])
<1>1. /\ t \in Seq(RiskSignals) /\ Len(t) = n + 1 /\ t[n + 1] = x /\ n \in Nat
      /\ \A i \in 1 .. n : t[i] = s[i]
      /\ DOMAIN s = 1 .. n /\ DOMAIN t = 1 .. n + 1
  BY AppendProperties, LenProperties DEF Batch
<1>2. DOMAIN o = 1 .. n /\ \A i \in 1 .. n : o[i] = soften[s[i]]
  BY <1>1 DEF Softened
<1> HIDE DEF n, t, o
<1>3. o \in Seq(RiskSignals) /\ soften[x] \in RiskSignals /\ Len(o) = n
  <2>1. o \in Seq(RiskSignals) /\ soften[x] \in RiskSignals
    BY DEF Batch, o
  <2>2. Len(o) \in Nat /\ DOMAIN o = 1 .. Len(o)
    BY <2>1, LenProperties
  <2> QED BY <1>1, <1>2, <2>1, <2>2
<1>4. /\ u \in Seq(RiskSignals) /\ Len(u) = n + 1 /\ u[n + 1] = soften[x]
      /\ \A i \in 1 .. n : u[i] = o[i]
  BY <1>3, AppendProperties
<1> HIDE DEF u
<1>5. DOMAIN u = 1 .. n + 1 /\ u = [i \in 1 .. n + 1 |-> u[i]]
  BY <1>4, LenProperties
<1>6. \A i \in 1 .. n + 1 : u[i] = soften[t[i]]
  <2> SUFFICES ASSUME NEW i \in 1 .. n + 1 PROVE u[i] = soften[t[i]]
    OBVIOUS
  <2>1. CASE i = n + 1
    BY <1>1, <1>4, <2>1
  <2>2. CASE i \in 1 .. n
    BY <1>1, <1>2, <1>4, <2>2
  <2> QED BY <1>1, <2>1, <2>2
<1>7. Softened(soften, t) = [i \in 1 .. n + 1 |-> soften[t[i]]]
  BY <1>1 DEF Softened
<1>8. Softened(soften, t) = u
  BY <1>5, <1>6, <1>7
<1> QED BY <1>8 DEF t, u, o

LEMMA SoftenedNarrows ==
    ASSUME NEW ctx \in RiskContexts, NEW soften \in [RiskSignals -> RiskSignals],
           \A x \in RiskSignals : Softens(soften[x], x) /\ soften[x].size = x.size,
           NEW s \in Batch
    PROVE  Narrows(ctx, Softened(soften, s), s)
<1> DEFINE T == {t \in Batch : Narrows(ctx, Softened(soften, t), t)}
<1>1. <<>> \in T
  <2>1. <<>> \in Batch /\ Softened(soften, <<>>) = <<>>
    BY DEF Batch, Softened
  <2>2. Executed(ctx, <<>>) \in Executions
    BY ExecutedInTurn
  <2>3. Narrows(ctx, <<>>, <<>>)
    BY <2>1, <2>2, BelowIsTransitive DEF Narrows
  <2> QED BY <2>1, <2>3
<1>2. ASSUME NEW t \in Seq(RiskSignals), NEW x \in RiskSignals, t \in T
      PROVE  Append(t, x) \in T
  <2> DEFINE o == Softened(soften, t)
             made == soften[x]
  <2>1. t \in Batch /\ o \in Batch /\ Narrows(ctx, o, t) /\ made \in RiskSignals
    BY <1>2 DEF Narrows
  <2>2. Softened(soften, Append(t, x)) = Append(o, made)
    BY <2>1, SoftenedAppend
  <2>3. Softens(made, x) /\ made.size = x.size
    OBVIOUS
  <2> HIDE DEF o, made
  <2>4. Append(o, made) \in Batch /\ Append(t, x) \in Batch
    BY <2>1, AppendProperties DEF Batch
  <2>5. /\ Executed(ctx, o) \in Executions /\ Executed(ctx, t) \in Executions
        /\ Executed(ctx, Append(o, made)) = Execute(Executed(ctx, o), made)
        /\ Executed(ctx, Append(t, x)) = Execute(Executed(ctx, t), x)
    BY <2>1, ExecutedInTurn DEF Batch
  <2>6. /\ BookBelow(Execute(Executed(ctx, o), made), Execute(Executed(ctx, t), x))
        /\ SectorBelow(Execute(Executed(ctx, o), made), Execute(Executed(ctx, t), x))
    BY <2>1, <2>3, <2>5, ExecuteBelow DEF Narrows
  <2>7. LiveExits(Append(o, made)) = LiveExits(Append(t, x))
    BY <2>1, <2>3, ExitsOfSoftened DEF Narrows
  <2>8. Narrows(ctx, Append(o, made), Append(t, x))
    BY <2>4, <2>5, <2>6, <2>7 DEF Narrows
  <2> QED BY <2>2, <2>4, <2>8
<1>3. s \in T
  <2> HIDE DEF T
  <2>1. Seq(RiskSignals) \subseteq T
    BY <1>1, <1>2, SeqSetInduction
  <2> QED BY <2>1 DEF Batch
<1> QED BY <1>3

LEMMA CorrelationNarrows ==
    ASSUME NEW ctx \in RiskContexts, NEW s \in Batch
    PROVE  Narrows(ctx, ApplyCorrelationLayer(ctx, s), s)
<1> DEFINE soften == [x \in RiskSignals |-> Correlate(ctx, x)]
<1>1. ASSUME NEW x \in RiskSignals
      PROVE  Softens(Correlate(ctx, x), x) /\ Correlate(ctx, x).size = x.size
  <2>1. CASE Correlate(ctx, x) = x
    BY <2>1 DEF Softens
  <2>2. CASE Correlate(ctx, x) = Cancel(x) /\ x.action = "long"
    <3>1. OpensPosition(x) /\ x \notin ExitOnes
      BY <2>2 DEF OpensPosition, RiskEntries, ExitOnes, RiskExits
    <3>2. /\ Cancel(x) \in RiskSignals /\ Cancel(x).action = "cancelled" /\ Cancel(x).symbol = x.symbol
          /\ Cancel(x).notional = x.notional /\ Cancel(x).size = x.size
      BY DEF Cancel, RiskSignals, RiskActions
    <3> QED BY <2>2, <3>1, <3>2 DEF Softens
  <2> QED BY <2>1, <2>2 DEF Correlate
<1>2. soften \in [RiskSignals -> RiskSignals]
  BY <1>1 DEF Softens
<1>3. \A x \in RiskSignals : Softens(soften[x], x) /\ soften[x].size = x.size
  BY <1>1
<1>4. Softened(soften, s) = ApplyCorrelationLayer(ctx, s)
  <2>1. \A i \in DOMAIN s : s[i] \in RiskSignals
    BY LenProperties, ElementOfSeq DEF Batch
  <2> QED BY <2>1 DEF Softened, ApplyCorrelationLayer
<1> HIDE DEF soften
<1>5. Narrows(ctx, Softened(soften, s), s)
  BY <1>2, <1>3, SoftenedNarrows
<1> QED BY <1>4, <1>5

LEMMA DrawdownNarrows ==
    ASSUME NEW ctx \in RiskContexts, NEW s \in Batch
    PROVE  Narrows(ctx, ApplyDrawdownLayer(ctx, s), s)
<1> DEFINE circuit == EvaluateCircuit(ctx)
           soften == [x \in RiskSignals |-> Reduce(circuit, x)]
<1> HIDE DEF circuit
<1>1. ASSUME NEW x \in RiskSignals
      PROVE  Softens(Reduce(circuit, x), x) /\ Reduce(circuit, x).size = x.size
  <2>1. CASE ~OpensPosition(x)
    BY <2>1 DEF Softens, Reduce
  <2>2. CASE OpensPosition(x) /\ circuit \in {"daily", "breaker"}
    <3>1. x \notin ExitOnes /\ Reduce(circuit, x) = Cancel(x)
      BY <2>2, SignalChanged DEF Reduce
    <3>2. /\ Cancel(x) \in RiskSignals /\ Cancel(x).action = "cancelled" /\ Cancel(x).symbol = x.symbol
          /\ Cancel(x).notional = x.notional /\ Cancel(x).size = x.size
      BY DEF Cancel, RiskSignals, RiskActions
    <3> QED BY <2>2, <3>1, <3>2 DEF Softens
  <2>3. CASE OpensPosition(x) /\ circuit \notin {"daily", "breaker"}
    <3> DEFINE n == (x.usd * SizeMultiplier(circuit)) \div 100
    <3>1. n \in Nat
      <4>1. x.usd \in Nat
        BY DEF RiskSignals
      <4>2. SizeMultiplier(circuit) \in {25, 50, 100}
        BY DEF SizeMultiplier
      <4> QED BY <4>1, <4>2
    <3>2. x \notin ExitOnes /\ Reduce(circuit, x) = [x EXCEPT !.usd = n]
      BY <2>3, SignalChanged DEF Reduce
    <3> HIDE DEF n
    <3>3. /\ [x EXCEPT !.usd = n] \in RiskSignals /\ [x EXCEPT !.usd = n].action = x.action
          /\ [x EXCEPT !.usd = n].symbol = x.symbol /\ [x EXCEPT !.usd = n].notional = x.notional
          /\ [x EXCEPT !.usd = n].size = x.size
      BY <3>1, SignalChanged
    <3> QED BY <3>2, <3>3 DEF Softens
  <2> QED BY <2>1, <2>2, <2>3
<1>2. soften \in [RiskSignals -> RiskSignals]
  BY <1>1 DEF Softens
<1>3. \A x \in RiskSignals : Softens(soften[x], x) /\ soften[x].size = x.size
  BY <1>1
<1>4. Softened(soften, s) = ApplyDrawdownLayer(ctx, s)
  <2>1. \A i \in DOMAIN s : s[i] \in RiskSignals
    BY LenProperties, ElementOfSeq DEF Batch
  <2> QED BY <2>1 DEF Softened, ApplyDrawdownLayer, circuit
<1> HIDE DEF soften
<1>5. Narrows(ctx, Softened(soften, s), s)
  BY <1>2, <1>3, SoftenedNarrows
<1> QED BY <1>4, <1>5
-----------------------------------------------------------------------------
(* The layers in order                                                     *)

\* Nothing of the list is executed.
NothingDone(ctx, c) == c \in Batch /\ Executed(ctx, c) = Before(ctx) /\ LiveExits(c) = <<>>

\* A list and what it is split into: what is cancelled does nothing, and the
\* rest does what the list does.
LEMMA CancelledApart ==
    ASSUME NEW ctx \in RiskContexts, NEW s \in Batch
    PROVE  /\ NothingDone(ctx, Cancellations(s))
           /\ Live(s) \in Batch
           /\ Executed(ctx, Live(s)) = Executed(ctx, s)
           /\ LiveExits(Live(s)) = LiveExits(s)
<1> DEFINE Apart(t) == /\ Executed(ctx, Only(t, Cancelled)) = Before(ctx)
                       /\ LiveExits(Only(t, Cancelled)) = <<>>
                       /\ Executed(ctx, Only(t, LiveOnes)) = Executed(ctx, t)
                       /\ LiveExits(Only(t, LiveOnes)) = LiveExits(t)
           T == {t \in Batch : Apart(t)}
<1>1. <<>> \in T
  <2>1. <<>> \in Batch /\ Only(<<>>, Cancelled) = <<>> /\ Only(<<>>, LiveOnes) = <<>>
    BY OnlyOfNothing DEF Batch
  <2>2. Executed(ctx, <<>>) = Before(ctx) /\ LiveExits(<<>>) = <<>>
    BY ExecutedInTurn, OnlyOfNothing DEF LiveExits
  <2> QED BY <2>1, <2>2
<1>2. ASSUME NEW t \in Seq(RiskSignals), NEW x \in RiskSignals, t \in T
      PROVE  Append(t, x) \in T
  <2> DEFINE c == Only(t, Cancelled)
             l == Only(t, LiveOnes)
  <2>1. t \in Batch /\ Append(t, x) \in Batch /\ c \in Batch /\ l \in Batch
    BY AppendProperties, OnlyFacts DEF Batch
  <2>2. /\ Only(Append(t, x), Cancelled) = IF x \in Cancelled THEN Append(c, x) ELSE c
        /\ Only(Append(t, x), LiveOnes) = IF x \in LiveOnes THEN Append(l, x) ELSE l
    BY OnlyAppend
  <2>3. /\ Executed(ctx, c) = Before(ctx) /\ LiveExits(c) = <<>>
        /\ Executed(ctx, l) = Executed(ctx, t) /\ LiveExits(l) = LiveExits(t)
    BY <1>2
  <2> HIDE DEF c, l
  <2>4. /\ Executed(ctx, Append(t, x)) = Execute(Executed(ctx, t), x)
        /\ Executed(ctx, Append(c, x)) = Execute(Executed(ctx, c), x)
        /\ Executed(ctx, Append(l, x)) = Execute(Executed(ctx, l), x)
        /\ Executed(ctx, t) \in Executions /\ Executed(ctx, c) \in Executions
    BY <2>1, ExecutedInTurn DEF Batch
  <2>5. CASE x \in Cancelled
    <3>1. x \notin LiveOnes /\ ~OpensPosition(x) /\ x \notin ExitOnes
      BY <2>5, SignalChanged DEF Cancelled, LiveOnes
    <3>2. Only(Append(t, x), Cancelled) = Append(c, x) /\ Only(Append(t, x), LiveOnes) = l
      BY <2>2, <2>5, <3>1, Zenon
    <3>3. Execute(Executed(ctx, t), x) = Executed(ctx, t) /\ Execute(Executed(ctx, c), x) = Executed(ctx, c)
      BY <2>4, <3>1, ExecuteEffect
    <3>4. LiveExits(Append(c, x)) = LiveExits(c) /\ LiveExits(Append(t, x)) = LiveExits(t)
      BY <2>1, <3>1, ExitsOfAppend
    <3>5. Apart(Append(t, x))
      BY <2>3, <2>4, <3>2, <3>3, <3>4, Zenon
    <3> HIDE DEF Apart
    <3> QED BY <2>1, <3>5
  <2>6. CASE x \notin Cancelled
    <3>1. x \in LiveOnes
      BY <2>6 DEF Cancelled, LiveOnes
    <3>2. Only(Append(t, x), Cancelled) = c /\ Only(Append(t, x), LiveOnes) = Append(l, x)
      BY <2>2, <2>6, <3>1, Zenon
    <3>3. LiveExits(Append(l, x)) = LiveExits(Append(t, x))
      <4>1. CASE x \in ExitOnes
        <5>1. /\ LiveExits(Append(l, x)) = Append(LiveExits(l), x)
              /\ LiveExits(Append(t, x)) = Append(LiveExits(t), x)
          BY <2>1, <4>1, ExitsOfAppend
        <5> QED BY <2>3, <5>1
      <4>2. CASE x \notin ExitOnes
        BY <2>1, <2>3, <4>2, ExitsOfAppend
      <4> QED BY <4>1, <4>2
    <3>4. Apart(Append(t, x))
      BY <2>3, <2>4, <3>2, <3>3, Zenon
    <3> HIDE DEF Apart
    <3> QED BY <2>1, <3>4
  <2> QED BY <2>5, <2>6
<1>3. s \in T
  <2> HIDE DEF T
  <2>1. Seq(RiskSignals) \subseteq T
    BY <1>1, <1>2, SeqSetInduction
  <2> QED BY <2>1 DEF Batch
<1>4. Cancellations(s) = Only(s, Cancelled) /\ Live(s) = Only(s, LiveOnes)
  BY DEF Cancellations, Live, Cancelled, LiveOnes
<1>5. Only(s, Cancelled) \in Batch /\ Only(s, LiveOnes) \in Batch
  BY OnlyFacts DEF Batch
<1> QED BY <1>3, <1>4, <1>5 DEF NothingDone

LEMMA ConcatOfAppend ==
    ASSUME NEW S, NEW c \in Seq(S), NEW t \in Seq(S), NEW x \in S
    PROVE  c \o Append(t, x) = Append(c \o t, x) /\ c \o t \in Seq(S)
<1> DEFINE one == <<x>>
           ct == c \o t
           u == Append(t, x)
           v == Append(ct, x)
<1>1. one \in Seq(S) /\ ct \in Seq(S)
  BY ConcatProperties
<1>2. u = t \o one
  BY AppendIsConcat
<1> HIDE DEF ct
<1>3. v = ct \o one
  BY <1>1, AppendIsConcat
<1> HIDE DEF one, u, v
<1>4. (c \o t) \o one = c \o (t \o one)
  BY <1>1, ConcatAssociative
<1>5. c \o u = v
  BY <1>2, <1>3, <1>4, Zenon DEF ct
<1> QED BY <1>1, <1>5 DEF u, v, ct

\* What does nothing may go ahead of a list.
LEMMA IdleAhead ==
    ASSUME NEW ctx \in RiskContexts, NEW c, NothingDone(ctx, c), NEW s \in Batch
    PROVE  /\ c \o s \in Batch
           /\ Executed(ctx, c \o s) = Executed(ctx, s)
           /\ LiveExits(c \o s) = LiveExits(s)
<1> DEFINE T == {t \in Batch : /\ c \o t \in Batch
                               /\ Executed(ctx, c \o t) = Executed(ctx, t)
                               /\ LiveExits(c \o t) = LiveExits(t)}
<1>0. c \in Seq(RiskSignals)
  BY DEF NothingDone, Batch
<1>1. <<>> \in T
  <2>1. <<>> \in Batch /\ c \o <<>> = c
    BY <1>0, ConcatEmptySeq DEF Batch
  <2>2. Executed(ctx, <<>>) = Before(ctx) /\ LiveExits(<<>>) = <<>>
    BY ExecutedInTurn, OnlyOfNothing DEF LiveExits
  <2> QED BY <2>1, <2>2, Zenon DEF NothingDone
<1>2. ASSUME NEW t \in Seq(RiskSignals), NEW x \in RiskSignals, t \in T
      PROVE  Append(t, x) \in T
  <2> DEFINE ct == c \o t
  <2>1. c \o Append(t, x) = Append(ct, x) /\ ct \in Batch
    BY <1>0, ConcatOfAppend DEF Batch
  <2>2. t \in Batch /\ Executed(ctx, ct) = Executed(ctx, t) /\ LiveExits(ct) = LiveExits(t)
    BY <1>2
  <2> HIDE DEF ct
  <2>3. Append(t, x) \in Batch /\ Append(ct, x) \in Batch
    BY <2>1, AppendProperties DEF Batch
  <2>4. Executed(ctx, Append(ct, x)) = Executed(ctx, Append(t, x))
    BY <2>1, <2>2, ExecutedInTurn DEF Batch
  <2>5. LiveExits(Append(ct, x)) = LiveExits(Append(t, x))
    <3>1. CASE x \in ExitOnes
      <4>1. /\ LiveExits(Append(ct, x)) = Append(LiveExits(ct), x)
            /\ LiveExits(Append(t, x)) = Append(LiveExits(t), x)
        BY <2>1, <2>2, <3>1, ExitsOfAppend
      <4> QED BY <2>2, <4>1
    <3>2. CASE x \notin ExitOnes
      BY <2>1, <2>2, <3>2, ExitsOfAppend
    <3> QED BY <3>1, <3>2
  <2> QED BY <2>1, <2>3, <2>4, <2>5, Zenon
<1>3. s \in T
  <2> HIDE DEF T
  <2>1. Seq(RiskSignals) \subseteq T
    BY <1>1, <1>2, SeqSetInduction
  <2> QED BY <2>1 DEF Batch
<1> QED BY <1>3

LEMMA LayerNarrows ==
    ASSUME NEW ctx \in RiskContexts, NEW s \in Batch, NEW o, Narrows(ctx, o, Live(s))
    PROVE  Narrows(ctx, Cancellations(s) \o o, s)
<1>1. /\ Executed(ctx, Live(s)) = Executed(ctx, s) /\ LiveExits(Live(s)) = LiveExits(s)
      /\ NothingDone(ctx, Cancellations(s)) /\ o \in Batch
  BY CancelledApart DEF Narrows
<1> DEFINE joined == Cancellations(s) \o o
<1>2. /\ joined \in Batch /\ Executed(ctx, joined) = Executed(ctx, o)
      /\ LiveExits(joined) = LiveExits(o)
  BY <1>1, IdleAhead
<1> HIDE DEF joined
<1>3. Narrows(ctx, joined, s)
  BY <1>1, <1>2, Zenon DEF Narrows
<1> QED BY <1>3 DEF joined

\* What the whole hook keeps.
LEMMA HookHolds ==
    ASSUME NEW ctx \in RiskContexts, NEW s \in Batch
    PROVE  LET after == Executed(ctx, OnCycle(ctx, s))
           IN  /\ \A z \in RiskSymbols : AtMost(after.book[z], AssetCap(ctx), ctx.held[z])
               /\ LiveExits(s) = <<>> =>
                    AtMost(SumFunction(after.book), TotalCap(ctx), SumFunction(ctx.held))
               /\ \A c \in Sectors : AtMost(after.sector[c], RiskConfig.sector, SectorSize(ctx)[c])
               /\ LiveExits(OnCycle(ctx, s)) = LiveExits(s)
<1> DEFINE exposed == Exposure(ctx, s)
           first == ApplyExposureLayer(ctx, s)
           grouped == Concentration(ctx, Live(first))
           conc == ApplyConcentrationLayer(ctx, Live(first))
           second == Cancellations(first) \o conc
           third == Cancellations(second) \o ApplyCorrelationLayer(ctx, Live(second))
           out == Cancellations(third) \o ApplyDrawdownLayer(ctx, Live(third))
<1>o. OnCycle(ctx, s) = out
  BY DEF OnCycle
<1>1. /\ first = exposed.out /\ exposed \in Exposures /\ first \in Batch
      /\ ExposureKeeps(ctx, s, exposed)
  BY ExposureHolds DEF ApplyExposureLayer, Exposures
<1>c. conc = grouped.out
  BY DEF ApplyConcentrationLayer
<1> HIDE DEF first, exposed, conc
<1>2. /\ Live(first) \in Batch /\ Executed(ctx, Live(first)) = Executed(ctx, first)
      /\ LiveExits(Live(first)) = LiveExits(first) /\ NothingDone(ctx, Cancellations(first))
  BY <1>1, CancelledApart
<1>3. /\ conc = grouped.out /\ grouped \in Concentrations /\ conc \in Batch
      /\ ConcentrationKeeps(ctx, Live(first), grouped)
  BY <1>2, <1>c, ConcentrationHolds DEF Concentrations
<1> HIDE DEF grouped
<1>4. /\ second \in Batch /\ Executed(ctx, second) = Executed(ctx, conc)
      /\ LiveExits(second) = LiveExits(conc)
  BY <1>2, <1>3, IdleAhead
<1> HIDE DEF second
<1>5. Narrows(ctx, third, second)
  <2>1. Live(second) \in Batch
    BY <1>4, CancelledApart
  <2> QED BY <1>4, <2>1, CorrelationNarrows, LayerNarrows
<1>6. third \in Batch
  BY <1>5 DEF Narrows
<1> HIDE DEF third
<1>7. Narrows(ctx, out, third)
  <2>1. Live(third) \in Batch
    BY <1>6, CancelledApart
  <2> QED BY <1>6, <2>1, DrawdownNarrows, LayerNarrows
<1> HIDE DEF out
<1> DEFINE a == Executed(ctx, out)
           b == Executed(ctx, third)
           c == Executed(ctx, second)
           d == Executed(ctx, first)
<1>8. a \in Executions /\ b \in Executions /\ c \in Executions /\ d \in Executions
  BY <1>1, <1>4, <1>6, <1>7, ExecutedInTurn DEF Narrows, Batch
<1>9. BookBelow(a, b) /\ BookBelow(b, c) /\ SectorBelow(a, b) /\ SectorBelow(b, c)
  BY <1>5, <1>7 DEF Narrows
<1>10. BookBelow(c, d)
  BY <1>2, <1>3, <1>4 DEF ConcentrationKeeps
<1>11. /\ c.sector = grouped.sector
       /\ \A k \in Sectors : AtMost(grouped.sector[k], RiskConfig.sector, SectorSize(ctx)[k])
  BY <1>3, <1>4 DEF ConcentrationKeeps
<1>12. /\ d.book = exposed.book
       /\ \A z \in RiskSymbols : AtMost(exposed.book[z], AssetCap(ctx), ctx.held[z])
       /\ LiveExits(s) = <<>> => AtMost(SumFunction(exposed.book), TotalCap(ctx), SumFunction(ctx.held))
       /\ LiveExits(first) = LiveExits(s)
  BY <1>1 DEF ExposureKeeps
<1> HIDE DEF a, b, c, d
<1>13. BookBelow(a, d) /\ SectorBelow(a, c)
  BY <1>8, <1>9, <1>10, BelowIsTransitive
<1>14. /\ AssetCap(ctx) \in Int /\ TotalCap(ctx) \in Int /\ RiskConfig.sector \in Int
       /\ ctx.held \in [RiskSymbols -> Nat] /\ SectorSize(ctx) \in [Sectors -> Int]
       /\ SumFunction(ctx.held) \in Int /\ IsFiniteSet(RiskSymbols)
  BY RiskBounds, SectorKnown DEF Sizes
<1>15. /\ a.book \in [RiskSymbols -> Nat] /\ d.book \in [RiskSymbols -> Nat]
       /\ a.sector \in [Sectors -> Int] /\ c.sector \in [Sectors -> Int]
  BY <1>8 DEF Executions, Sizes
<1>16. ASSUME NEW z \in RiskSymbols PROVE AtMost(a.book[z], AssetCap(ctx), ctx.held[z])
  <2>1. a.book[z] <= d.book[z] /\ AtMost(d.book[z], AssetCap(ctx), ctx.held[z])
    BY <1>12, <1>13 DEF BookBelow
  <2>2. a.book[z] \in Nat /\ d.book[z] \in Nat /\ ctx.held[z] \in Nat
    BY <1>14, <1>15
  <2> QED BY <1>14, <2>1, <2>2 DEF AtMost
<1>17. ASSUME NEW k \in Sectors PROVE AtMost(a.sector[k], RiskConfig.sector, SectorSize(ctx)[k])
  <2>1. a.sector[k] <= c.sector[k] /\ AtMost(c.sector[k], RiskConfig.sector, SectorSize(ctx)[k])
    BY <1>11, <1>13 DEF SectorBelow
  <2>2. a.sector[k] \in Int /\ c.sector[k] \in Int /\ SectorSize(ctx)[k] \in Int
    BY <1>14, <1>15
  <2> QED BY <1>14, <2>1, <2>2 DEF AtMost
<1>18. ASSUME LiveExits(s) = <<>>
       PROVE  AtMost(SumFunction(a.book), TotalCap(ctx), SumFunction(ctx.held))
  <2>1. /\ SumFunction(a.book) = SumFunctionOnSet(a.book, RiskSymbols)
        /\ SumFunction(d.book) = SumFunctionOnSet(d.book, RiskSymbols)
    BY <1>15 DEF SumFunction
  <2>2. /\ \A z \in RiskSymbols : a.book[z] \in Int /\ d.book[z] \in Int
        /\ \A z \in RiskSymbols : a.book[z] <= d.book[z]
    BY <1>13, <1>15 DEF BookBelow
  <2>3. /\ SumFunctionOnSet(a.book, RiskSymbols) \in Int /\ SumFunctionOnSet(d.book, RiskSymbols) \in Int
    BY <1>14, <2>2, TotalType
  <2>4. SumFunctionOnSet(a.book, RiskSymbols) <= SumFunctionOnSet(d.book, RiskSymbols)
    BY <1>14, <2>2, TotalMonotone
  <2>5. AtMost(SumFunction(d.book), TotalCap(ctx), SumFunction(ctx.held))
    BY <1>12, <1>18
  <2> QED BY <1>14, <2>1, <2>3, <2>4, <2>5 DEF AtMost
<1>19. LiveExits(out) = LiveExits(s)
  BY <1>2, <1>3, <1>4, <1>5, <1>7, <1>12 DEF Narrows, ConcentrationKeeps
<1> QED BY <1>o, <1>16, <1>17, <1>18, <1>19 DEF a

\* A call without a signal holds: there is nothing to execute.
LEMMA NoHookHolds ==
    ASSUME risk = NoHook
    PROVE  CapsHoldOverTheBatch
<1> DEFINE ctx == NoHook.ctx
<1>1. ctx \in RiskContexts /\ risk.out = <<>> /\ risk.batch = <<>> /\ risk.ctx = ctx
  BY RiskAssumption DEF NoHook
<1> HIDE DEF ctx
<1>2. Executed(ctx, <<>>) = Before(ctx)
  BY <1>1, ExecutedInTurn
<1>3. /\ \A z \in RiskSymbols : ctx.held[z] \in Nat
      /\ \A c \in Sectors : SectorSize(ctx)[c] \in Int
      /\ SumFunction(ctx.held) \in Int
  BY <1>1, RiskBounds, SectorKnown DEF Sizes
<1> QED BY <1>1, <1>2, <1>3 DEF CapsHoldOverTheBatch, Before, AtMost

\* However the four layers of the risk manager rescale a batch, executing what
\* comes out keeps each symbol, each sector and the whole book within its cap,
\* and passes every exit (risk_manager_core.py, on_cycle).
THEOREM CapsHold == RiskSpec => []CapsHoldOverTheBatch
<1>1. RiskInit => CapsHoldOverTheBatch
  BY NoHookHolds DEF RiskInit
<1>2. ASSUME CapsHoldOverTheBatch, [RiskNext]_risk
      PROVE  CapsHoldOverTheBatch'
  <2>1. CASE RunHook
    <3>1. PICK ctx \in RiskContexts, batch \in RiskBatches :
            risk' = [ctx |-> ctx, batch |-> batch, out |-> OnCycle(ctx, batch)]
      BY <2>1 DEF RunHook
    <3>2. batch \in Batch
      BY RiskAssumption DEF Batch
    <3> DEFINE out == OnCycle(ctx, batch)
               after == Executed(ctx, out)
    <3>3. /\ \A z \in RiskSymbols : AtMost(after.book[z], AssetCap(ctx), ctx.held[z])
          /\ LiveExits(batch) = <<>> =>
               AtMost(SumFunction(after.book), TotalCap(ctx), SumFunction(ctx.held))
          /\ \A c \in Sectors : AtMost(after.sector[c], RiskConfig.sector, SectorSize(ctx)[c])
          /\ LiveExits(out) = LiveExits(batch)
      BY <3>2, HookHolds
    <3>4. risk'.ctx = ctx /\ risk'.batch = batch /\ risk'.out = out
      BY <3>1
    <3> HIDE DEF out
    <3> QED BY <3>3, <3>4 DEF CapsHoldOverTheBatch
  <2>2. CASE UNCHANGED risk
    BY <1>2, <2>2 DEF CapsHoldOverTheBatch
  <2> QED BY <1>2, <2>1, <2>2 DEF RiskNext
<1> QED BY <1>1, <1>2, PTL DEF RiskSpec

-----------------------------------------------------------------------------
(* ContextMemory                                                           *)

\* What is kept are notes there have been, and flags there are.
Memories == [observations : Seq(1 .. MaxNotes), flags : SUBSET FlagKeys]
MemoryInv ==
    /\ notes \in 0 .. MaxNotes
    /\ blank \in Memories /\ memoryRow \in [stored : BOOLEAN, mem : Memories]
    /\ caller \in [MemoryCallers -> [pc : {"none", "read", "save"}, fromRow : BOOLEAN, read : Memories]]

LEMMA NothingKept == EMPTY_MEMORY \in Memories
<1> DEFINE none == <<>>
<1>1. none \in Seq(1 .. MaxNotes)
  OBVIOUS
<1> HIDE DEF none
<1> QED BY <1>1 DEF EMPTY_MEMORY, Memories, none

LEMMA NoCallTyped ==
    NoCall \in [pc : {"none", "read", "save"}, fromRow : BOOLEAN, read : Memories]
BY NothingKept DEF NoCall

\* The first of the notes, with one more in front.
LEMMA NotedFits ==
    ASSUME NEW old \in Seq(1 .. MaxNotes), NEW n \in 1 .. MaxNotes
    PROVE  LET noted == <<n>> \o old
           IN  /\ noted \in Seq(1 .. MaxNotes)
               /\ SubSeq(noted, 1, IF Len(noted) > MAX_OBSERVATIONS THEN MAX_OBSERVATIONS
                                   ELSE Len(noted)) \in Seq(1 .. MaxNotes)
<1> DEFINE noted == <<n>> \o old
           last == IF Len(noted) > MAX_OBSERVATIONS THEN MAX_OBSERVATIONS ELSE Len(noted)
<1>1. <<n>> \in Seq(1 .. MaxNotes)
  OBVIOUS
<1>2. noted \in Seq(1 .. MaxNotes)
  BY <1>1, ConcatProperties
<1> HIDE DEF noted
<1>3. Len(noted) \in Nat /\ MAX_OBSERVATIONS \in Nat \ {0}
  BY <1>2, LenProperties, ContextMemoryAssumption
<1>4. last \in Nat /\ last <= Len(noted)
  BY <1>3
<1> HIDE DEF last
<1>5. ASSUME NEW i \in 1 .. last PROVE noted[i] \in 1 .. MaxNotes
  <2>1. i \in 1 .. Len(noted)
    BY <1>3, <1>4
  <2> QED BY <1>2, <2>1, ElementOfSeq
<1>6. SubSeq(noted, 1, last) \in Seq(1 .. MaxNotes)
  BY <1>4, <1>5, SubSeqProperties
<1> QED BY <1>2, <1>6 DEF noted, last

LEMMA GotTyped == ASSUME MemoryInv, NEW c \in MemoryCallers PROVE Got(c) \in Memories
BY DEF MemoryInv, Got

LEMMA ChangedTyped ==
    ASSUME MemoryInv, NEW c \in MemoryCallers, NEW mem \in Memories, MemoryChanged(c, mem)
    PROVE  caller' \in [MemoryCallers -> [pc : {"none", "read", "save"}, fromRow : BOOLEAN, read : Memories]]
<1> DEFINE r == [pc |-> "save", fromRow |-> FALSE, read |-> mem]
<1>1. r \in [pc : {"none", "read", "save"}, fromRow : BOOLEAN, read : Memories]
  OBVIOUS
<1>2. caller' = [caller EXCEPT ![c] = r]
  BY DEF MemoryChanged
<1> HIDE DEF r
<1> QED BY <1>1, <1>2 DEF MemoryInv

LEMMA MemoryStepKeeps == MemoryInv /\ [ContextMemoryNext]_contextMemoryVars => MemoryInv'
<1> SUFFICES ASSUME MemoryInv, [ContextMemoryNext]_contextMemoryVars PROVE MemoryInv'
  OBVIOUS
<1>0. /\ notes \in 0 .. MaxNotes /\ MaxNotes \in Nat
      /\ blank \in Memories /\ memoryRow \in [stored : BOOLEAN, mem : Memories]
      /\ caller \in [MemoryCallers -> [pc : {"none", "read", "save"}, fromRow : BOOLEAN, read : Memories]]
  BY ContextMemoryAssumption DEF MemoryInv
<1>1. ASSUME NEW c \in MemoryCallers, MemoryGet(c) PROVE MemoryInv'
  <2> DEFINE r == [pc |-> "read", fromRow |-> memoryRow.stored, read |-> Remembered]
  <2>1. r \in [pc : {"none", "read", "save"}, fromRow : BOOLEAN, read : Memories]
    BY <1>0 DEF Remembered
  <2>2. caller' = [caller EXCEPT ![c] = r] /\ UNCHANGED <<blank, memoryRow, notes>>
    BY <1>1 DEF MemoryGet
  <2> HIDE DEF r
  <2> QED BY <1>0, <2>1, <2>2 DEF MemoryInv
<1>2. ASSUME NEW c \in MemoryCallers, AppendObservation(c) PROVE MemoryInv'
  <2> DEFINE noted == <<notes + 1>> \o Got(c).observations
             kept == SubSeq(noted, 1, IF Len(noted) > MAX_OBSERVATIONS THEN MAX_OBSERVATIONS
                                      ELSE Len(noted))
  <2>1. /\ notes < MaxNotes /\ notes' = notes + 1 /\ UNCHANGED memoryRow
        /\ MemoryChanged(c, [Got(c) EXCEPT !.observations = kept])
        /\ blank' \in {blank, [blank EXCEPT !.observations = noted]}
    BY <1>2 DEF AppendObservation
  <2>2. Got(c) \in Memories /\ Got(c).observations \in Seq(1 .. MaxNotes)
    BY GotTyped DEF Memories
  <2>3. notes' \in 0 .. MaxNotes /\ notes + 1 \in 1 .. MaxNotes
    BY <1>0, <2>1
  <2>4. noted \in Seq(1 .. MaxNotes) /\ kept \in Seq(1 .. MaxNotes)
    BY <2>2, <2>3, NotedFits
  <2> HIDE DEF noted, kept
  <2>5. [Got(c) EXCEPT !.observations = kept] \in Memories
    BY <2>2, <2>4 DEF Memories
  <2>6. blank' \in Memories
    BY <1>0, <2>1, <2>4 DEF Memories
  <2>7. caller' \in [MemoryCallers -> [pc : {"none", "read", "save"}, fromRow : BOOLEAN, read : Memories]]
    BY <2>1, <2>5, ChangedTyped
  <2> QED BY <1>0, <2>1, <2>3, <2>6, <2>7 DEF MemoryInv
<1>3. ASSUME NEW c \in MemoryCallers, SetFlag(c) PROVE MemoryInv'
  <2>1. PICK key \in FlagKeys :
          LET mem == [Got(c) EXCEPT !.flags = FlagsWith(@, key)]
          IN  /\ MemoryChanged(c, mem)
              /\ blank' = IF caller[c].fromRow THEN blank ELSE [blank EXCEPT !.flags = mem.flags]
    BY <1>3 DEF SetFlag
  <2> DEFINE mem == [Got(c) EXCEPT !.flags = Got(c).flags \cup {key}]
  <2>2. Got(c) \in Memories
    BY GotTyped
  <2>3. mem \in Memories
    BY <2>2 DEF Memories
  <2>4. MemoryChanged(c, mem) /\ blank' \in {blank, [blank EXCEPT !.flags = mem.flags]}
    BY <2>1 DEF FlagsWith
  <2> HIDE DEF mem
  <2>5. blank' \in Memories
    BY <1>0, <2>3, <2>4 DEF Memories
  <2>6. caller' \in [MemoryCallers -> [pc : {"none", "read", "save"}, fromRow : BOOLEAN, read : Memories]]
    BY <2>3, <2>4, ChangedTyped
  <2> QED BY <1>0, <1>3, <2>5, <2>6 DEF SetFlag, MemoryInv
<1>4. ASSUME NEW c \in MemoryCallers, DeleteFlag(c) PROVE MemoryInv'
  <2>1. PICK key \in FlagKeys : MemoryChanged(c, [Got(c) EXCEPT !.flags = Got(c).flags \ {key}])
    BY <1>4 DEF DeleteFlag
  <2> DEFINE mem == [Got(c) EXCEPT !.flags = Got(c).flags \ {key}]
  <2>2. mem \in Memories
    BY GotTyped DEF Memories
  <2>3. MemoryChanged(c, mem)
    BY <2>1
  <2> HIDE DEF mem
  <2>4. caller' \in [MemoryCallers -> [pc : {"none", "read", "save"}, fromRow : BOOLEAN, read : Memories]]
    BY <2>2, <2>3, ChangedTyped
  <2> QED BY <1>0, <1>4, <2>4 DEF DeleteFlag, MemoryInv
<1>5. ASSUME NEW c \in MemoryCallers, MemorySave(c) PROVE MemoryInv'
  <2>1. memoryRow' = [stored |-> TRUE, mem |-> caller[c].read] /\ caller' = [caller EXCEPT ![c] = NoCall]
        /\ UNCHANGED <<blank, notes>>
    BY <1>5 DEF MemorySave
  <2>2. caller[c].read \in Memories
    BY <1>0
  <2> QED BY <1>0, <2>1, <2>2, NoCallTyped DEF MemoryInv
<1>6. CASE ResetMemory
  BY <1>0, <1>6, NothingKept DEF ResetMemory, MemoryInv
<1>7. CASE MemoryRestarts
  BY <1>0, <1>7, NothingKept, NoCallTyped DEF MemoryRestarts, MemoryInv
<1>8. CASE UNCHANGED contextMemoryVars
  BY <1>8 DEF contextMemoryVars, MemoryInv
<1> QED BY <1>1, <1>2, <1>3, <1>4, <1>5, <1>6, <1>7, <1>8 DEF ContextMemoryNext

\* The types of the memory: what the arrays of the empty state have picked up
\* included, nothing is remembered that was not noted.
THEOREM MemoryKeepsTypes == ContextMemorySpec => []ContextMemoryTypeOK
<1>1. ContextMemoryInit => MemoryInv
  BY NothingKept, NoCallTyped, ContextMemoryAssumption DEF ContextMemoryInit, MemoryInv
<1>2. MemoryInv => ContextMemoryTypeOK
  <2> SUFFICES ASSUME MemoryInv PROVE ContextMemoryTypeOK OBVIOUS
  <2>1. ASSUME NEW mem \in Memories
        PROVE  ToSet(mem.observations) \subseteq 1 .. MaxNotes /\ mem.flags \subseteq FlagKeys
    <3>1. mem.observations \in Seq(1 .. MaxNotes) /\ mem.flags \subseteq FlagKeys
      BY DEF Memories
    <3>2. DOMAIN mem.observations = 1 .. Len(mem.observations)
      BY <3>1, LenProperties
    <3> QED BY <3>1, <3>2, ElementOfSeq DEF ToSet
  <2>2. blank \in Memories /\ memoryRow.mem \in Memories
    BY DEF MemoryInv
  <2> QED BY <2>1, <2>2 DEF MemoryInv, ContextMemoryTypeOK
<1> QED BY <1>1, <1>2, MemoryStepKeeps, PTL DEF ContextMemorySpec

-----------------------------------------------------------------------------
(* The parts of the cycle together                                         *)

\* No step of the composition is a step of a part that its module does not
\* have: every part keeps to its own specification.
LEMMA PartsStep ==
    ASSUME [Next]_vars
    PROVE  /\ [ChainNext]_chainVars /\ [CycleNext]_cycleVars /\ [TurnNext]_turnVars
           /\ [RoutingNext]_routingVars /\ [OutcomeNext]_outcomeVars
           /\ [ContextMemoryNext]_contextMemoryVars
<1>1. CASE UNCHANGED vars
  BY <1>1 DEF vars
<1>2. CASE Next
  BY <1>2 DEF Next, StudyChain, StudyTrial
<1> QED BY <1>1, <1>2

\* Every part of the cycle keeps to its types, whichever of them moves.
THEOREM CyclePartsKeepTypes == Spec => []CycleTypesOK
<1>1. Init => /\ ChainInit /\ CycleInit /\ TurnInit /\ RoutingInit /\ OutcomeInit
              /\ ContextMemoryInit
  BY DEF Init
<1>2. [Next]_vars => /\ [ChainNext]_chainVars /\ [CycleNext]_cycleVars /\ [TurnNext]_turnVars
                     /\ [RoutingNext]_routingVars /\ [OutcomeNext]_outcomeVars
                     /\ [ContextMemoryNext]_contextMemoryVars
  BY PartsStep
<1>3. Spec => /\ ChainSpec /\ CycleSpec /\ TurnSpec /\ RoutingSpec /\ OutcomeSpec
              /\ ContextMemorySpec
  BY <1>1, <1>2, PTL DEF Spec, ChainSpec, CycleSpec, TurnSpec, RoutingSpec, OutcomeSpec,
                         ContextMemorySpec
<1>4. ChainTypeOK /\ CycleTypeOK /\ TurnTypeOK /\ RoutingTypeOK /\ OutcomeTypeOK
        /\ ContextMemoryTypeOK => CycleTypesOK
  BY DEF CycleTypesOK
<1> QED
  BY <1>3, <1>4, ChainKeepsTypes, CycleKeepsTypes, TurnKeepsTypes, RoutingKeepsTypes,
     OutcomesKeepTypes, MemoryKeepsTypes, PTL
=============================================================================
