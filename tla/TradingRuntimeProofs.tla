------------------------- MODULE TradingRuntimeProofs -------------------------
(***************************************************************************)
(* What RiskEngine::evaluate promises of every decision and snapshot, and  *)
(* what follows for every run of TradingRuntime, whatever the limits of    *)
(* the configuration and the decisions of the agent.                       *)
(*                                                                         *)
(* The runs' invariants speak of orders; the strengthening says what each  *)
(* stage of a call knows: the snapshot's cash is still there (Funded),     *)
(* what is planned was approved by this evaluation (Planned), and the      *)
(* snapshot holds the safety state read when the call began (Current).     *)
(***************************************************************************)
EXTENDS TradingRuntime, TLAPS, SequenceTheorems, FiniteSetTheorems

IsDecision(d) ==
    /\ d.action \in {"Buy", "Sell", "Hold"}
    /\ d.instrument \in Instruments
    /\ d.notional \in Nat
    /\ d.reduction \in 0..Whole

IsSnapshot(s) ==
    /\ s.held \in [Instruments -> Nat]
    /\ s.available \in Nat
    /\ s.live \in BOOLEAN
--------------------------------------------------------------------------------
(* The risk engine *)

\* A reason is among the reasons of a rejection exactly if its condition holds.
LEMMA WhenMember ==
    ASSUME NEW condition \in BOOLEAN, NEW reason
    PROVE  reason \in When(condition, reason) <=> condition
  BY DEF When

LEMMA FullQuantity ==
    ASSUME NEW quantity \in Nat, NEW whole \in Nat \ {0}
    PROVE  (quantity * whole) \div whole = quantity
  OBVIOUS

LEMMA PartOfQuantity ==
    ASSUME NEW quantity \in Nat, NEW part \in Nat, NEW whole \in Nat \ {0}
    PROVE  (quantity * part) \div whole \in Nat
<1>1. quantity * part \in Nat
  OBVIOUS
<1>2. QED
  BY <1>1

LEMMA SellSize ==
    ASSUME NEW d, NEW s, IsDecision(d), IsSnapshot(s)
    PROVE  SellQuantity(d, s) \in Nat
  BY PartOfQuantity, RiskConfigAssumption DEF RiskConfigAssumption, SellQuantity, IsDecision,
     IsSnapshot

\* The cap and the cash left bound what is approved of a BUY.
LEMMA ApprovedSize ==
    ASSUME NEW d, NEW s, IsDecision(d), IsSnapshot(s)
    PROVE  /\ ApprovedNotional(d, s) \in Nat
           /\ ApprovedNotional(d, s) <= d.notional
           /\ s.live /\ Available(s) > 0 => ApprovedNotional(d, s) <= Available(s)
  BY RiskConfigAssumption
  DEF RiskConfigAssumption, ApprovedNotional, Least, Available, IsDecision, IsSnapshot

\* An allowed BUY is paid for by the cash beyond the reserve.
LEMMA AllowedBuyIsFunded ==
    ASSUME NEW d, NEW s, IsDecision(d), IsSnapshot(s), BuyAllowed(d, s)
    PROVE  ApprovedNotional(d, s) <= Available(s)
<1>1. "InsufficientFunds" \notin BuyReasons(d, s)
  BY DEF BuyAllowed, OnlyConstraints
<1>2. ~(Available(s) < d.notional /\ ~(s.live /\ Available(s) > 0))
  BY <1>1 DEF BuyReasons, When
<1>3. Available(s) \in Int /\ d.notional \in Nat
  BY RiskConfigAssumption DEF RiskConfigAssumption, Available, IsSnapshot, IsDecision
<1>4. CASE s.live /\ Available(s) > 0
  BY <1>4, ApprovedSize
<1>5. CASE Available(s) >= d.notional
  BY <1>3, <1>5, ApprovedSize
<1>6. QED
  BY <1>2, <1>3, <1>4, <1>5

LEMMA EvaluateTypes ==
    ASSUME NEW d, NEW s, IsDecision(d), IsSnapshot(s)
    PROVE  /\ Evaluate(d, s).outcome
                  \in {"NoAction", "Approved", "ApprovedWithConstraints", "Rejected"}
           /\ Evaluate(d, s).size \in Nat
  BY SellSize, ApprovedSize DEF Evaluate, Decided

LEMMA ApprovedActions ==
    ASSUME NEW d, NEW s, IsDecision(d), IsApproved(Evaluate(d, s))
    PROVE  /\ d.action \in {"Buy", "Sell"}
           /\ d.action = "Buy" =>
                 BuyAllowed(d, s) /\ Evaluate(d, s).size = ApprovedNotional(d, s)
  BY DEF Evaluate, IsApproved, Decided, IsDecision

\* An approved BUY leaves the reserve of the snapshot's cash alone: the Live
\* constraints of evaluate cut it down, they do not wave it through.
THEOREM ApprovedBuyIsFunded ==
    ASSUME NEW d, NEW s, IsDecision(d), IsSnapshot(s), d.action = "Buy",
           IsApproved(Evaluate(d, s))
    PROVE  Evaluate(d, s).size <= s.available - MinimumCashReserve
  BY ApprovedActions, AllowedBuyIsFunded DEF Available

\* An approved BUY is within what was asked for and, in Live, within the cap, and
\* filling it takes no portfolio past the limit on open positions: what breaks
\* that limit is only what a snapshot leaves out, the BUYs that rest.
THEOREM ApprovedBuyKeepsLimits ==
    ASSUME NEW d, NEW s, IsDecision(d), IsSnapshot(s), IsFiniteSet(Instruments),
           Cardinality({i \in Instruments : IsOpen(s, i)}) <= MaxOpenPositions,
           d.action = "Buy", IsApproved(Evaluate(d, s))
    PROVE  /\ Evaluate(d, s).size \in 1..d.notional
           /\ s.live => Evaluate(d, s).size <= MaxTradeNotional
           /\ Cardinality({i \in Instruments : IsOpen(s, i) \/ i = d.instrument})
                 <= MaxOpenPositions
<1> DEFINE open == {i \in Instruments : IsOpen(s, i)}
<1>1. BuyAllowed(d, s) /\ Evaluate(d, s).size = ApprovedNotional(d, s)
  BY ApprovedActions
<1>2. Evaluate(d, s).size \in 1..d.notional
  BY <1>1, ApprovedSize DEF BuyAllowed, IsDecision
<1>3. s.live => ApprovedNotional(d, s) <= MaxTradeNotional
  BY RiskConfigAssumption
  DEF RiskConfigAssumption, ApprovedNotional, Least, Available, IsDecision, IsSnapshot
<1>4. IsFiniteSet(open) /\ Cardinality(open) \in Nat
  BY FS_Subset, FS_CardinalityType
<1>5. CASE IsOpen(s, d.instrument)
  <2>1. {i \in Instruments : IsOpen(s, i) \/ i = d.instrument} = open
    BY <1>5
  <2>2. QED
    BY <1>1, <1>2, <1>3, <2>1
<1>6. CASE ~IsOpen(s, d.instrument)
  <2>1. "PositionLimitReached" \notin BuyReasons(d, s)
    BY <1>1 DEF BuyAllowed, OnlyConstraints
  <2>2. ~(Cardinality(open) >= MaxOpenPositions)
    BY <1>6, <2>1 DEF BuyReasons, When
  <2>3. d.instrument \notin open /\ d.instrument \in Instruments
    BY <1>6 DEF IsDecision
  <2>4. {i \in Instruments : IsOpen(s, i) \/ i = d.instrument} = open \cup {d.instrument}
    BY <2>3
  <2> HIDE DEF open
  <2>5. Cardinality(open \cup {d.instrument}) = Cardinality(open) + 1
    BY <1>4, <2>3, FS_AddElement
  <2>6. Cardinality(open \cup {d.instrument}) <= MaxOpenPositions
    BY <1>4, <2>2, <2>5, RiskConfigAssumption DEF RiskConfigAssumption
  <2>7. QED
    BY <1>1, <1>2, <1>3, <2>4, <2>6
<1>7. QED
  BY <1>5, <1>6

\* No BUY is approved on a snapshot that says Killed.
THEOREM KilledApprovesNoBuy ==
    ASSUME NEW d, NEW s, IsDecision(d), s.safety = "Killed", IsApproved(Evaluate(d, s))
    PROVE  d.action # "Buy"
<1>1. "TradingKilled" \in BuyReasons(d, s)
  BY DEF BuyReasons, When
<1>2. ~BuyAllowed(d, s)
  BY <1>1 DEF BuyAllowed, OnlyConstraints
<1>3. QED
  BY <1>2, ApprovedActions

\* A protective full exit of an open position is approved, in full.
THEOREM ProtectiveExitIsApproved ==
    ASSUME NEW d, NEW s, IsDecision(d), IsSnapshot(s), d.valid, Protective(d, s),
           IsOpen(s, d.instrument)
    PROVE  IsApproved(Evaluate(d, s)) /\ Evaluate(d, s).size = s.held[d.instrument]
<1>1. d.action = "Sell" /\ d.reduction = Whole /\ s.held[d.instrument] \in Nat
  BY DEF Protective, IsDecision, IsSnapshot
<1>2. SellQuantity(d, s) = s.held[d.instrument]
  BY <1>1, FullQuantity, RiskConfigAssumption DEF RiskConfigAssumption, SellQuantity
<1>3. SellReasons(d, s) = {}
  BY <1>1, <1>2 DEF SellReasons, When, Stale, IsOpen
<1>4. Evaluate(d, s) = Decided("Approved", {}, s.held[d.instrument])
  BY <1>1, <1>2, <1>3 DEF Evaluate
<1>5. QED
  BY <1>4 DEF IsApproved, Decided
--------------------------------------------------------------------------------
(* The strengthening *)

\* Nothing but the call's own BUY takes cash: what it saw is still there.
Funded == stage \notin {"idle", "placed"} => snapshot.available <= free

\* A risk decision is the engine's answer for this decision and snapshot, and
\* only an approved one reaches the plan.
Planned ==
    /\ Evaluated => risk = Evaluate(decision, snapshot)
    /\ stage \in {"approved", "planned"} => IsApproved(risk)

\* The snapshot evaluated holds the safety state of the call's beginning.
Current ==
    stage \in {"evaluated", "approved", "planned"} /\ killedCall => snapshot.safety = "Killed"

\* How far the recording of the call has come.
Recorded ==
    /\ stage = "observed" => trail = {}
    /\ stage = "evaluated" => trail = {"projected"}
    /\ stage = "approved" => trail = {"projected", "risk"}
    /\ stage = "planned" => trail \in {{}, {"projected", "risk", "plan"}}
    /\ stage = "placed" => orders # <<>>

Typed == TypeOK /\ IsSnapshot(snapshot)

IInv ==
    /\ Typed
    /\ Funded
    /\ Planned
    /\ Current
    /\ Recorded
    /\ ReserveUntouched
    /\ KilledCallsBuyNothing
    /\ RecordedBeforePlaced

LEMMA DecisionsTyped == ASSUME NEW d \in Decisions PROVE IsDecision(d)
  BY RuntimeAssumption DEF RuntimeAssumption, IsDecision

LEMMA ObservedTyped ==
    ASSUME TypeOK, NEW context \in Contexts
    PROVE  IsSnapshot(Observed(context)) /\ Observed(context).available = free
<1>1. context.live \in BOOLEAN
  BY RuntimeAssumption DEF RuntimeAssumption
<1>2. QED
  BY <1>1 DEF TypeOK, Observed, IsSnapshot

LEMMA CurrentTyped ==
    ASSUME Typed
    PROVE  /\ IsSnapshot(CurrentSnapshot)
           /\ CurrentSnapshot.available = snapshot.available
           /\ safety = "Killed" => CurrentSnapshot.safety = "Killed"
  BY DEF Typed, IsSnapshot, CurrentSnapshot

LEMMA InitIInv == Init => IInv
<1> SUFFICES ASSUME Init PROVE IInv
  OBVIOUS
<1>a. decision \in Decisions
  BY RuntimeAssumption DEF RuntimeAssumption, Init
<1>b. DOMAIN snapshot.held = Instruments /\ snapshot.available \in Nat
  BY RuntimeAssumption DEF RuntimeAssumption, Init, Observed
<1>c. orders \in Seq(Orders)
  BY DEF Init
<1>1. TypeOK
  BY <1>a, <1>b, <1>c, RuntimeAssumption
  DEF RuntimeAssumption, Init, TypeOK, SafetyStates, Stages, NotEvaluated, Decided
<1>2. IsSnapshot(snapshot)
  BY <1>1, ObservedTyped, RuntimeAssumption DEF RuntimeAssumption, Init
<1>3. Planned
  BY DEF Init, Planned, Evaluated
<1>4. QED
  BY <1>1, <1>2, <1>3, RuntimeAssumption
  DEF RuntimeAssumption, Init, IInv, Typed, Funded, Current, Recorded, ReserveUntouched,
      KilledCallsBuyNothing, RecordedBeforePlaced

\* An order the engine records is of a decision that was approved.
LEMMA PlacedOrderTyped ==
    ASSUME IInv, stage = "planned", NEW state \in {"Acknowledged", "Rejected", "Unknown"},
           NEW fate \in {"Resting", "Filled", "None"}
    PROVE  [action |-> decision.action, instrument |-> decision.instrument,
            size |-> risk.size, state |-> state, fate |-> fate,
            trail |-> trail, killed |-> killedCall] \in Orders
<1>1. IsApproved(risk) /\ risk # NotEvaluated
  BY DEF IInv, Planned, IsApproved, NotEvaluated, Decided
<1>2. risk = Evaluate(decision, snapshot) /\ IsDecision(decision) /\ IsSnapshot(snapshot)
  BY <1>1, DecisionsTyped DEF IInv, Planned, Evaluated, Typed, TypeOK
<1>3. decision.action \in {"Buy", "Sell"} /\ decision.instrument \in Instruments
  BY <1>1, <1>2, ApprovedActions DEF IsDecision
<1>4. QED
  BY <1>3 DEF IInv, Typed, TypeOK, Orders

\* What a planned BUY spends is beyond the reserve, and none is planned by a
\* call that found the store Killed.
LEMMA PlannedBuy ==
    ASSUME IInv, stage = "planned", decision.action = "Buy"
    PROVE  risk.size <= free - MinimumCashReserve /\ ~killedCall
<1>1. IsApproved(risk) /\ risk # NotEvaluated
  BY DEF IInv, Planned, IsApproved, NotEvaluated, Decided
<1>2. risk = Evaluate(decision, snapshot) /\ IsDecision(decision) /\ IsSnapshot(snapshot)
  BY <1>1, DecisionsTyped DEF IInv, Planned, Evaluated, Typed, TypeOK
<1>3. risk.size <= snapshot.available - MinimumCashReserve /\ snapshot.available <= free
  BY <1>1, <1>2, ApprovedBuyIsFunded DEF IInv, Funded
<1>4. risk.size \in Nat /\ snapshot.available \in Nat /\ free \in Nat /\ MinimumCashReserve \in Nat
  BY RiskConfigAssumption DEF RiskConfigAssumption, IInv, Typed, TypeOK, IsSnapshot
<1>5. risk.size <= free - MinimumCashReserve
  BY <1>3, <1>4
<1>6. ~killedCall
  BY <1>1, <1>2, KilledApprovesNoBuy DEF IInv, Current
<1>7. QED
  BY <1>5, <1>6
--------------------------------------------------------------------------------
(* One lemma per action *)

LEMMA ObserveIInv == ASSUME IInv, NEW d \in Decisions, Observe(d) PROVE IInv'
<1>1. PICK context \in Contexts : snapshot' = Observed(context)
  BY DEF Observe
<1>2. IsSnapshot(snapshot') /\ snapshot'.available = free
  BY <1>1, ObservedTyped DEF IInv, Typed
<1>3. TypeOK'
  BY <1>2 DEF Observe, IInv, Typed, TypeOK, account, IsSnapshot, NotEvaluated, Decided, Stages
<1>4. Planned'
  BY DEF Observe, Planned, Evaluated, NotEvaluated
<1>5. Typed' /\ Funded'
  BY <1>2, <1>3 DEF Observe, Typed, IsSnapshot, Funded, account, TypeOK
<1>6. QED
  BY <1>4, <1>5
  DEF Observe, IInv, account, Current, Recorded, ReserveUntouched, KilledCallsBuyNothing,
      RecordedBeforePlaced

\* Both entry points read the safety state and evaluate the decision.
LEMMA EvaluateIInv ==
    ASSUME IInv, stage = "observed", snapshot' = CurrentSnapshot,
           risk' = Evaluate(decision, snapshot'), killedCall' = (safety = "Killed"),
           UNCHANGED <<safety, decision, orders, complete, account>>,
           stage' \in {"planned", "evaluated", "idle"},
           stage' = "planned" => IsApproved(risk') /\ trail' = {},
           stage' = "evaluated" => trail' = {"projected"},
           trail' \in {{}, {"projected"}}
    PROVE  IInv'
<1>1. /\ IsSnapshot(snapshot')
      /\ snapshot'.available = snapshot.available
      /\ safety = "Killed" => snapshot'.safety = "Killed"
  BY CurrentTyped DEF IInv
<1>2. risk'.outcome \in {"NoAction", "Approved", "ApprovedWithConstraints", "Rejected"}
      /\ risk'.size \in Nat
  BY <1>1, EvaluateTypes, DecisionsTyped DEF IInv, Typed, TypeOK
<1>3. TypeOK'
  BY <1>1, <1>2 DEF IInv, Typed, TypeOK, account, IsSnapshot, Stages
<1>4. Typed' /\ Funded'
  BY <1>1, <1>3 DEF IInv, Typed, IsSnapshot, Funded, account
<1>5. Planned' /\ Current' /\ Recorded'
  BY <1>1 DEF Planned, Current, Recorded
<1>6. QED
  BY <1>4, <1>5 DEF IInv, account, ReserveUntouched, KilledCallsBuyNothing, RecordedBeforePlaced

LEMMA ProcessIInv == ASSUME IInv, NEW quote, Process(quote) PROVE IInv'
  BY EvaluateIInv DEF Process, IInv, Recorded

LEMMA ProcessWithProjectionIInv == ASSUME IInv, ProcessWithProjection PROVE IInv'
  BY EvaluateIInv DEF ProcessWithProjection

LEMMA RecordRiskIInv == ASSUME IInv, NEW quote, RecordRisk(quote) PROVE IInv'
<1>1. TypeOK'
  BY DEF RecordRisk, IInv, Typed, TypeOK, account, Stages
<1>2. QED
  BY <1>1
  DEF RecordRisk, IInv, Typed, IsSnapshot, Funded, Planned, Evaluated, NotEvaluated, Current,
      Recorded, ReserveUntouched, KilledCallsBuyNothing, RecordedBeforePlaced, account

LEMMA RecordPlanIInv == ASSUME IInv, RecordPlan PROVE IInv'
<1>1. TypeOK'
  BY DEF RecordPlan, IInv, Typed, TypeOK, account, Stages
<1>2. QED
  BY <1>1
  DEF RecordPlan, IInv, Typed, IsSnapshot, Funded, Planned, Evaluated, NotEvaluated, Current,
      Recorded, ReserveUntouched, KilledCallsBuyNothing, RecordedBeforePlaced, account

\* Ending the call, with or without a change to the gate, disturbs nothing.
LEMMA CallEndsIInv ==
    ASSUME IInv, stage' = "idle", complete' \in BOOLEAN,
           UNCHANGED <<safety, call, orders, account>>
    PROVE  IInv'
<1>1. TypeOK'
  BY DEF IInv, Typed, TypeOK, call, account, Stages
<1>2. QED
  BY <1>1
  DEF IInv, Typed, IsSnapshot, Funded, Planned, Evaluated, NotEvaluated, Current, Recorded,
      ReserveUntouched, KilledCallsBuyNothing, RecordedBeforePlaced, call, account

LEMMA RefusalsIInv ==
    ASSUME IInv, RecordFails \/ ExecuteRefused \/ ExecuteUnavailable
    PROVE  IInv'
  BY CallEndsIInv
  DEF RecordFails, ExecuteRefused, ExecuteUnavailable, IInv, Typed, TypeOK

LEMMA ExecuteIInv ==
    ASSUME IInv, NEW state \in {"Acknowledged", "Rejected", "Unknown"},
           NEW fate \in {"Resting", "Filled", "None"}, Execute(state, fate)
    PROVE  IInv'
<1> DEFINE order == [action |-> decision.action, instrument |-> decision.instrument,
                     size |-> risk.size, state |-> state, fate |-> fate,
                     trail |-> trail, killed |-> killedCall]
<1>1. stage = "planned" /\ orders' = Append(orders, order)
  BY DEF Execute
<1>2. order \in Orders
  BY <1>1, PlacedOrderTyped
<1>3. orders \in Seq(Orders)
  BY DEF IInv, Typed, TypeOK
<1> HIDE DEF order
<1>4. /\ orders' \in Seq(Orders)
      /\ Len(orders') = Len(orders) + 1
      /\ \A n \in 1..Len(orders) : orders'[n] = orders[n]
      /\ orders'[Len(orders) + 1] = order
  BY <1>1, <1>2, <1>3, AppendProperties
<1>5. free' \in Nat /\ free' >= MinimumCashReserve
  <2>1. MinimumCashReserve \in Nat /\ free \in Nat /\ risk.size \in Nat
        /\ free >= MinimumCashReserve
    BY RiskConfigAssumption DEF RiskConfigAssumption, IInv, Typed, TypeOK, ReserveUntouched
  <2>2. decision.action = "Buy" => risk.size <= free - MinimumCashReserve
    BY <1>1, PlannedBuy
  <2>3. QED
    BY <2>1, <2>2 DEF Execute
<1>6. TypeOK'
  BY <1>4, <1>5 DEF Execute, IInv, Typed, TypeOK, call, Stages
<1>7. KilledCallsBuyNothing'
  <2>1. order.killed => order.action # "Buy"
    BY <1>1, PlannedBuy DEF order
  <2>2. QED
    BY <1>3, <1>4, <2>1 DEF IInv, KilledCallsBuyNothing
<1>8. RecordedBeforePlaced'
  <2>1. "projected" \in order.trail => {"risk", "plan"} \subseteq order.trail
    BY <1>1 DEF order, IInv, Recorded
  <2>2. QED
    BY <1>3, <1>4, <2>1 DEF IInv, RecordedBeforePlaced
<1>9. Funded' /\ Current' /\ Planned' /\ Typed' /\ Recorded'
  <2>1. orders' # <<>>
    BY <1>3, <1>4
  <2>2. QED
    BY <1>6, <2>1
    DEF Execute, IInv, Typed, IsSnapshot, Funded, Current, Planned, Evaluated, NotEvaluated,
        Recorded, call
<1>10. QED
  BY <1>5, <1>6, <1>7, <1>8, <1>9 DEF IInv, ReserveUntouched

\* An order updated in place: its action and what is recorded of it are kept.
LEMMA UpdatedOrderIInv ==
    ASSUME IInv, NEW n \in 1..Len(orders), NEW order \in Orders,
           orders' = [orders EXCEPT ![n] = order],
           order.action = orders[n].action, order.killed = orders[n].killed,
           orders[n].trail \subseteq order.trail,
           "projected" \in order.trail => "projected" \in orders[n].trail
    PROVE  /\ orders' \in Seq(Orders)
           /\ KilledCallsBuyNothing'
           /\ RecordedBeforePlaced'
           /\ orders' # <<>>
<1>1. orders \in Seq(Orders)
  BY DEF IInv, Typed, TypeOK
<1>2. orders' \in Seq(Orders) /\ Len(orders') = Len(orders)
      /\ \A m \in 1..Len(orders) : orders'[m] = IF m = n THEN order ELSE orders[m]
  BY <1>1, ExceptSeq
<1>3. QED
  BY <1>1, <1>2 DEF IInv, KilledCallsBuyNothing, RecordedBeforePlaced

LEMMA RecordReceiptIInv == ASSUME IInv, RecordReceipt PROVE IInv'
<1>1. orders \in Seq(Orders) /\ orders # <<>>
  BY DEF RecordReceipt, IInv, Typed, TypeOK, Recorded
<1>2. Len(orders) \in 1..Len(orders)
  BY <1>1
<1>3. orders[Len(orders)] \in Orders
  BY <1>1, <1>2
<1> DEFINE order == [orders[Len(orders)] EXCEPT !.trail = @ \cup {"receipt"}]
<1>4. /\ order \in Orders
      /\ order.action = orders[Len(orders)].action
      /\ order.killed = orders[Len(orders)].killed
      /\ order.trail = orders[Len(orders)].trail \cup {"receipt"}
  BY <1>3 DEF Orders
<1>5. orders' = [orders EXCEPT ![Len(orders)] = order]
  BY <1>1, <1>2 DEF RecordReceipt
<1> HIDE DEF order
<1>6. orders' \in Seq(Orders) /\ KilledCallsBuyNothing' /\ RecordedBeforePlaced'
  BY <1>2, <1>4, <1>5, UpdatedOrderIInv
<1>7. QED
  BY <1>6
  DEF RecordReceipt, IInv, Typed, TypeOK, IsSnapshot, Funded, Planned, Evaluated, NotEvaluated,
      Current, Recorded, ReserveUntouched, call, account, Stages

LEMMA KillIInv == ASSUME IInv, Kill PROVE IInv'
<1>1. TypeOK'
  BY DEF Kill, IInv, Typed, TypeOK, call, account, SafetyStates
<1>2. QED
  BY <1>1
  DEF Kill, IInv, Typed, IsSnapshot, Funded, Planned, Evaluated, NotEvaluated, Current, Recorded,
      ReserveUntouched, KilledCallsBuyNothing, RecordedBeforePlaced, call, account

\* Fills only add to the free cash.
LEMMA FillIInv == ASSUME IInv, NEW n \in 1..Len(orders), Fill(n) PROVE IInv'
<1>1. orders \in Seq(Orders) /\ orders[n] \in Orders
  BY DEF IInv, Typed, TypeOK
<1> DEFINE order == [orders[n] EXCEPT !.fate = "Filled"]
<1>2. /\ order \in Orders
      /\ order.action = orders[n].action
      /\ order.killed = orders[n].killed
      /\ order.trail = orders[n].trail
  BY <1>1 DEF Orders
<1>3. orders' = [orders EXCEPT ![n] = order]
  BY <1>1 DEF Fill
<1> HIDE DEF order
<1>4. orders' \in Seq(Orders) /\ KilledCallsBuyNothing' /\ RecordedBeforePlaced' /\ orders' # <<>>
  BY <1>2, <1>3, UpdatedOrderIInv
<1>5. orders[n].size \in Nat /\ orders[n].instrument \in Instruments
      /\ held[orders[n].instrument] \in Nat /\ free \in Nat
  BY <1>1 DEF Orders, IInv, Typed, TypeOK
<1>6. held' \in [Instruments -> Nat] /\ free' \in Nat /\ free' >= free
  <2>1. CASE orders[n].action = "Buy"
    <3>1. /\ held' = [held EXCEPT ![orders[n].instrument] = @ + orders[n].size]
          /\ free' = free
      BY <2>1 DEF Fill
    <3>2. QED
      BY <1>5, <3>1 DEF IInv, Typed, TypeOK
  <2>2. CASE orders[n].action # "Buy"
    <3>1. /\ orders[n].size <= held[orders[n].instrument]
          /\ held' = [held EXCEPT ![orders[n].instrument] = @ - orders[n].size]
          /\ free' = free + orders[n].size
      BY <2>2 DEF Fill
    <3>2. QED
      BY <1>5, <3>1 DEF IInv, Typed, TypeOK
  <2>3. QED
    BY <2>1, <2>2
<1>7. TypeOK'
  BY <1>4, <1>6 DEF Fill, IInv, Typed, TypeOK, call
<1>8. Funded' /\ ReserveUntouched'
  BY <1>5, <1>6, RiskConfigAssumption
  DEF RiskConfigAssumption, Fill, IInv, Typed, IsSnapshot, Funded, ReserveUntouched, call
<1>9. QED
  BY <1>4, <1>7, <1>8
  DEF Fill, IInv, Typed, IsSnapshot, Planned, Evaluated, NotEvaluated, Current, Recorded, call

LEMMA ReconcileIInv == ASSUME IInv, NEW n \in 1..Len(orders), Reconcile(n) PROVE IInv'
<1>1. orders \in Seq(Orders) /\ orders[n] \in Orders
  BY DEF IInv, Typed, TypeOK
<1> DEFINE state == IF orders[n].fate = "None" THEN "Rejected" ELSE "Acknowledged"
           order == [orders[n] EXCEPT !.state = state]
<1>2. /\ order \in Orders
      /\ order.action = orders[n].action
      /\ order.killed = orders[n].killed
      /\ order.trail = orders[n].trail
  BY <1>1 DEF Orders
<1>3. orders' = [orders EXCEPT ![n] = order]
  BY <1>1 DEF Reconcile
<1> HIDE DEF order
<1>4. orders' \in Seq(Orders) /\ KilledCallsBuyNothing' /\ RecordedBeforePlaced' /\ orders' # <<>>
  BY <1>2, <1>3, UpdatedOrderIInv
<1>5. complete' \in BOOLEAN
  BY DEF Reconcile
<1>6. TypeOK'
  BY <1>4, <1>5 DEF Reconcile, IInv, Typed, TypeOK, call, account
<1>7. QED
  BY <1>4, <1>6
  DEF Reconcile, IInv, Typed, IsSnapshot, Funded, Planned, Evaluated, NotEvaluated, Current,
      Recorded, ReserveUntouched, call, account

LEMMA StutterIInv == ASSUME IInv, UNCHANGED vars PROVE IInv'
  BY DEF IInv, Typed, TypeOK, IsSnapshot, Funded, Planned, Evaluated, NotEvaluated, Current,
     Recorded, ReserveUntouched, KilledCallsBuyNothing, RecordedBeforePlaced, vars, call, account
--------------------------------------------------------------------------------
LEMMA NextIInv == ASSUME IInv, [Next]_vars PROVE IInv'
<1>1. ASSUME NEW d \in Decisions, Observe(d) PROVE IInv'
  BY <1>1, ObserveIInv
<1>2. ASSUME NEW quote \in Quotes, Process(quote) \/ RecordRisk(quote) PROVE IInv'
  BY <1>2, ProcessIInv, RecordRiskIInv
<1>3. ASSUME NEW state \in {"Acknowledged", "Rejected", "Unknown"},
             NEW fate \in {"Resting", "None"}, Execute(state, fate)
      PROVE  IInv'
  BY <1>3, ExecuteIInv
<1>4. ASSUME NEW n \in 1..Len(orders), Fill(n) \/ Reconcile(n) PROVE IInv'
  BY <1>4, FillIInv, ReconcileIInv
<1>5. QED
  BY <1>1, <1>2, <1>3, <1>4, ProcessWithProjectionIInv, RecordPlanIInv, RefusalsIInv,
     RecordReceiptIInv, KillIInv, StutterIInv
  DEF Next

LEMMA Invariant == Spec => []IInv
<1>1. IInv /\ [Next]_vars => IInv'
  BY NextIInv
<1>2. QED
  BY InitIInv, <1>1, PTL DEF Spec

\* The runtime's variables keep to their types in every reachable state.
THEOREM TypeCorrect == Spec => []TypeOK
<1>1. IInv => TypeOK
  BY DEF IInv, Typed
<1>2. QED
  BY Invariant, <1>1, PTL

\* Whatever fills, refusals and lost answers come between the calls, no BUY
\* that process lets through reaches into the minimum cash reserve.
THEOREM ReserveIsKept == Spec => []ReserveUntouched
<1>1. IInv => ReserveUntouched
  BY DEF IInv
<1>2. QED
  BY Invariant, <1>1, PTL

\* A call that finds the store Killed places no BUY, whatever snapshot it got.
THEOREM KilledCallsPlaceNoBuy == Spec => []KilledCallsBuyNothing
<1>1. IInv => KilledCallsBuyNothing
  BY DEF IInv
<1>2. QED
  BY Invariant, <1>1, PTL

\* No order of process_with_projection is placed before its risk decision and
\* its plan are recorded.
THEOREM RecordingComesFirst == Spec => []RecordedBeforePlaced
<1>1. IInv => RecordedBeforePlaced
  BY DEF IInv
<1>2. QED
  BY Invariant, <1>1, PTL

\* A valid protective exit of an open position is approved in full.
THEOREM ExitsAreApproved == Spec => []ExitsStayOpen
<1>1. ASSUME IInv PROVE ExitsStayOpen
  <2>1. IsDecision(decision) /\ IsSnapshot(snapshot)
    BY <1>1, DecisionsTyped DEF IInv, Typed, TypeOK
  <2>2. Evaluated => risk = Evaluate(decision, snapshot)
    BY <1>1 DEF IInv, Planned
  <2>3. QED
    BY <2>1, <2>2, ProtectiveExitIsApproved DEF ExitsStayOpen
<1>2. QED
  BY Invariant, <1>1, PTL
================================================================================
