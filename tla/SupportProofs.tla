---------------------------- MODULE SupportProofs ----------------------------
(***************************************************************************)
(* What the support rules promise, for every data pack, every agreement,   *)
(* all fees, thresholds and caps, and however far time moves on.           *)
(***************************************************************************)
EXTENDS SupportProperties, RadarProofs

-----------------------------------------------------------------------------
(* The rows and the clause a decision looks at *)

\* Moving the snapshot, or the agreements' terms, changes nothing else of a pack.
LEMMA OnlySnapshotMoves ==
    ASSUME NEW db, IsDataset(db), NEW later \in Later(db)
    PROVE  later.orders = db.orders /\ later.terms = db.terms
BY DEF IsDataset, Later

LEMMA OnlyTermsMove ==
    ASSUME NEW db, IsDataset(db)
    PROVE  WithoutAgreements(db).orders = db.orders
BY DEF IsDataset, WithoutAgreements

LEMMA OrderTypes ==
    ASSUME NEW db, IsDataset(db), NEW o \in DOMAIN db.orders
    PROVE  db.orders[o] \in Order
BY DEF IsDataset

\* Trust is CONFIDENT only without a review and without an assumption.
LEMMA TrustFrom ==
    ASSUME NEW review \in BOOLEAN, NEW assumed \in BOOLEAN
    PROVE  /\ trust_from(review, assumed) = "CONFIDENT" <=> ~review /\ ~assumed
           /\ review => trust_from(review, assumed) = "ESCALATE"
BY DEF trust_from

\* A clause that needs no review is replaced only by one that does, as long as the terms of
\* the agreements stay what they are.
LEMMA ClauseStaysOrAsks ==
    ASSUME NEW db, NEW later, later.terms = db.terms, NEW overriding, NEW account,
           ~governing(db, overriding, account).needs_human_review
    PROVE  \/ governing(later, overriding, account) = governing(db, overriding, account)
           \/ governing(later, overriding, account).needs_human_review
BY DEF governing

LEMMA ReviewIsBoolean ==
    ASSUME NEW db, NEW overriding, NEW account
    PROVE  governing(db, overriding, account).needs_human_review \in BOOLEAN
BY DEF governing

-----------------------------------------------------------------------------
(* Time *)

LEMMA CancellationIsFinal ==
    ASSUME NEW db, NEW later, later.terms = db.terms, later.orders = db.orders, NEW o,
           evaluate_cancellation(db, o).trust = "CONFIDENT"
    PROVE  \/ evaluate_cancellation(later, o) = evaluate_cancellation(db, o)
           \/ evaluate_cancellation(later, o).trust = "ESCALATE"
<1> DEFINE order == db.orders[o]
           now == governing(db, FeeOverrides, order.account)
           then == governing(later, FeeOverrides, order.account)
<1>1. CASE order.status \in {"DELIVERED", "PICKED_UP", "DRAFT"} \/ order.cancellation_requested_at = NoTime
  BY <1>1 DEF evaluate_cancellation
<1>2. CASE /\ order.status \notin {"DELIVERED", "PICKED_UP", "DRAFT"}
           /\ order.cancellation_requested_at # NoTime
  <2>1. /\ evaluate_cancellation(db, o).trust = trust_from(now.needs_human_review, FALSE)
        /\ evaluate_cancellation(later, o).trust = trust_from(then.needs_human_review, FALSE)
    BY <1>2 DEF evaluate_cancellation, Cancellation
  <2>2. ~now.needs_human_review
    BY <2>1, TrustFrom, ReviewIsBoolean
  <2>3. CASE then = now
    BY <2>3 DEF evaluate_cancellation
  <2>4. CASE then.needs_human_review
    BY <2>1, <2>4, TrustFrom, ReviewIsBoolean, Zenon
  <2>5. QED
    BY <2>2, <2>3, <2>4, ClauseStaysOrAsks
<1>3. QED
  BY <1>1, <1>2

LEMMA CreditIsFinal ==
    ASSUME NEW db, NEW later, later.terms = db.terms, later.orders = db.orders, NEW o,
           evaluate_service_credit(db, o).trust = "CONFIDENT"
    PROVE  \/ evaluate_service_credit(later, o) = evaluate_service_credit(db, o)
           \/ evaluate_service_credit(later, o).trust = "ESCALATE"
<1> DEFINE order == db.orders[o]
           now == governing(db, CreditOverrides, order.account)
           then == governing(later, CreditOverrides, order.account)
           assumed == order.pickup_actual_at = NoTime
           review(d, clause) ==
              \/ clause.needs_human_review
              \/ /\ delay(d, order) > CreditRules[clause.source].threshold
                 /\ credit_amount(CreditRules[clause.source], order.shipment_fee_inr) > MANAGER_APPROVAL
<1>1. CASE ~order.carrier_fault \/ order.customer_fault
  BY <1>1, Zenon DEF evaluate_service_credit
<1>2. CASE ~(~order.carrier_fault \/ order.customer_fault)
  <2>1. /\ evaluate_service_credit(db, o).trust = trust_from(review(db, now), assumed)
        /\ evaluate_service_credit(later, o).trust = trust_from(review(later, then), assumed)
    BY <1>2 DEF evaluate_service_credit, ServiceCredit
  <2>2. ~now.needs_human_review /\ ~assumed
    BY <2>1, TrustFrom, ReviewIsBoolean
  <2>3. delay(later, order) = delay(db, order)
    BY <2>2 DEF delay
  <2>4. CASE then = now
    BY <2>3, <2>4 DEF evaluate_service_credit
  <2>5. CASE then.needs_human_review
    BY <2>1, <2>5, TrustFrom, ReviewIsBoolean
  <2>6. QED
    BY <2>2, <2>4, <2>5, ClauseStaysOrAsks
<1>3. QED
  BY <1>1, <1>2

\* A decision that was called final stays, or asks for a review, however much time passes
\* (ADR-006 in service_credit.py; applicability.py).
THEOREM FinalStaysFinal == Spec => []ConfidentIsFinal
<1>1. ASSUME RadarInv PROVE ConfidentIsFinal
  <2>1. ASSUME NEW o \in DOMAIN data.orders, NEW db \in Later(data)
        PROVE  db.terms = data.terms /\ db.orders = data.orders
    BY <1>1, RadarConstants, OnlySnapshotMoves DEF RadarInv
  <2>2. QED
    BY <2>1, CancellationIsFinal, CreditIsFinal DEF ConfidentIsFinal
<1>2. QED
  BY <1>1, RadarInit, RadarStep, PTL DEF Spec

-----------------------------------------------------------------------------
(* Agreements *)

\* An agreement changes what a cancellation costs, and only before the pickup
\* (evaluate_cancellation looks at the status before it looks at the waiver).
THEOREM WaiversStopAtPickup == Spec => []WaiverStopsAtPickup
<1>1. ASSUME RadarInv PROVE WaiverStopsAtPickup
  <2> SUFFICES ASSUME NEW o \in DOMAIN data.orders
               PROVE  LET without == evaluate_cancellation(WithoutAgreements(data), o)
                          with == evaluate_cancellation(data, o)
                      IN  /\ with.decision = without.decision
                          /\ data.orders[o].status # "BOOKED" => with = without
    BY DEF WaiverStopsAtPickup
  <2>1. WithoutAgreements(data).orders = data.orders /\ data.orders[o] \in Order
    BY <1>1, RadarConstants, OnlyTermsMove, OrderTypes DEF RadarInv
  <2>2. data.orders[o].status \in {"DRAFT", "BOOKED", "PICKED_UP", "DELIVERED"}
    BY <2>1 DEF Order
  <2>3. QED
    BY <2>1, <2>2 DEF evaluate_cancellation, Cancellation
<1>2. QED
  BY <1>1, RadarInit, RadarStep, PTL DEF Spec

-----------------------------------------------------------------------------
(* Two engines *)

\* A booked order without a pickup whose delay exceeds any threshold is past its window.
LEMMA EligibleIsOverdue ==
    ASSUME NEW db, IsDataset(db), NEW o \in DOMAIN db.orders,
           db.orders[o].pickup_actual_at = NoTime, evaluate_service_credit(db, o).eligible
    PROVE  /\ db.orders[o].pickup_window_end < db.snapshot /\ db.orders[o].carrier_fault
           /\ evaluate_service_credit(db, o).trust # "CONFIDENT"
<1> DEFINE order == db.orders[o]
           clause == governing(db, CreditOverrides, order.account)
           rule == CreditRules[clause.source]
           review == clause.needs_human_review
                       \/ (delay(db, order) > rule.threshold
                             /\ credit_amount(rule, order.shipment_fee_inr) > MANAGER_APPROVAL)
<1>1. /\ order \in Order /\ order.pickup_window_end \in Int /\ db.snapshot \in Int
      /\ order.carrier_fault \in BOOLEAN
  BY OrderTypes DEF IsDataset, Order
<1>2. order.carrier_fault /\ ~order.customer_fault
  BY <1>1 DEF evaluate_service_credit, ServiceCredit
<1>3. delay(db, order) > rule.threshold
  BY <1>2 DEF evaluate_service_credit, ServiceCredit
<1>4. rule.threshold \in Nat
  <2>1. clause.source \in CreditOverrides \cup {Policy}
    BY DEF governing
  <2>2. rule \in CreditRule
    BY <2>1, SupportConstants
  <2>3. QED
    BY <2>2 DEF CreditRule
<1>5. delay(db, order) = db.snapshot - order.pickup_window_end
  BY DEF delay
<1>6. evaluate_service_credit(db, o).trust = trust_from(review, TRUE)
  BY <1>2 DEF evaluate_service_credit, ServiceCredit
<1>7. trust_from(review, TRUE) # "CONFIDENT"
  BY TrustFrom, ReviewIsBoolean
<1>8. order.pickup_window_end < db.snapshot
  <2>1. \A a, b \in Int, n \in Nat : a - b > n => b < a
    OBVIOUS
  <2>2. db.snapshot - order.pickup_window_end > rule.threshold
    BY <1>3, <1>5
  <2> HIDE DEF order, rule
  <2>3. QED
    BY <1>1, <1>4, <2>1, <2>2
<1>9. QED
  BY <1>2, <1>6, <1>7, <1>8

\* An order that nobody asked to cancel and that earns a credit for a pickup that has not
\* happened is on the radar's list of overdue pickups, at once with high severity (evaluate_service_credit and
\* detect_overdue_pickups, which compare the same columns in their own ways).
THEOREM CreditsAreOnTheRadar == Spec => []CreditMeansOverdue
<1>1. ASSUME RadarInv, NothingLostToDuplicates PROVE CreditMeansOverdue
  <2> SUFFICES ASSUME NEW u \in Users, Fresh(panel[u]), panel[u].response.status = "200",
                      "overdue_pickup" \in types_to_run(panel[u].selection),
                      NEW o \in search_orders(data, panel[u].scope),
                      data.orders[o].status = "BOOKED", data.orders[o].pickup_actual_at = NoTime,
                      data.orders[o].cancellation_requested_at = NoTime,
                      evaluate_service_credit(data, o).eligible
               PROVE  /\ evaluate_service_credit(data, o).trust # "CONFIDENT"
                      /\ \E a \in panel[u].response.alerts :
                            /\ a.alert_type = "overdue_pickup" /\ a.severity = "high"
                            /\ o \in a.representative_records
    BY DEF CreditMeansOverdue
  <2>1. IsDataset(data) /\ o \in DOMAIN data.orders
    BY <1>1, RadarConstants DEF RadarInv, search_orders
  <2>2. /\ data.orders[o].pickup_window_end < data.snapshot /\ data.orders[o].carrier_fault
        /\ evaluate_service_credit(data, o).trust # "CONFIDENT"
    BY <2>1, EligibleIsOverdue
  <2> DEFINE alert == Alert("overdue_pickup", "high", 0, "-", {o}, OrderAccounts(data, {o}))
  <2>3. alert \in detect_overdue_pickups(data, panel[u].scope)
    BY <2>2 DEF detect_overdue_pickups
  <2>4. alert \in Detected(data, panel[u].scope, panel[u].selection, panel[u].window)
    BY <2>3 DEF Detected, detect
  <2>5. alert \in panel[u].response.alerts
    BY <1>1, <2>4 DEF NothingLostToDuplicates
  <2>6. alert.alert_type = "overdue_pickup" /\ alert.severity = "high"
          /\ alert.representative_records = {o}
    BY DEF Alert
  <2>7. QED
    BY <2>2, <2>5, <2>6
<1>2. QED
  BY <1>1, RadarInit, RadarStep, NoFindingIsLost, PTL DEF Spec

=============================================================================
