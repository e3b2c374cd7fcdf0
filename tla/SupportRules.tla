---------------------------- MODULE SupportRules ----------------------------
(***************************************************************************)
(* What an order costs to cancel (domain/cancellation.py) and whether its  *)
(* late pickup earns a service credit (domain/service_credit.py): pure     *)
(* operators over the data packs and orders of Radar.  A decision is what  *)
(* the caller may act on; evidence and wording are left out, the amounts   *)
(* are whole rupees and the times of the unit of SlaRules.                 *)
(***************************************************************************)
EXTENDS Radar

CONSTANTS
    FeeOverrides,       \* accounts with a CANCELLATION_FEE entry in AGREEMENT_OVERRIDES
    CreditOverrides,    \* and with a SERVICE_CREDIT_THRESHOLD_AND_AMOUNT entry
    FeeRules,           \* source -> its CancellationFeeRule
    CreditRules,        \* source -> its ServiceCreditRule
    MANAGER_APPROVAL,   \* _MANAGER_APPROVAL_THRESHOLD_INR
    NoAmount            \* fee_inr, credit_inr or delay_hours is None

FeeRule == [kind: {"threshold_fee", "full_waiver"}, threshold: Nat, fee_inr: Nat]
CreditRule ==
    [kind: {"percentage_with_cap", "fixed_amount"}, threshold: Nat, cap_inr: Nat,
     percentage: Nat, fixed_amount_inr: Nat]

ASSUME SupportConstants ==
    /\ FeeOverrides \subseteq Overrides /\ CreditOverrides \subseteq Overrides
    /\ FeeRules \in [FeeOverrides \cup {Policy} -> FeeRule]
    /\ CreditRules \in [CreditOverrides \cup {Policy} -> CreditRule]
    /\ MANAGER_APPROVAL \in Nat

\* Mutant: an agreement whose term is over is replaced without a word.
governing_Silent(db, overriding, account) ==
    IF account \in overriding /\ is_active_at(db.terms[account], db.snapshot \div DAY)
      THEN [source |-> account, needs_human_review |-> FALSE]
      ELSE [source |-> Policy, needs_human_review |-> FALSE]

\* resolve_applicability for a topic on which the accounts of overriding have a clause.
governing(db, overriding, account) ==
    IF account \notin overriding
      THEN [source |-> Policy, needs_human_review |-> FALSE]
    ELSE IF is_active_at(db.terms[account], db.snapshot \div DAY)
      THEN [source |-> account, needs_human_review |-> FALSE]
      ELSE [source |-> Policy, needs_human_review |-> TRUE]

trust_from(review_required, has_assumptions) ==
    IF review_required THEN "ESCALATE" ELSE IF has_assumptions THEN "CONDITIONAL" ELSE "CONFIDENT"

-----------------------------------------------------------------------------
apply_fee_rule(rule, elapsed) ==
    IF rule.kind = "full_waiver" \/ elapsed <= rule.threshold THEN 0 ELSE rule.fee_inr

Cancellation(decision, fee, rule, trust) ==
    [decision |-> decision, fee_inr |-> fee, applicable_rule |-> rule, trust |-> trust]

\* Mutant: an agreement's waiver is looked for before the status of the order.
evaluate_cancellation_WaiverFirst(db, o) ==
    LET order == db.orders[o]
        clause == governing(db, FeeOverrides, order.account)
        fee == apply_fee_rule(FeeRules[clause.source],
                              order.cancellation_requested_at - order.booked_at)
    IN  IF FeeRules[clause.source].kind = "full_waiver"
          THEN Cancellation("can_cancel", 0, clause.source, "CONFIDENT")
        ELSE IF order.status \in {"DELIVERED", "PICKED_UP"}
          THEN Cancellation("cannot_cancel", NoAmount, Policy, "CONFIDENT")
        ELSE IF order.status = "DRAFT"
          THEN Cancellation("can_cancel", 0, Policy, "CONFIDENT")
        ELSE IF order.cancellation_requested_at = NoTime
          THEN Cancellation("no_action_needed", NoAmount, Policy, "CONFIDENT")
        ELSE Cancellation("can_cancel", fee, clause.source,
                          trust_from(clause.needs_human_review, FALSE))

\* The status decides; the fee of a booked order that is to be cancelled is the clause's.
evaluate_cancellation(db, o) ==
    LET order == db.orders[o]
        clause == governing(db, FeeOverrides, order.account)
        fee == apply_fee_rule(FeeRules[clause.source],
                              order.cancellation_requested_at - order.booked_at)
    IN  IF order.status \in {"DELIVERED", "PICKED_UP"}
          THEN Cancellation("cannot_cancel", NoAmount, Policy, "CONFIDENT")
        ELSE IF order.status = "DRAFT"
          THEN Cancellation("can_cancel", 0, Policy, "CONFIDENT")
        ELSE IF order.cancellation_requested_at = NoTime
          THEN Cancellation("no_action_needed", NoAmount, Policy, "CONFIDENT")
        ELSE Cancellation("can_cancel", fee, clause.source,
                          trust_from(clause.needs_human_review, FALSE))

-----------------------------------------------------------------------------
\* Mutant: the delay counts from the booking.
delay_SinceBooking(db, order) ==
    (IF order.pickup_actual_at # NoTime THEN order.pickup_actual_at ELSE db.snapshot)
      - order.booked_at

\* Without a pickup the delay goes on until the snapshot.
delay(db, order) ==
    (IF order.pickup_actual_at # NoTime THEN order.pickup_actual_at ELSE db.snapshot)
      - order.pickup_window_end

credit_amount(rule, shipment_fee_inr) ==
    LET share == (rule.percentage * shipment_fee_inr) \div 100 IN
    IF rule.kind = "fixed_amount" THEN rule.fixed_amount_inr
    ELSE IF share < rule.cap_inr THEN share ELSE rule.cap_inr

ServiceCredit(eligible, credit, rule, hours, trust) ==
    [eligible |-> eligible, credit_inr |-> credit, applicable_rule |-> rule,
     delay_hours |-> hours, trust |-> trust]

evaluate_service_credit(db, o) ==
    LET order == db.orders[o]
        clause == governing(db, CreditOverrides, order.account)
        rule == CreditRules[clause.source]
        eligible == delay(db, order) > rule.threshold
        credit == credit_amount(rule, order.shipment_fee_inr)
        review == clause.needs_human_review \/ (eligible /\ credit > MANAGER_APPROVAL)
    IN  IF ~order.carrier_fault \/ order.customer_fault
          THEN ServiceCredit(FALSE, NoAmount, Policy, NoAmount, "CONFIDENT")
          ELSE ServiceCredit(eligible, IF eligible THEN credit ELSE NoAmount, clause.source,
                             delay(db, order),
                             trust_from(review, order.pickup_actual_at = NoTime))

=============================================================================
