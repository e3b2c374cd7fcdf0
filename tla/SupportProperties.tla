------------------------- MODULE SupportProperties -------------------------
(***************************************************************************)
(* What ties the decisions about an order to time, to the agreements and   *)
(* to what the radar shows of the same data pack.                          *)
(***************************************************************************)
EXTENDS SupportRules

CONSTANT Ahead      \* bound: by how much the snapshot of an unchanged pack is moved ahead

Later(db) == {[db EXCEPT !.snapshot = at] : at \in {db.snapshot + d : d \in Ahead}}

\* As time passes over unchanged records a CONFIDENT decision stays what it is, unless the
\* account's agreement starts or ends: then the new decision asks for a review instead of
\* quietly being another one.  A delay that still grows is never CONFIDENT (ADR-006,
\* service_credit.py; applicability.py: "verify before relying on it").
ConfidentIsFinal ==
    \A o \in DOMAIN data.orders : \A db \in Later(data) :
        /\ LET now == evaluate_cancellation(data, o)
               then == evaluate_cancellation(db, o)
           IN  now.trust = "CONFIDENT" => then = now \/ then.trust = "ESCALATE"
        /\ LET now == evaluate_service_credit(data, o)
               then == evaluate_service_credit(db, o)
           IN  now.trust = "CONFIDENT" => then = now \/ then.trust = "ESCALATE"

\* The pack as it would be if no agreement's term covered it.
WithoutAgreements(db) ==
    [db EXCEPT !.terms = [a \in Overrides |->
        [effective_date |-> db.snapshot \div DAY + 1, expiry_date |-> NoExpiry]]]

\* Whether an order can be cancelled never depends on an agreement, only what it costs, and
\* that only while the order is BOOKED: a waiver does not reach past the pickup
\* (cancellation.py: "never extends past pickup, never changes DELIVERED, never changes DRAFT").
WaiverStopsAtPickup ==
    \A o \in DOMAIN data.orders :
        LET without == evaluate_cancellation(WithoutAgreements(data), o)
            with == evaluate_cancellation(data, o)
        IN  /\ with.decision = without.decision
            /\ data.orders[o].status # "BOOKED" => with = without

\* Two engines over one pack agree: whoever is told that a booked order that nobody picked
\* up or asked to cancel earns a credit sees that order among the overdue pickups of the radar,
\* at once as one of high severity, and the credit is not called final. Nothing is said of
\* orders to be cancelled, which the rule's docstring excludes and its code reports.
CreditMeansOverdue ==
    \A u \in Users :
        /\ Fresh(panel[u]) /\ panel[u].response.status = "200"
        /\ "overdue_pickup" \in types_to_run(panel[u].selection)
        => \A o \in search_orders(data, panel[u].scope) :
              LET order == data.orders[o]
                  credit == evaluate_service_credit(data, o)
              IN  /\ order.status = "BOOKED" /\ order.pickup_actual_at = NoTime
                  /\ order.cancellation_requested_at = NoTime
                  /\ credit.eligible
                  => /\ credit.trust # "CONFIDENT"
                     /\ \E a \in panel[u].response.alerts :
                           /\ a.alert_type = "overdue_pickup" /\ a.severity = "high"
                           /\ o \in a.representative_records

=============================================================================
