---------------------------- MODULE RadarProofs ----------------------------
(***************************************************************************)
(* What the radar promises, for every data pack, every set of users and    *)
(* scopes, all thresholds, windows and selections.                         *)
(***************************************************************************)
EXTENDS Radar, FiniteSetTheorems, TLAPS

-----------------------------------------------------------------------------
(* Rows of other accounts do not matter. *)

\* An unrestricted search of what a scope lets through finds what a search in
\* that scope finds, with the same contents.
LEMMA SameRows ==
    ASSUME NEW db, NEW scope
    PROVE  /\ search_tickets(Visible(db, scope), Unrestricted) = search_tickets(db, scope)
           /\ search_orders(Visible(db, scope), Unrestricted) = search_orders(db, scope)
           /\ \A t \in search_tickets(db, scope) :
                 Visible(db, scope).tickets[t] = db.tickets[t]
           /\ \A o \in search_orders(db, scope) :
                 Visible(db, scope).orders[o] = db.orders[o]
BY DEF search_tickets, search_orders, allows_account, Visible

LEMMA SameOpen ==
    ASSUME NEW db, NEW scope
    PROVE  open_tickets(Visible(db, scope), Unrestricted) = open_tickets(db, scope)
BY SameRows DEF open_tickets

\* The deadline of a ticket depends on no other ticket.
LEMMA SameDeadline ==
    ASSUME NEW db, NEW scope, NEW t \in search_tickets(db, scope)
    PROVE  calculate_sla(Visible(db, scope), t) = calculate_sla(db, t)
<1> DEFINE V == Visible(db, scope)
<1>1. V.tickets[t] = db.tickets[t]
  BY SameRows
<1>2. V.terms = db.terms /\ V.plan = db.plan /\ V.sla_targets = db.sla_targets
        /\ V.snapshot = db.snapshot
  BY DEF Visible
<1> HIDE DEF V
<1>3. \A account : resolve_applicability(V, account) = resolve_applicability(db, account)
  BY <1>2 DEF resolve_applicability
<1>4. \A source, account, severity :
         Matching(V, source, account, severity) = Matching(db, source, account, severity)
  BY <1>2 DEF Matching
<1>5. \A source, account, severity :
         lookup_sla_target(V, source, account, severity)
           = lookup_sla_target(db, source, account, severity)
  BY <1>4 DEF lookup_sla_target
<1>6. \A ticket, minutes : elapsed_minutes(V, ticket, minutes) = elapsed_minutes(db, ticket, minutes)
  BY <1>2 DEF elapsed_minutes
<1>7. calculate_sla(V, t) = calculate_sla(db, t)
  BY <1>1, <1>3, <1>5, <1>6 DEF calculate_sla
<1>8. QED
  BY <1>7 DEF V

LEMMA SameComputable ==
    ASSUME NEW db, NEW scope
    PROVE  Computable(Visible(db, scope), Unrestricted) = Computable(db, scope)
<1>1. \A t \in open_tickets(db, scope) : calculate_sla(Visible(db, scope), t) = calculate_sla(db, t)
  BY SameDeadline DEF open_tickets
<1>2. QED
  BY <1>1, SameOpen DEF Computable

LEMMA SameAccounts ==
    ASSUME NEW db, NEW scope
    PROVE  /\ \A S \in SUBSET search_tickets(db, scope) :
                 TicketAccounts(Visible(db, scope), S) = TicketAccounts(db, S)
           /\ \A S \in SUBSET search_orders(db, scope) :
                 OrderAccounts(Visible(db, scope), S) = OrderAccounts(db, S)
<1>1. ASSUME NEW S \in SUBSET search_tickets(db, scope)
      PROVE  TicketAccounts(Visible(db, scope), S) = TicketAccounts(db, S)
  BY SameRows DEF TicketAccounts
<1>2. ASSUME NEW S \in SUBSET search_orders(db, scope)
      PROVE  OrderAccounts(Visible(db, scope), S) = OrderAccounts(db, S)
  BY SameRows DEF OrderAccounts
<1>3. QED
  BY <1>1, <1>2

LEMMA SameInWindow ==
    ASSUME NEW db, NEW scope, NEW window, NEW time
    PROVE  InWindow(Visible(db, scope), window, time) = InWindow(db, window, time)
BY DEF InWindow, Visible

LEMMA SameBreaches ==
    ASSUME NEW db, NEW scope
    PROVE  detect_sla_breaches(Visible(db, scope), Unrestricted) = detect_sla_breaches(db, scope)
<1> DEFINE V == Visible(db, scope)
<1>1. Computable(V, Unrestricted) = Computable(db, scope)
  BY SameComputable
<1>2. \A t \in Computable(db, scope) :
         /\ calculate_sla(V, t) = calculate_sla(db, t)
         /\ TicketAccounts(V, {t}) = TicketAccounts(db, {t})
  BY SameDeadline, SameAccounts DEF Computable, open_tickets
<1> HIDE DEF V
<1> DEFINE hits(d, sc) == {t \in Computable(d, sc) : breached(calculate_sla(d, t))}
           alert(d, t) ==
              Alert("sla_breach", IF calculate_sla(d, t).severity = "P1" THEN "critical" ELSE "high",
                    0, "-", {t}, TicketAccounts(d, {t}))
<1>3. \A d, sc : detect_sla_breaches(d, sc) = {alert(d, t) : t \in hits(d, sc)}
  BY DEF detect_sla_breaches
<1>4. hits(V, Unrestricted) = hits(db, scope)
  BY <1>1, <1>2
<1>5. \A t \in hits(db, scope) : alert(V, t) = alert(db, t)
  BY <1>2
<1> HIDE DEF hits, alert
<1>6. detect_sla_breaches(V, Unrestricted) = detect_sla_breaches(db, scope)
  BY <1>3, <1>4, <1>5
<1>7. QED
  BY <1>6 DEF V

LEMMA SameApproaching ==
    ASSUME NEW db, NEW scope
    PROVE  detect_sla_approaching(Visible(db, scope), Unrestricted)
             = detect_sla_approaching(db, scope)
<1> DEFINE V == Visible(db, scope)
<1>1. Computable(V, Unrestricted) = Computable(db, scope)
  BY SameComputable
<1>2. \A t \in Computable(db, scope) :
         /\ calculate_sla(V, t) = calculate_sla(db, t)
         /\ TicketAccounts(V, {t}) = TicketAccounts(db, {t})
  BY SameDeadline, SameAccounts DEF Computable, open_tickets
<1> HIDE DEF V
<1> DEFINE hits(d, sc) == {t \in Computable(d, sc) : Approaching(calculate_sla(d, t))}
           alert(d, t) ==
              Alert("sla_approaching", IF calculate_sla(d, t).severity = "P1" THEN "high" ELSE "medium",
                    0, "-", {t}, TicketAccounts(d, {t}))
<1>3. \A d, sc : detect_sla_approaching(d, sc) = {alert(d, t) : t \in hits(d, sc)}
  BY DEF detect_sla_approaching
<1>4. hits(V, Unrestricted) = hits(db, scope)
  BY <1>1, <1>2
<1>5. \A t \in hits(db, scope) : alert(V, t) = alert(db, t)
  BY <1>2
<1> HIDE DEF hits, alert
<1>6. detect_sla_approaching(V, Unrestricted) = detect_sla_approaching(db, scope)
  BY <1>3, <1>4, <1>5
<1>7. QED
  BY <1>6 DEF V

LEMMA SameRecurring ==
    ASSUME NEW db, NEW scope, NEW window
    PROVE  detect_recurring_severity(Visible(db, scope), Unrestricted, window)
             = detect_recurring_severity(db, scope, window)
<1> DEFINE V == Visible(db, scope)
           classified(d, sc, s) ==
              {t \in open_tickets(d, sc) :
                /\ InWindow(d, window, d.tickets[t].created_at)
                /\ calculate_sla(d, t).severity = s
                /\ calculate_sla(d, t).trust \in {"CONFIDENT", "CONDITIONAL"}}
<1>1. open_tickets(V, Unrestricted) = open_tickets(db, scope)
  BY SameOpen
<1>2. \A t \in open_tickets(db, scope) :
         calculate_sla(V, t) = calculate_sla(db, t) /\ V.tickets[t] = db.tickets[t]
  BY SameDeadline, SameRows DEF open_tickets
<1>3. \A time : InWindow(V, window, time) = InWindow(db, window, time)
  BY SameInWindow
<1>4. \A S \in SUBSET search_tickets(db, scope) : TicketAccounts(V, S) = TicketAccounts(db, S)
  BY SameAccounts
<1> HIDE DEF V
<1>5. \A s : classified(V, Unrestricted, s) = classified(db, scope, s)
  BY <1>1, <1>2, <1>3
<1>6. \A s : classified(db, scope, s) \in SUBSET search_tickets(db, scope)
  BY DEF open_tickets
<1> DEFINE hits(d, sc) == {p \in {"P1", "P2"} : Cardinality(classified(d, sc, p)) >= RECURRING_THRESHOLD}
           alert(d, sc, k) ==
              Alert("recurring_issue", IF k = "P1" THEN "high" ELSE "medium", window, k,
                    classified(d, sc, k), TicketAccounts(d, classified(d, sc, k)))
<1>7. \A d, sc : detect_recurring_severity(d, sc, window) = {alert(d, sc, k) : k \in hits(d, sc)}
  BY DEF detect_recurring_severity
<1> HIDE DEF classified
<1>8. hits(V, Unrestricted) = hits(db, scope)
  BY <1>1, <1>5
<1>9. \A k : alert(V, Unrestricted, k) = alert(db, scope, k)
  BY <1>4, <1>5, <1>6
<1> HIDE DEF hits, alert
<1>10. detect_recurring_severity(V, Unrestricted, window) = detect_recurring_severity(db, scope, window)
  BY <1>7, <1>8, <1>9
<1>11. QED
  BY <1>10 DEF V

LEMMA SameKnownIssues ==
    ASSUME NEW db, NEW scope, NEW window
    PROVE  detect_known_issue_patterns(Visible(db, scope), Unrestricted, window)
             = detect_known_issue_patterns(db, scope, window)
<1> DEFINE V == Visible(db, scope)
           matches(d, sc, mention) ==
              {t \in search_tickets(d, sc) :
                /\ InWindow(d, window, d.tickets[t].created_at)
                /\ Cardinality(d.tickets[t].tokens \cap mention.tokens) >= MIN_SHARED_TOKENS}
<1>1. /\ search_tickets(V, Unrestricted) = search_tickets(db, scope)
      /\ \A t \in search_tickets(db, scope) : V.tickets[t] = db.tickets[t]
      /\ V.mentions = db.mentions
  BY SameRows DEF Visible
<1>3. \A time : InWindow(V, window, time) = InWindow(db, window, time)
  BY SameInWindow
<1>4. \A S \in SUBSET search_tickets(db, scope) : TicketAccounts(V, S) = TicketAccounts(db, S)
  BY SameAccounts
<1> HIDE DEF V
<1>5. \A n : matches(V, Unrestricted, n) = matches(db, scope, n)
  BY <1>1, <1>3
<1>6. \A n : matches(db, scope, n) \in SUBSET search_tickets(db, scope)
  OBVIOUS
<1> DEFINE hits(d, sc) == {n \in d.mentions :
              ~n.resolved /\ Cardinality(matches(d, sc, n)) >= MIN_OCCURRENCES}
           alert(d, sc, k) ==
              Alert("known_issue_pattern", "medium", window, k.ki_id, matches(d, sc, k),
                    TicketAccounts(d, matches(d, sc, k)))
<1>7. \A d, sc : detect_known_issue_patterns(d, sc, window) = {alert(d, sc, k) : k \in hits(d, sc)}
  BY DEF detect_known_issue_patterns
<1> HIDE DEF matches
<1>8. hits(V, Unrestricted) = hits(db, scope)
  BY <1>1, <1>5
<1>9. \A k : alert(V, Unrestricted, k) = alert(db, scope, k)
  BY <1>4, <1>5, <1>6
<1> HIDE DEF hits, alert
<1>10. detect_known_issue_patterns(V, Unrestricted, window) = detect_known_issue_patterns(db, scope, window)
  BY <1>7, <1>8, <1>9
<1>11. QED
  BY <1>10 DEF V

LEMMA SameCarriers ==
    ASSUME NEW db, NEW scope, NEW window
    PROVE  detect_carrier_patterns(Visible(db, scope), Unrestricted, window)
             = detect_carrier_patterns(db, scope, window)
<1> DEFINE V == Visible(db, scope)
           faults(d, sc, carrier) ==
              {o \in search_orders(d, sc) :
                /\ d.orders[o].carrier = carrier
                /\ d.orders[o].carrier_fault
                /\ InWindow(d, window, d.orders[o].booked_at)}
<1>1. /\ search_orders(V, Unrestricted) = search_orders(db, scope)
      /\ \A o \in search_orders(db, scope) : V.orders[o] = db.orders[o]
  BY SameRows
<1>3. \A time : InWindow(V, window, time) = InWindow(db, window, time)
  BY SameInWindow
<1>4. \A S \in SUBSET search_orders(db, scope) : OrderAccounts(V, S) = OrderAccounts(db, S)
  BY SameAccounts
<1> HIDE DEF V
<1>5. \A c : faults(V, Unrestricted, c) = faults(db, scope, c)
  BY <1>1, <1>3
<1>6. \A c : faults(db, scope, c) \in SUBSET search_orders(db, scope)
  OBVIOUS
<1> DEFINE hits(d, sc) == {c \in Carriers : Cardinality(faults(d, sc, c)) >= CARRIER_THRESHOLD}
           alert(d, sc, k) ==
              Alert("carrier_pattern", "medium", window, k, faults(d, sc, k),
                    OrderAccounts(d, faults(d, sc, k)))
<1>7. \A d, sc : detect_carrier_patterns(d, sc, window) = {alert(d, sc, k) : k \in hits(d, sc)}
  BY DEF detect_carrier_patterns
<1> HIDE DEF faults
<1>8. hits(V, Unrestricted) = hits(db, scope)
  BY <1>1, <1>5
<1>9. \A k : alert(V, Unrestricted, k) = alert(db, scope, k)
  BY <1>4, <1>5, <1>6
<1> HIDE DEF hits, alert
<1>10. detect_carrier_patterns(V, Unrestricted, window) = detect_carrier_patterns(db, scope, window)
  BY <1>7, <1>8, <1>9
<1>11. QED
  BY <1>10 DEF V

LEMMA SamePickups ==
    ASSUME NEW db, NEW scope
    PROVE  detect_overdue_pickups(Visible(db, scope), Unrestricted)
             = detect_overdue_pickups(db, scope)
<1> DEFINE V == Visible(db, scope)
<1>1. /\ search_orders(V, Unrestricted) = search_orders(db, scope)
      /\ \A o \in search_orders(db, scope) :
            V.orders[o] = db.orders[o] /\ OrderAccounts(V, {o}) = OrderAccounts(db, {o})
      /\ V.snapshot = db.snapshot
  BY SameRows, SameAccounts DEF Visible
<1> HIDE DEF V
<1>2. detect_overdue_pickups(V, Unrestricted) = detect_overdue_pickups(db, scope)
  BY <1>1 DEF detect_overdue_pickups
<1>3. QED
  BY <1>2 DEF V

\* What a run shows to a caller is a function of the rows in the caller's scope.
LEMMA SameRun ==
    ASSUME NEW db, NEW role, NEW scope, NEW selection, NEW window
    PROVE  run_operations_radar(Visible(db, scope), role, Unrestricted, selection, window)
             = run_operations_radar(db, role, scope, selection, window)
<1> DEFINE V == Visible(db, scope)
<1>1. \A type : detect(type, V, Unrestricted, window) = detect(type, db, scope, window)
  BY SameBreaches, SameApproaching, SameRecurring, SameKnownIssues, SameCarriers, SamePickups
  DEF detect
<1>2. Raises(V, Unrestricted, selection, window) = Raises(db, scope, selection, window)
  <2>1. open_tickets(V, Unrestricted) = open_tickets(db, scope)
    BY SameOpen
  <2>2. \A t \in open_tickets(db, scope) :
           calculate_sla(V, t) = calculate_sla(db, t) /\ V.tickets[t] = db.tickets[t]
    BY SameDeadline, SameRows DEF open_tickets
  <2>3. \A time : InWindow(V, window, time) = InWindow(db, window, time)
    BY SameInWindow
  <2> HIDE DEF V
  <2>4. QED
    BY <2>1, <2>2, <2>3 DEF Raises
<1> HIDE DEF V
<1>3. Detected(V, Unrestricted, selection, window) = Detected(db, scope, selection, window)
  BY <1>1 DEF Detected
<1>4. run_operations_radar(V, role, Unrestricted, selection, window)
        = run_operations_radar(db, role, scope, selection, window)
  BY <1>2, <1>3 DEF run_operations_radar
<1>5. QED
  BY <1>4 DEF V

-----------------------------------------------------------------------------
(* What each rule finds, alert by alert *)

BreachAlert(db, t) ==
    Alert("sla_breach", IF calculate_sla(db, t).severity = "P1" THEN "critical" ELSE "high",
          0, "-", {t}, TicketAccounts(db, {t}))
ApproachingAlert(db, t) ==
    Alert("sla_approaching", IF calculate_sla(db, t).severity = "P1" THEN "high" ELSE "medium",
          0, "-", {t}, TicketAccounts(db, {t}))
RecurringAlert(db, window, s, S) ==
    Alert("recurring_issue", IF s = "P1" THEN "high" ELSE "medium", window, s, S,
          TicketAccounts(db, S))
KnownIssueAlert(db, window, k, S) ==
    Alert("known_issue_pattern", "medium", window, k, S, TicketAccounts(db, S))
CarrierAlert(db, window, c, S) ==
    Alert("carrier_pattern", "medium", window, c, S, OrderAccounts(db, S))
PickupAlert(db, o) ==
    Alert("overdue_pickup", IF db.orders[o].carrier_fault THEN "high" ELSE "medium",
          0, "-", {o}, OrderAccounts(db, {o}))

LEMMA Rules ==
    ASSUME NEW db, NEW scope, NEW window
    PROVE  /\ detect("sla_breach", db, scope, window) = detect_sla_breaches(db, scope)
           /\ detect("sla_approaching", db, scope, window) = detect_sla_approaching(db, scope)
           /\ detect("recurring_issue", db, scope, window)
                = detect_recurring_severity(db, scope, window)
           /\ detect("known_issue_pattern", db, scope, window)
                = detect_known_issue_patterns(db, scope, window)
           /\ detect("carrier_pattern", db, scope, window)
                = detect_carrier_patterns(db, scope, window)
           /\ detect("overdue_pickup", db, scope, window) = detect_overdue_pickups(db, scope)
BY Zenon DEF detect

LEMMA BreachFields ==
    ASSUME NEW db, NEW t
    PROVE  /\ BreachAlert(db, t).alert_id[1] = "sla_breach"
           /\ BreachAlert(db, t).alert_id[3] = {t}
           /\ BreachAlert(db, t).affected_accounts = TicketAccounts(db, {t})
BY DEF BreachAlert, Alert, compute_alert_id

LEMMA ApproachingFields ==
    ASSUME NEW db, NEW t
    PROVE  /\ ApproachingAlert(db, t).alert_id[1] = "sla_approaching"
           /\ ApproachingAlert(db, t).alert_id[3] = {t}
           /\ ApproachingAlert(db, t).affected_accounts = TicketAccounts(db, {t})
BY DEF ApproachingAlert, Alert, compute_alert_id

LEMMA RecurringFields ==
    ASSUME NEW db, NEW window, NEW s, NEW S
    PROVE  /\ RecurringAlert(db, window, s, S).alert_id = <<"recurring_issue", window, S>>
           /\ RecurringAlert(db, window, s, S).affected_accounts = TicketAccounts(db, S)
BY DEF RecurringAlert, Alert, compute_alert_id

LEMMA KnownIssueFields ==
    ASSUME NEW db, NEW window, NEW k, NEW S
    PROVE  /\ KnownIssueAlert(db, window, k, S).alert_id = <<"known_issue_pattern", window, S \cup {k}>>
           /\ KnownIssueAlert(db, window, k, S).affected_accounts = TicketAccounts(db, S)
BY DEF KnownIssueAlert, Alert, compute_alert_id

LEMMA CarrierFields ==
    ASSUME NEW db, NEW window, NEW c, NEW S
    PROVE  /\ CarrierAlert(db, window, c, S).alert_id = <<"carrier_pattern", window, S>>
           /\ CarrierAlert(db, window, c, S).affected_accounts = OrderAccounts(db, S)
BY DEF CarrierAlert, Alert, compute_alert_id

LEMMA PickupFields ==
    ASSUME NEW db, NEW o
    PROVE  /\ PickupAlert(db, o).alert_id[1] = "overdue_pickup"
           /\ PickupAlert(db, o).alert_id[3] = {o}
           /\ PickupAlert(db, o).affected_accounts = OrderAccounts(db, {o})
BY Zenon DEF PickupAlert, Alert, compute_alert_id

LEMMA BreachForm ==
    ASSUME NEW db, NEW scope, NEW a \in detect_sla_breaches(db, scope)
    PROVE  \E t \in search_tickets(db, scope) :
              a = BreachAlert(db, t)
BY DEF detect_sla_breaches, BreachAlert, Computable, open_tickets

LEMMA ApproachingForm ==
    ASSUME NEW db, NEW scope, NEW a \in detect_sla_approaching(db, scope)
    PROVE  \E t \in search_tickets(db, scope) :
              a = ApproachingAlert(db, t)
BY DEF detect_sla_approaching, ApproachingAlert, Computable, open_tickets

\* A threshold is at least 1, so a pattern has a record.
LEMMA RecurringForm ==
    ASSUME NEW db, NEW scope, NEW window, NEW a \in detect_recurring_severity(db, scope, window)
    PROVE  \E s \in {"P1", "P2"} : \E S \in SUBSET search_tickets(db, scope) :
              /\ S # {}
              /\ \A t \in S : calculate_sla(db, t).severity = s
              /\ a = RecurringAlert(db, window, s, S)
<1> DEFINE classified(s) ==
              {t \in open_tickets(db, scope) :
                /\ InWindow(db, window, db.tickets[t].created_at)
                /\ calculate_sla(db, t).severity = s
                /\ calculate_sla(db, t).trust \in {"CONFIDENT", "CONDITIONAL"}}
<1>1. detect_recurring_severity(db, scope, window) =
         {RecurringAlert(db, window, s, classified(s)) :
            s \in {p \in {"P1", "P2"} : Cardinality(classified(p)) >= RECURRING_THRESHOLD}}
  BY DEF detect_recurring_severity, RecurringAlert
<1>2. \A s : /\ classified(s) \in SUBSET search_tickets(db, scope)
             /\ \A t \in classified(s) : calculate_sla(db, t).severity = s
  BY DEF open_tickets
<1> HIDE DEF classified
<1>3. PICK s \in {"P1", "P2"} :
         /\ Cardinality(classified(s)) >= RECURRING_THRESHOLD
         /\ a = RecurringAlert(db, window, s, classified(s))
  BY <1>1
<1>4. classified(s) # {}
  <2>1. RECURRING_THRESHOLD \in Nat /\ RECURRING_THRESHOLD > 0
    BY RadarConstants
  <2>2. Cardinality({}) = 0
    BY FS_EmptySet
  <2>3. QED
    BY <1>3, <2>1, <2>2
<1>5. QED
  BY <1>2, <1>3, <1>4

LEMMA KnownIssueForm ==
    ASSUME NEW db, NEW scope, NEW window, NEW a \in detect_known_issue_patterns(db, scope, window)
    PROVE  \E n \in db.mentions : \E S \in SUBSET search_tickets(db, scope) :
              a = KnownIssueAlert(db, window, n.ki_id, S)
<1> DEFINE matches(mention) ==
              {t \in search_tickets(db, scope) :
                /\ InWindow(db, window, db.tickets[t].created_at)
                /\ Cardinality(db.tickets[t].tokens \cap mention.tokens) >= MIN_SHARED_TOKENS}
<1>1. detect_known_issue_patterns(db, scope, window) =
         {KnownIssueAlert(db, window, n.ki_id, matches(n)) :
            n \in {n \in db.mentions : ~n.resolved /\ Cardinality(matches(n)) >= MIN_OCCURRENCES}}
  BY DEF detect_known_issue_patterns, KnownIssueAlert
<1>2. \A n : matches(n) \in SUBSET search_tickets(db, scope)
  OBVIOUS
<1> HIDE DEF matches
<1>3. QED
  BY <1>1, <1>2

LEMMA CarrierForm ==
    ASSUME NEW db, NEW scope, NEW window, NEW a \in detect_carrier_patterns(db, scope, window)
    PROVE  \E c \in Carriers : \E S \in SUBSET search_orders(db, scope) :
              /\ S # {}
              /\ \A o \in S : db.orders[o].carrier = c
              /\ a = CarrierAlert(db, window, c, S)
<1> DEFINE faults(carrier) ==
              {o \in search_orders(db, scope) :
                /\ db.orders[o].carrier = carrier
                /\ db.orders[o].carrier_fault
                /\ InWindow(db, window, db.orders[o].booked_at)}
<1>1. detect_carrier_patterns(db, scope, window) =
         {CarrierAlert(db, window, c, faults(c)) :
            c \in {c \in Carriers : Cardinality(faults(c)) >= CARRIER_THRESHOLD}}
  BY DEF detect_carrier_patterns, CarrierAlert
<1>2. \A c : /\ faults(c) \in SUBSET search_orders(db, scope)
             /\ \A o \in faults(c) : db.orders[o].carrier = c
  OBVIOUS
<1> HIDE DEF faults
<1>3. PICK c \in Carriers :
         /\ Cardinality(faults(c)) >= CARRIER_THRESHOLD
         /\ a = CarrierAlert(db, window, c, faults(c))
  BY <1>1
<1>4. faults(c) # {}
  <2>1. CARRIER_THRESHOLD \in Nat /\ CARRIER_THRESHOLD > 0
    BY RadarConstants
  <2>2. Cardinality({}) = 0
    BY FS_EmptySet
  <2>3. QED
    BY <1>3, <2>1, <2>2
<1>5. QED
  BY <1>2, <1>3, <1>4

LEMMA PickupForm ==
    ASSUME NEW db, NEW scope, NEW a \in detect_overdue_pickups(db, scope)
    PROVE  \E o \in search_orders(db, scope) : a = PickupAlert(db, o)
BY DEF detect_overdue_pickups, PickupAlert

\* The rules over one row: which rows they show.
LEMMA RowAlerts ==
    ASSUME NEW db, NEW scope
    PROVE  /\ \A a : a \in detect_sla_breaches(db, scope) <=>
                 \E t \in Computable(db, scope) :
                    breached(calculate_sla(db, t)) /\ a = BreachAlert(db, t)
           /\ \A a : a \in detect_sla_approaching(db, scope) <=>
                 \E t \in Computable(db, scope) :
                    Approaching(calculate_sla(db, t)) /\ a = ApproachingAlert(db, t)
           /\ \A a : a \in detect_overdue_pickups(db, scope) <=>
                 \E o \in search_orders(db, scope) :
                    /\ db.orders[o].status = "BOOKED"
                    /\ db.orders[o].pickup_actual_at = NoTime
                    /\ db.orders[o].pickup_window_end < db.snapshot
                    /\ a = PickupAlert(db, o)
<1>1. detect_sla_breaches(db, scope) =
         {BreachAlert(db, t) : t \in {u \in Computable(db, scope) : breached(calculate_sla(db, u))}}
  BY DEF detect_sla_breaches, BreachAlert
<1>2. detect_sla_approaching(db, scope) =
         {ApproachingAlert(db, t) : t \in {u \in Computable(db, scope) : Approaching(calculate_sla(db, u))}}
  BY DEF detect_sla_approaching, ApproachingAlert
<1>3. detect_overdue_pickups(db, scope) =
         {PickupAlert(db, o) : o \in {p \in search_orders(db, scope) :
            /\ db.orders[p].status = "BOOKED"
            /\ db.orders[p].pickup_actual_at = NoTime
            /\ db.orders[p].pickup_window_end < db.snapshot}}
  BY DEF detect_overdue_pickups, PickupAlert
<1>4. QED
  BY <1>1, <1>2, <1>3

-----------------------------------------------------------------------------
(* Every alert is about accounts in the scope of the run. *)

LEMMA AccountsInScope ==
    ASSUME NEW db, NEW scope
    PROVE  /\ \A S \in SUBSET search_tickets(db, scope) : \A c \in TicketAccounts(db, S) :
                 allows_account(scope, c)
           /\ \A S \in SUBSET search_orders(db, scope) : \A c \in OrderAccounts(db, S) :
                 allows_account(scope, c)
BY DEF search_tickets, search_orders, TicketAccounts, OrderAccounts

LEMMA DetectedInScope ==
    ASSUME NEW db, NEW scope, NEW selection, NEW window,
           selection \subseteq Types,
           NEW a \in Detected(db, scope, selection, window), NEW c \in a.affected_accounts
    PROVE  allows_account(scope, c)
<1>1. PICK type \in Types : a \in detect(type, db, scope, window)
  BY DEF Detected, types_to_run
<1>5. CASE type = "sla_breach"
  <2>1. PICK t \in search_tickets(db, scope) : a = BreachAlert(db, t)
    BY <1>1, <1>5, Rules, BreachForm
  <2>2. a.affected_accounts = TicketAccounts(db, {t})
    BY <2>1, BreachFields
  <2>3. QED
    BY <2>2, AccountsInScope
<1>6. CASE type = "sla_approaching"
  <2>1. PICK t \in search_tickets(db, scope) : a = ApproachingAlert(db, t)
    BY <1>1, <1>6, Rules, ApproachingForm
  <2>2. a.affected_accounts = TicketAccounts(db, {t})
    BY <2>1, ApproachingFields
  <2>3. QED
    BY <2>2, AccountsInScope
<1>7. CASE type = "recurring_issue"
  <2>1. PICK S \in SUBSET search_tickets(db, scope) : a.affected_accounts = TicketAccounts(db, S)
    BY <1>1, <1>7, Rules, RecurringForm, RecurringFields
  <2>2. QED
    BY <2>1, AccountsInScope
<1>8. CASE type = "known_issue_pattern"
  <2>1. PICK S \in SUBSET search_tickets(db, scope) : a.affected_accounts = TicketAccounts(db, S)
    BY <1>1, <1>8, Rules, KnownIssueForm, KnownIssueFields
  <2>2. QED
    BY <2>1, AccountsInScope
<1>9. CASE type = "carrier_pattern"
  <2>1. PICK S \in SUBSET search_orders(db, scope) : a.affected_accounts = OrderAccounts(db, S)
    BY <1>1, <1>9, Rules, CarrierForm, CarrierFields
  <2>2. QED
    BY <2>1, AccountsInScope
<1>10. CASE type = "overdue_pickup"
  <2>1. PICK o \in search_orders(db, scope) : a = PickupAlert(db, o)
    BY <1>1, <1>10, Rules, PickupForm
  <2>2. a.affected_accounts = OrderAccounts(db, {o})
    BY <2>1, PickupFields
  <2>3. QED
    BY <2>2, AccountsInScope
<1>11. QED
  BY <1>5, <1>6, <1>7, <1>8, <1>9, <1>10 DEF Types

\* A run answers with detected alerts only.
LEMMA RunIsDetected ==
    ASSUME NEW db, NEW role, NEW scope, NEW selection, NEW window
    PROVE  /\ run_operations_radar(db, role, scope, selection, window).status
                \in {"200", "403", "500"}
           /\ run_operations_radar(db, role, scope, selection, window).status = "403"
                <=> role = "restricted_support"
           /\ run_operations_radar(db, role, scope, selection, window).alerts
                \subseteq Detected(db, scope, selection, window)
<1>1. Deduplicated(Detected(db, scope, selection, window))
        \subseteq Detected(db, scope, selection, window)
  BY DEF Deduplicated
<1>2. QED
  BY <1>1 DEF run_operations_radar, Response

-----------------------------------------------------------------------------
(* Two findings of one run have different ids. *)

LEMMA TypeInId ==
    ASSUME NEW db, NEW scope, NEW window, NEW type \in Types, NEW a \in detect(type, db, scope, window)
    PROVE  a.alert_id[1] = type
<1>1. CASE type = "sla_breach"
  <2>1. PICK t : a = BreachAlert(db, t)
    BY <1>1, Rules, BreachForm
  <2>2. a.alert_id[1] = "sla_breach"
    BY <2>1, BreachFields
  <2>3. QED
    BY <1>1, <2>2
<1>2. CASE type = "sla_approaching"
  <2>1. PICK t : a = ApproachingAlert(db, t)
    BY <1>2, Rules, ApproachingForm
  <2>2. a.alert_id[1] = "sla_approaching"
    BY <2>1, ApproachingFields
  <2>3. QED
    BY <1>2, <2>2
<1>3. CASE type = "recurring_issue"
  BY <1>3, Rules, RecurringForm, RecurringFields
<1>4. CASE type = "known_issue_pattern"
  BY <1>4, Rules, KnownIssueForm, KnownIssueFields
<1>5. CASE type = "carrier_pattern"
  BY <1>5, Rules, CarrierForm, CarrierFields
<1>6. CASE type = "overdue_pickup"
  <2>1. PICK o : a = PickupAlert(db, o)
    BY <1>6, Rules, PickupForm
  <2>2. a.alert_id[1] = "overdue_pickup"
    BY <2>1, PickupFields
  <2>3. QED
    BY <1>6, <2>2
<1>7. QED
  BY <1>1, <1>2, <1>3, <1>4, <1>5, <1>6 DEF Types

LEMMA IdsTellApart ==
    ASSUME NEW db, IsDataset(db), NEW scope, NEW selection, NEW window, selection \subseteq Types,
           NEW a \in Detected(db, scope, selection, window),
           NEW b \in Detected(db, scope, selection, window),
           a.alert_id = b.alert_id
    PROVE  a = b
<1>1. PICK type \in Types : a \in detect(type, db, scope, window)
                              /\ b \in detect(type, db, scope, window)
  <2>1. PICK ta \in Types : a \in detect(ta, db, scope, window)
    BY DEF Detected, types_to_run
  <2>2. PICK tb \in Types : b \in detect(tb, db, scope, window)
    BY DEF Detected, types_to_run
  <2>3. ta = tb
    BY <2>1, <2>2, TypeInId
  <2>4. QED
    BY <2>1, <2>2, <2>3
<1>2. CASE type = "sla_breach"
  <2>1. PICK t, u : a = BreachAlert(db, t) /\ b = BreachAlert(db, u)
    BY <1>1, <1>2, Rules, BreachForm
  <2>2. a.alert_id[3] = {t} /\ b.alert_id[3] = {u}
    BY <2>1, BreachFields
  <2>3. t = u
    BY <2>2
  <2>4. QED
    BY <2>1, <2>3
<1>3. CASE type = "sla_approaching"
  <2>1. PICK t, u : a = ApproachingAlert(db, t) /\ b = ApproachingAlert(db, u)
    BY <1>1, <1>3, Rules, ApproachingForm
  <2>2. a.alert_id[3] = {t} /\ b.alert_id[3] = {u}
    BY <2>1, ApproachingFields
  <2>3. t = u
    BY <2>2
  <2>4. QED
    BY <2>1, <2>3
<1>4. CASE type = "recurring_issue"
  <2> DEFINE pattern(s, S) == S # {} /\ \A t \in S : calculate_sla(db, t).severity = s
  <2>1. PICK s, S : a = RecurringAlert(db, window, s, S) /\ pattern(s, S)
    BY <1>1, <1>4, Rules, RecurringForm
  <2>2. PICK r, R : b = RecurringAlert(db, window, r, R) /\ pattern(r, R)
    BY <1>1, <1>4, Rules, RecurringForm
  <2>3. S = R
    BY <2>1, <2>2, RecurringFields
  <2>4. s = r
    BY <2>1, <2>2, <2>3
  <2>5. QED
    BY <2>1, <2>2, <2>3, <2>4
<1>5. CASE type = "known_issue_pattern"
  <2>1. /\ \A n \in db.mentions : n.ki_id \in KnownIssues
        /\ search_tickets(db, scope) \subseteq Tickets
    BY DEF IsDataset, Mention, search_tickets
  <2>2. PICK k \in KnownIssues, S \in SUBSET Tickets : a = KnownIssueAlert(db, window, k, S)
    BY <1>1, <1>5, <2>1, Rules, KnownIssueForm
  <2>3. PICK j \in KnownIssues, R \in SUBSET Tickets : b = KnownIssueAlert(db, window, j, R)
    BY <1>1, <1>5, <2>1, Rules, KnownIssueForm
  <2>4. S \cup {k} = R \cup {j}
    BY <2>2, <2>3, KnownIssueFields
  <2>5. k \notin Tickets /\ j \notin Tickets
    BY RadarConstants
  <2>6. k = j /\ S = R
    BY <2>4, <2>5
  <2>7. QED
    BY <2>2, <2>3, <2>6
<1>6. CASE type = "carrier_pattern"
  <2> DEFINE pattern(c, S) == S # {} /\ \A o \in S : db.orders[o].carrier = c
  <2>1. PICK c, S : a = CarrierAlert(db, window, c, S) /\ pattern(c, S)
    BY <1>1, <1>6, Rules, CarrierForm
  <2>2. PICK d, R : b = CarrierAlert(db, window, d, R) /\ pattern(d, R)
    BY <1>1, <1>6, Rules, CarrierForm
  <2>3. S = R
    BY <2>1, <2>2, CarrierFields
  <2>4. c = d
    BY <2>1, <2>2, <2>3
  <2>5. QED
    BY <2>1, <2>2, <2>3, <2>4
<1>7. CASE type = "overdue_pickup"
  <2>1. PICK o, p : a = PickupAlert(db, o) /\ b = PickupAlert(db, p)
    BY <1>1, <1>7, Rules, PickupForm
  <2>2. a.alert_id[3] = {o} /\ b.alert_id[3] = {p}
    BY <2>1, PickupFields
  <2>3. o = p
    BY <2>2
  <2>4. QED
    BY <2>1, <2>3
<1>8. QED
  BY <1>2, <1>3, <1>4, <1>5, <1>6, <1>7 DEF Types

LEMMA NothingRemoved ==
    ASSUME NEW db, IsDataset(db), NEW scope, NEW selection, NEW window, selection \subseteq Types
    PROVE  Deduplicated(Detected(db, scope, selection, window))
             = Detected(db, scope, selection, window)
<1> DEFINE D == Detected(db, scope, selection, window)
<1>1. \A x \in D : (CHOOSE a \in D : a.alert_id = x.alert_id) = x
  BY IdsTellApart
<1> HIDE DEF D
<1>2. Deduplicated(D) = D
  BY <1>1 DEF Deduplicated
<1>3. QED
  BY <1>2 DEF D

-----------------------------------------------------------------------------
(* An id determines the type and the records of an alert. *)

PointInTime == {"sla_breach", "sla_approaching", "overdue_pickup"}

\* An alert whose id is the one its own fields give.
WellFormed(a) ==
    /\ a.alert_type \in Types
    /\ a.alert_id = compute_alert_id(a.alert_type, a.alert_id[2], a.about, a.representative_records)
    /\ a.alert_type = "known_issue_pattern" =>
          a.about \in KnownIssues /\ a.representative_records \subseteq Tickets

LEMMA AlertFields ==
    ASSUME NEW type, NEW severity, NEW window, NEW about, NEW records, NEW accounts,
           NEW a, a = Alert(type, severity, window, about, records, accounts)
    PROVE  /\ a.alert_type = type
           /\ a.alert_id = compute_alert_id(type, window, about, records)
           /\ a.alert_id[2] = window
           /\ a.about = about
           /\ a.representative_records = records
BY DEF Alert, compute_alert_id

LEMMA DetectedWellFormed ==
    ASSUME NEW db, IsDataset(db), NEW scope, NEW window, NEW type \in Types,
           NEW a \in detect(type, db, scope, window)
    PROVE  /\ WellFormed(a)
           /\ a.alert_type = type
           /\ a.alert_id[2] = IF type \in PointInTime THEN 0 ELSE window
<1>1. ASSUME NEW severity, NEW at, NEW about, NEW records, NEW accounts,
             a = Alert(type, severity, at, about, records, accounts),
             type = "known_issue_pattern" => about \in KnownIssues /\ records \subseteq Tickets
      PROVE  WellFormed(a) /\ a.alert_type = type /\ a.alert_id[2] = at
  <2>1. /\ a.alert_type = type
        /\ a.alert_id = compute_alert_id(type, at, about, records)
        /\ a.alert_id[2] = at
        /\ a.about = about
        /\ a.representative_records = records
    BY <1>1, AlertFields
  <2>2. QED
    BY <1>1, <2>1 DEF WellFormed
<1>2. CASE type = "sla_breach"
  <2>1. PICK t : a = BreachAlert(db, t)
    BY <1>2, Rules, BreachForm
  <2>2. QED
    BY <1>1, <1>2, <2>1 DEF BreachAlert, PointInTime
<1>3. CASE type = "sla_approaching"
  <2>1. PICK t : a = ApproachingAlert(db, t)
    BY <1>3, Rules, ApproachingForm
  <2>2. QED
    BY <1>1, <1>3, <2>1 DEF ApproachingAlert, PointInTime
<1>4. CASE type = "recurring_issue"
  <2>1. PICK s, S : a = RecurringAlert(db, window, s, S)
    BY <1>4, Rules, RecurringForm
  <2>2. QED
    BY <1>1, <1>4, <2>1 DEF RecurringAlert, PointInTime
<1>5. CASE type = "known_issue_pattern"
  <2>1. PICK n \in db.mentions, S \in SUBSET search_tickets(db, scope) :
           a = KnownIssueAlert(db, window, n.ki_id, S)
    BY <1>5, Rules, KnownIssueForm
  <2>2. n.ki_id \in KnownIssues /\ S \subseteq Tickets
    BY <2>1 DEF IsDataset, Mention, search_tickets
  <2>3. QED
    BY <1>1, <1>5, <2>1, <2>2 DEF KnownIssueAlert, PointInTime
<1>6. CASE type = "carrier_pattern"
  <2>1. PICK c, S : a = CarrierAlert(db, window, c, S)
    BY <1>6, Rules, CarrierForm
  <2>2. QED
    BY <1>1, <1>6, <2>1 DEF CarrierAlert, PointInTime
<1>7. CASE type = "overdue_pickup"
  <2>1. PICK o : a = PickupAlert(db, o)
    BY <1>7, Rules, PickupForm
  <2>2. QED
    BY <1>1, <1>7, <2>1 DEF PickupAlert, PointInTime
<1>8. QED
  BY <1>2, <1>3, <1>4, <1>5, <1>6, <1>7 DEF Types

\* Alerts of any two packs with one id are of one type and over the same records.
LEMMA SameIdSameRecords ==
    ASSUME NEW a, WellFormed(a), NEW b, WellFormed(b), a.alert_id = b.alert_id
    PROVE  /\ a.alert_type = b.alert_type
           /\ a.representative_records = b.representative_records
<1> DEFINE ids(x) == IF x.alert_type = "known_issue_pattern"
                     THEN x.representative_records \cup {x.about} ELSE x.representative_records
<1>1. /\ a.alert_id = <<a.alert_type, a.alert_id[2], ids(a)>>
      /\ b.alert_id = <<b.alert_type, b.alert_id[2], ids(b)>>
  BY DEF WellFormed, compute_alert_id
<1>2. a.alert_id[1] = a.alert_type /\ a.alert_id[3] = ids(a)
        /\ b.alert_id[1] = b.alert_type /\ b.alert_id[3] = ids(b)
  <2> HIDE DEF ids
  <2>1. QED
    BY <1>1
<1>3. a.alert_type = b.alert_type /\ ids(a) = ids(b)
  BY <1>2
<1>4. CASE a.alert_type = "known_issue_pattern"
  <2>1. a.representative_records \cup {a.about} = b.representative_records \cup {b.about}
    BY <1>3, <1>4
  <2>2. /\ a.about \in KnownIssues /\ a.representative_records \subseteq Tickets
        /\ b.about \in KnownIssues /\ b.representative_records \subseteq Tickets
        /\ KnownIssues \cap Tickets = {}
    BY <1>3, <1>4, RadarConstants DEF WellFormed
  <2>3. QED
    BY <1>3, <2>1, <2>2
<1>5. CASE a.alert_type # "known_issue_pattern"
  BY <1>3, <1>5
<1>6. QED
  BY <1>4, <1>5

-----------------------------------------------------------------------------
(* The panel and the link *)

\* What a panel shows of the present pack is what the rules find in it; what it shows of any
\* pack has the ids of its own fields; and a fetched alert is one of the rules' in the scope of
\* the user who asked, with the meaning it was asked for.
RadarInv ==
    /\ data \in Datasets
    /\ redeploys \in 0 .. MaxRedeploys
    /\ panel = [u \in Users |-> panel[u]]
    /\ \A u \in Users : panel[u] # Nothing =>
          /\ RoleOf[u] # "restricted_support"
          /\ panel[u].pack \in 0 .. redeploys
          /\ panel[u].selection \in Selections
          /\ panel[u].window \in Windows
          /\ \A a \in panel[u].response.alerts : WellFormed(a)
          /\ panel[u].pack = redeploys =>
                panel[u].response =
                    run_operations_radar(data, RoleOf[u], panel[u].scope, panel[u].selection,
                                         panel[u].window)
    /\ link # Nothing =>
          /\ link.user \in Users
          /\ RoleOf[link.user] = "restricted_support" => link.response.status = "403"
          /\ \A a \in link.response.alerts : \A c \in a.affected_accounts :
                allows_account(ScopeOf[link.user], c)
    /\ LinksKeepTheirMeaning

LEMMA RadarInit == Init => RadarInv
BY RadarConstants DEF Init, RadarInv, LinksKeepTheirMeaning

LEMMA RunWellFormed ==
    ASSUME NEW db, IsDataset(db), NEW role, NEW scope, NEW selection, selection \subseteq Types,
           NEW window, NEW a \in run_operations_radar(db, role, scope, selection, window).alerts
    PROVE  WellFormed(a)
<1>1. PICK type \in Types : a \in detect(type, db, scope, window)
  BY RunIsDetected DEF Detected, types_to_run
<1>2. QED
  BY <1>1, DetectedWellFormed

\* A panel is replaced by the answer of a new run, whoever ran it.
LEMMA ShowStep ==
    ASSUME RadarInv, UNCHANGED <<data, redeploys, link>>, NEW user \in Users, NEW scope,
           NEW selection \in Selections, NEW window \in Windows,
           Show(user, scope, selection, window)
    PROVE  RadarInv'
<1> DEFINE response == run_operations_radar(data, RoleOf[user], scope, selection, window)
           shown == IF response.status = "403" THEN Nothing
                    ELSE [pack |-> redeploys, scope |-> scope, selection |-> selection,
                          window |-> window, response |-> response]
<1>1. panel' = [panel EXCEPT ![user] = shown]
  BY DEF Show
<1>2. response.status = "403" <=> RoleOf[user] = "restricted_support"
  BY RunIsDetected
<1>3. \A a \in response.alerts : WellFormed(a)
  <2>1. IsDataset(data) /\ selection \subseteq Types
    BY RadarConstants DEF RadarInv
  <2>2. QED
    BY <2>1, RunWellFormed
<1>4. shown # Nothing =>
         /\ RoleOf[user] # "restricted_support"
         /\ shown.pack = redeploys
         /\ shown.selection = selection
         /\ shown.window = window
         /\ \A a \in shown.response.alerts : WellFormed(a)
         /\ shown.response =
              run_operations_radar(data, RoleOf[user], shown.scope, shown.selection, shown.window)
  BY <1>2, <1>3
<1> HIDE DEF shown, response
<1>5. panel' = [u \in Users |-> panel'[u]] /\ panel'[user] = shown
        /\ \A u \in Users \ {user} : panel'[u] = panel[u]
  BY <1>1 DEF RadarInv
<1>6. \A u \in Users : panel'[u] # Nothing =>
          /\ RoleOf[u] # "restricted_support"
          /\ panel'[u].pack \in 0 .. redeploys
          /\ panel'[u].selection \in Selections
          /\ panel'[u].window \in Windows
          /\ \A a \in panel'[u].response.alerts : WellFormed(a)
          /\ panel'[u].pack = redeploys =>
                panel'[u].response =
                    run_operations_radar(data, RoleOf[u], panel'[u].scope, panel'[u].selection,
                                         panel'[u].window)
  BY <1>4, <1>5, RadarConstants DEF RadarInv
<1>7. QED
  BY <1>5, <1>6 DEF RadarInv, LinksKeepTheirMeaning, Unparsed

\* An alert over one row is found in every scope that holds the account of the row.
LEMMA FollowsItsRow ==
    ASSUME NEW db, NEW shown, NEW scope, NEW window, NEW other, NEW type \in PointInTime,
           NEW a \in detect(type, db, shown, window),
           \A c \in a.affected_accounts : allows_account(scope, c)
    PROVE  a \in detect(type, db, scope, other)
<1>1. \A t \in Computable(db, shown) :
         allows_account(scope, db.tickets[t].account) => t \in Computable(db, scope)
  BY DEF Computable, open_tickets, search_tickets
<1>2. CASE type = "sla_breach"
  <2>1. PICK t \in Computable(db, shown) :
           breached(calculate_sla(db, t)) /\ a = BreachAlert(db, t)
    BY <1>2, Rules, RowAlerts
  <2>2. db.tickets[t].account \in a.affected_accounts
    BY <2>1, BreachFields DEF TicketAccounts
  <2>3. QED
    BY <1>1, <1>2, <2>1, <2>2, Rules, RowAlerts
<1>3. CASE type = "sla_approaching"
  <2>1. PICK t \in Computable(db, shown) :
           Approaching(calculate_sla(db, t)) /\ a = ApproachingAlert(db, t)
    BY <1>3, Rules, RowAlerts
  <2>2. db.tickets[t].account \in a.affected_accounts
    BY <2>1, ApproachingFields DEF TicketAccounts
  <2>3. QED
    BY <1>1, <1>3, <2>1, <2>2, Rules, RowAlerts
<1>4. CASE type = "overdue_pickup"
  <2>1. PICK o \in search_orders(db, shown) :
           /\ db.orders[o].status = "BOOKED"
           /\ db.orders[o].pickup_actual_at = NoTime
           /\ db.orders[o].pickup_window_end < db.snapshot
           /\ a = PickupAlert(db, o)
    BY <1>4, Rules, RowAlerts
  <2>2. db.orders[o].account \in a.affected_accounts
    BY <2>1, PickupFields DEF OrderAccounts
  <2>3. o \in search_orders(db, scope)
    BY <2>2 DEF search_orders
  <2>4. QED
    BY <1>4, <2>1, <2>3, Rules, RowAlerts
<1>5. QED
  BY <1>2, <1>3, <1>4 DEF PointInTime

\* The alerts that a run of all rules in the default window finds again in a scope.
ReachedFrom(scope, shown, asked) ==
    \/ asked.alert_id[2] = 0 /\ \A c \in asked.affected_accounts : allows_account(scope, c)
    \/ asked.alert_id[2] = DEFAULT_WINDOW_DAYS /\ scope = shown

\* What that run finds under the id of an alert: the alert
\* without a window in every scope that holds its accounts, the one of that window in its own.
LEMMA FoundUnderItsId ==
    ASSUME NEW db, IsDataset(db), NEW role, NEW shown, NEW scope, NEW selection,
           selection \subseteq Types, NEW window \in Windows,
           NEW asked \in run_operations_radar(db, role, shown, selection, window).alerts,
           ReachedFrom(scope, shown, asked)
    PROVE  /\ asked \in Deduplicated(Detected(db, scope, {}, DEFAULT_WINDOW_DAYS))
           /\ \A a \in Deduplicated(Detected(db, scope, {}, DEFAULT_WINDOW_DAYS)) :
                 a.alert_id = asked.alert_id => a = asked
<1> DEFINE D == Detected(db, scope, {}, DEFAULT_WINDOW_DAYS)
<1>1. PICK type \in Types : asked \in detect(type, db, shown, window)
  BY RunIsDetected DEF Detected, types_to_run
<1>2. asked.alert_id[2] = IF type \in PointInTime THEN 0 ELSE window
  BY <1>1, DetectedWellFormed
<1>3. DEFAULT_WINDOW_DAYS # 0 /\ window # 0
  BY RadarConstants
<1>4. asked \in detect(type, db, scope, DEFAULT_WINDOW_DAYS)
  <2>1. CASE asked.alert_id[2] = 0
    BY <1>1, <1>2, <1>3, <2>1, FollowsItsRow DEF ReachedFrom
  <2>2. CASE asked.alert_id[2] # 0
    BY <1>1, <1>2, <2>2 DEF ReachedFrom
  <2>3. QED
    BY <2>1, <2>2
<1>5. asked \in D
  BY <1>4 DEF Detected, types_to_run
<1>6. Deduplicated(D) = D
  BY NothingRemoved
<1>7. \A a \in D : a.alert_id = asked.alert_id => a = asked
  BY <1>5, IdsTellApart
<1>8. QED
  BY <1>5, <1>6, <1>7

\* A run of all rules ends with 500 exactly when a target is unparsed.
LEMMA AllRulesRaise ==
    ASSUME NEW scope, NEW window
    PROVE  Raises(data, scope, {}, window) <=> Unparsed(scope)
BY DEF Raises, Unparsed, types_to_run, Types

LEMMA GetStep ==
    ASSUME RadarInv, NEW user \in Users, get_alert(user)
    PROVE  RadarInv'
<1> DEFINE again == run_operations_radar(data, RoleOf[user], ScopeOf[user], {}, DEFAULT_WINDOW_DAYS)
           found(asked) == {a \in again.alerts : a.alert_id = asked.alert_id}
           answer(asked) == IF again.status = "200" /\ found(asked) = {} THEN Response("404", {})
                            ELSE Response(again.status, found(asked))
<1>1. PICK holder \in {v \in Users : panel[v] # Nothing} : \E asked \in panel[holder].response.alerts :
         link' = [user |-> user, pack |-> redeploys, asked |-> asked,
                  shown_in |-> panel[holder].pack, shown_to |-> panel[holder].scope,
                  response |-> answer(asked)]
  BY DEF get_alert, FoundAgain
<1>2. PICK asked \in panel[holder].response.alerts :
         link' = [user |-> user, pack |-> redeploys, asked |-> asked,
                  shown_in |-> panel[holder].pack, shown_to |-> panel[holder].scope,
                  response |-> answer(asked)]
  BY <1>1
<1>3. UNCHANGED <<data, redeploys, panel>>
  BY DEF get_alert
<1>4. /\ link'.user = user
      /\ link'.pack = redeploys
      /\ link'.asked = asked
      /\ link'.shown_in = panel[holder].pack
      /\ link'.shown_to = panel[holder].scope
      /\ link'.response = answer(asked)
  <2> HIDE DEF answer
  <2>1. QED
    BY <1>2
<1>5. /\ \/ answer(asked) = Response("404", {}) /\ again.status = "200"
         \/ answer(asked).status = again.status
      /\ \A a \in answer(asked).alerts : a \in again.alerts /\ a.alert_id = asked.alert_id
  BY DEF Response
<1>6. IsDataset(data)
  BY RadarConstants DEF RadarInv
<1>7. \A a \in answer(asked).alerts :
         /\ a.alert_type = asked.alert_type
         /\ a.representative_records = asked.representative_records
  <2>1. \A a \in again.alerts : WellFormed(a)
    BY <1>6, RunWellFormed
  <2>2. WellFormed(asked)
    BY <1>1 DEF RadarInv
  <2>3. QED
    BY <1>5, <2>1, <2>2, SameIdSameRecords
<1>8. ASSUME panel[holder].pack = redeploys, RoleOf[user] # "restricted_support",
             \/ /\ asked.alert_id[2] = 0
                /\ \A c \in asked.affected_accounts : allows_account(ScopeOf[user], c)
             \/ asked.alert_id[2] = DEFAULT_WINDOW_DAYS /\ ScopeOf[user] = panel[holder].scope
      PROVE  answer(asked) = IF Unparsed(ScopeOf[user]) THEN Response("500", {})
                             ELSE Response("200", {asked})
  <2>1. Raises(data, ScopeOf[user], {}, DEFAULT_WINDOW_DAYS) <=> Unparsed(ScopeOf[user])
    BY AllRulesRaise
  <2>2. CASE Unparsed(ScopeOf[user])
    <3>1. again = Response("500", {})
      BY <1>8, <2>1, <2>2 DEF run_operations_radar
    <3>2. again.status = "500" /\ found(asked) = {}
      BY <3>1 DEF Response
    <3>3. QED
      BY <2>2, <3>2
  <2>3. CASE ~Unparsed(ScopeOf[user])
    <3>1. /\ again.status = "200"
          /\ again.alerts = Deduplicated(Detected(data, ScopeOf[user], {}, DEFAULT_WINDOW_DAYS))
      BY <1>8, <2>1, <2>3 DEF run_operations_radar, Response
    <3>2. /\ panel[holder].window \in Windows
          /\ panel[holder].selection \subseteq Types
          /\ asked \in run_operations_radar(data, RoleOf[holder], panel[holder].scope,
                                            panel[holder].selection, panel[holder].window).alerts
      BY <1>1, <1>8, RadarConstants DEF RadarInv
    <3> DEFINE all == Deduplicated(Detected(data, ScopeOf[user], {}, DEFAULT_WINDOW_DAYS))
    <3>3. asked \in all /\ \A a \in all : a.alert_id = asked.alert_id => a = asked
      <4> DEFINE scope == ScopeOf[user]
                 shown == panel[holder].scope
                 role == RoleOf[holder]
                 selection == panel[holder].selection
                 window == panel[holder].window
      <4>1. /\ selection \subseteq Types /\ window \in Windows
            /\ asked \in run_operations_radar(data, role, shown, selection, window).alerts
            /\ ReachedFrom(scope, shown, asked)
        BY <1>8, <3>2 DEF ReachedFrom
      <4> HIDE DEF again, found, answer, scope, shown, role, selection, window
      <4>2. /\ asked \in Deduplicated(Detected(data, scope, {}, DEFAULT_WINDOW_DAYS))
            /\ \A a \in Deduplicated(Detected(data, scope, {}, DEFAULT_WINDOW_DAYS)) :
                  a.alert_id = asked.alert_id => a = asked
        BY <1>6, <4>1, FoundUnderItsId
      <4>3. QED
        BY <4>2 DEF scope
    <3>4. found(asked) = {asked}
      BY <3>1, <3>3
    <3>5. QED
      BY <2>3, <3>1, <3>4
  <2>4. QED
    BY <2>2, <2>3
<1>9. RoleOf[user] = "restricted_support" => answer(asked).status = "403"
  BY <1>5, RunIsDetected
<1>10. \A a \in answer(asked).alerts : \A c \in a.affected_accounts : allows_account(ScopeOf[user], c)
  <2>1. \A a \in again.alerts : \A c \in a.affected_accounts : allows_account(ScopeOf[user], c)
    BY RunIsDetected, DetectedInScope
  <2>2. QED
    BY <1>5, <2>1
<1> HIDE DEF answer
<1>11. LinksKeepTheirMeaning'
  BY <1>3, <1>4, <1>7, <1>8 DEF LinksKeepTheirMeaning, Unparsed
<1>12. QED
  BY <1>3, <1>4, <1>9, <1>10, <1>11 DEF RadarInv

LEMMA RadarStep == RadarInv /\ [Next]_vars => RadarInv'
<1>1. SUFFICES ASSUME RadarInv, [Next]_vars PROVE RadarInv'
  OBVIOUS
<1>2. ASSUME NEW user \in Users, run_radar(user) PROVE RadarInv'
  BY <1>1, <1>2, ShowStep DEF run_radar
<1>3. ASSUME NEW user \in Users, detect_issues_tool(user) PROVE RadarInv'
  BY <1>1, <1>3, ShowStep DEF detect_issues_tool
<1>4. ASSUME NEW user \in Users, get_alert(user) PROVE RadarInv'
  BY <1>1, <1>4, GetStep
<1>5. CASE close
  BY <1>1, <1>5 DEF close, RadarInv, LinksKeepTheirMeaning, Unparsed
<1>6. CASE Redeploy
  <2>1. \A u \in Users : panel[u] # Nothing =>
           panel[u].pack \in 0 .. redeploys' /\ panel[u].pack # redeploys'
    BY <1>1, <1>6 DEF Redeploy, RadarInv
  <2>2. redeploys' \in 0 .. MaxRedeploys
    BY <1>1, <1>6, RadarConstants DEF Redeploy, RadarInv
  <2>3. QED
    BY <1>1, <1>6, <2>1, <2>2 DEF Redeploy, RadarInv, LinksKeepTheirMeaning
<1>7. CASE UNCHANGED vars
  BY <1>1, <1>7 DEF vars, RadarInv, LinksKeepTheirMeaning, Unparsed
<1>8. QED
  BY <1>1, <1>2, <1>3, <1>4, <1>5, <1>6, <1>7 DEF Next

\* A caller is shown nothing that a ticket or an order of another account can
\* influence, whether a panel or a fetched alert, and restricted_support nothing
\* at all (OnlyOwnAccountsShow).
THEOREM OthersDoNotShow == Spec => []OnlyOwnAccountsShow
<1>1. RadarInv => OnlyOwnAccountsShow
  BY SameRun DEF RadarInv, OnlyOwnAccountsShow, Fresh
<1>2. QED
  BY <1>1, RadarInit, RadarStep, PTL DEF Spec

\* Removing duplicates by id removes nothing (NothingLostToDuplicates).
THEOREM NoFindingIsLost == Spec => []NothingLostToDuplicates
<1>1. ASSUME RadarInv PROVE NothingLostToDuplicates
  <2>1. SUFFICES ASSUME NEW u \in Users, Fresh(panel[u]), panel[u].response.status = "200"
                 PROVE  panel[u].response.alerts =
                          Detected(data, panel[u].scope, panel[u].selection, panel[u].window)
    BY DEF NothingLostToDuplicates
  <2>2. /\ panel[u].response =
             run_operations_radar(data, RoleOf[u], panel[u].scope, panel[u].selection,
                                  panel[u].window)
        /\ panel[u].selection \subseteq Types
        /\ IsDataset(data)
    BY <1>1, <2>1, RadarConstants DEF RadarInv, Fresh
  <2>3. QED
    BY NothingRemoved, <2>1, <2>2 DEF run_operations_radar, Response
<1>2. QED
  BY <1>1, RadarInit, RadarStep, PTL DEF Spec

\* An alert id means the same records whenever it is asked for. On the pack that raised it an
\* alert without a window is found again by whoever may see its accounts, one of the default
\* window by whoever has the scope it was shown to; but if an open ticket of theirs has an
\* unparsed target, and only then, the answer is 500 (fingerprint.py, get_alert;
\* LinksKeepTheirMeaning).
THEOREM IdsKeepTheirMeaning == Spec => []LinksKeepTheirMeaning
<1>1. RadarInv => LinksKeepTheirMeaning
  BY DEF RadarInv
<1>2. QED
  BY <1>1, RadarInit, RadarStep, PTL DEF Spec

-----------------------------------------------------------------------------
(* Whoever sees more, or looks further back, sees every pattern. *)

Wider(narrow, wide) ==
    \A c \in Accounts : allows_account(narrow, c) => allows_account(wide, c)

LEMMA WiderSearch ==
    ASSUME NEW db, IsDataset(db), NEW narrow, NEW wide, Wider(narrow, wide)
    PROVE  /\ search_tickets(db, narrow) \subseteq search_tickets(db, wide)
           /\ search_orders(db, narrow) \subseteq search_orders(db, wide)
           /\ open_tickets(db, narrow) \subseteq open_tickets(db, wide)
<1>1. /\ \A t \in DOMAIN db.tickets : db.tickets[t].account \in Accounts
      /\ \A o \in DOMAIN db.orders : db.orders[o].account \in Accounts
  BY DEF IsDataset, Ticket, Order
<1>2. /\ search_tickets(db, narrow) \subseteq search_tickets(db, wide)
      /\ search_orders(db, narrow) \subseteq search_orders(db, wide)
  BY <1>1 DEF Wider, search_tickets, search_orders
<1>3. QED
  BY <1>2 DEF open_tickets

LEMMA FiniteSearch ==
    ASSUME NEW db, IsDataset(db), NEW scope
    PROVE  /\ \A S \in SUBSET search_tickets(db, scope) : IsFiniteSet(S)
           /\ \A S \in SUBSET search_orders(db, scope) : IsFiniteSet(S)
<1>1. IsFiniteSet(DOMAIN db.tickets) /\ IsFiniteSet(DOMAIN db.orders)
  BY DEF IsDataset
<1>2. \A S \in SUBSET search_tickets(db, scope) : S \in SUBSET DOMAIN db.tickets
  BY DEF search_tickets
<1>3. \A S \in SUBSET search_orders(db, scope) : S \in SUBSET DOMAIN db.orders
  BY DEF search_orders
<1>4. QED
  BY <1>1, <1>2, <1>3, FS_Subset

LEMMA LongerWindow ==
    ASSUME NEW db, IsDataset(db), NEW time \in Int, NEW short \in Nat, NEW long \in Nat,
           short <= long, InWindow(db, short, time)
    PROVE  InWindow(db, long, time)
<1>1. db.snapshot \in Int /\ DAY \in Nat
  BY SlaConstants DEF IsDataset
<1>2. short * DAY <= long * DAY
  <2>1. PICK d \in Nat : long = short + d
    <3>1. long - short \in Nat /\ long = short + (long - short)
      OBVIOUS
    <3>2. QED
      BY <3>1
  <2>2. long * DAY = short * DAY + d * DAY /\ d * DAY \in Nat /\ short * DAY \in Nat
    BY <1>1, <2>1
  <2>3. QED
    BY <2>2
<1>3. short * DAY \in Int /\ long * DAY \in Int
  BY <1>1
<1> DEFINE s == short * DAY
           l == long * DAY
<1>4. s \in Int /\ l \in Int /\ s <= l /\ time >= db.snapshot - s
  BY <1>2, <1>3 DEF InWindow
<1> HIDE DEF s, l
<1>5. time >= db.snapshot - l
  BY <1>1, <1>4
<1>6. QED
  BY <1>5 DEF InWindow, l

\* A threshold that is reached stays reached.
LEMMA ThresholdStays ==
    ASSUME NEW S, NEW T, S \subseteq T, IsFiniteSet(T), NEW n \in Nat, Cardinality(S) >= n
    PROVE  Cardinality(T) >= n
<1>1. IsFiniteSet(S) /\ Cardinality(S) <= Cardinality(T)
  BY FS_Subset
<1>2. Cardinality(S) \in Nat /\ Cardinality(T) \in Nat
  BY <1>1, FS_CardinalityType
<1>3. QED
  BY <1>1, <1>2

\* b is about what a is about, with all of its records at least.
Covers(b, a) ==
    /\ b.alert_type = a.alert_type
    /\ b.about = a.about
    /\ a.representative_records \subseteq b.representative_records

LEMMA CoversItself == ASSUME NEW a PROVE Covers(a, a)
BY DEF Covers

LEMMA AlertCovers ==
    ASSUME NEW type, NEW severity, NEW short, NEW long, NEW about, NEW S, NEW T, S \subseteq T,
           NEW c, NEW d
    PROVE  Covers(Alert(type, severity, long, about, T, d), Alert(type, severity, short, about, S, c))
BY AlertFields DEF Covers

LEMMA WiderRecurring ==
    ASSUME NEW db, IsDataset(db), NEW narrow, NEW wide, Wider(narrow, wide),
           NEW short \in Nat, NEW long \in Nat, short <= long,
           NEW a \in detect_recurring_severity(db, narrow, short)
    PROVE  \E b \in detect_recurring_severity(db, wide, long) : Covers(b, a)
<1> DEFINE classified(sc, window, s) ==
              {t \in open_tickets(db, sc) :
                /\ InWindow(db, window, db.tickets[t].created_at)
                /\ calculate_sla(db, t).severity = s
                /\ calculate_sla(db, t).trust \in {"CONFIDENT", "CONDITIONAL"}}
           alert(sc, window, s) == RecurringAlert(db, window, s, classified(sc, window, s))
<1>1. \A sc, window : detect_recurring_severity(db, sc, window) =
         {alert(sc, window, s) :
            s \in {p \in {"P1", "P2"} : Cardinality(classified(sc, window, p)) >= RECURRING_THRESHOLD}}
  BY DEF detect_recurring_severity, RecurringAlert
<1>2. PICK s \in {"P1", "P2"} : /\ Cardinality(classified(narrow, short, s)) >= RECURRING_THRESHOLD
                                /\ a = alert(narrow, short, s)
  <2> HIDE DEF classified, alert
  <2>1. QED
    BY <1>1
<1>3. classified(narrow, short, s) \subseteq classified(wide, long, s)
  <2>1. open_tickets(db, narrow) \subseteq open_tickets(db, wide)
    BY WiderSearch
  <2>2. \A t \in open_tickets(db, narrow) : db.tickets[t].created_at \in Int
    BY DEF open_tickets, search_tickets, IsDataset, Ticket
  <2>3. \A t \in open_tickets(db, narrow) :
           InWindow(db, short, db.tickets[t].created_at) => InWindow(db, long, db.tickets[t].created_at)
    BY <2>2, LongerWindow
  <2>4. QED
    BY <2>1, <2>3
<1>4. Cardinality(classified(wide, long, s)) >= RECURRING_THRESHOLD
  <2>1. classified(wide, long, s) \in SUBSET search_tickets(db, wide)
    BY DEF open_tickets
  <2> HIDE DEF classified
  <2>2. IsFiniteSet(classified(wide, long, s))
    BY <2>1, FiniteSearch
  <2>3. QED
    BY <1>2, <1>3, <2>2, ThresholdStays, RadarConstants
<1>5. Covers(alert(wide, long, s), alert(narrow, short, s))
  <2> HIDE DEF classified
  <2>1. QED
    BY <1>3, AlertCovers DEF RecurringAlert
<1> HIDE DEF classified, alert
<1>6. alert(wide, long, s) \in detect_recurring_severity(db, wide, long)
  BY <1>1, <1>4
<1>7. QED
  BY <1>2, <1>5, <1>6

LEMMA WiderKnownIssues ==
    ASSUME NEW db, IsDataset(db), NEW narrow, NEW wide, Wider(narrow, wide),
           NEW short \in Nat, NEW long \in Nat, short <= long,
           NEW a \in detect_known_issue_patterns(db, narrow, short)
    PROVE  \E b \in detect_known_issue_patterns(db, wide, long) : Covers(b, a)
<1> DEFINE matches(sc, window, mention) ==
              {t \in search_tickets(db, sc) :
                /\ InWindow(db, window, db.tickets[t].created_at)
                /\ Cardinality(db.tickets[t].tokens \cap mention.tokens) >= MIN_SHARED_TOKENS}
           alert(sc, window, n) == KnownIssueAlert(db, window, n.ki_id, matches(sc, window, n))
<1>1. \A sc, window : detect_known_issue_patterns(db, sc, window) =
         {alert(sc, window, n) :
            n \in {m \in db.mentions :
                      ~m.resolved /\ Cardinality(matches(sc, window, m)) >= MIN_OCCURRENCES}}
  BY DEF detect_known_issue_patterns, KnownIssueAlert
<1>2. PICK n \in db.mentions : /\ ~n.resolved
                               /\ Cardinality(matches(narrow, short, n)) >= MIN_OCCURRENCES
                               /\ a = alert(narrow, short, n)
  <2> HIDE DEF matches, alert
  <2>1. QED
    BY <1>1
<1>3. matches(narrow, short, n) \subseteq matches(wide, long, n)
  <2>1. search_tickets(db, narrow) \subseteq search_tickets(db, wide)
    BY WiderSearch
  <2>2. \A t \in search_tickets(db, narrow) : db.tickets[t].created_at \in Int
    BY DEF search_tickets, IsDataset, Ticket
  <2>3. \A t \in search_tickets(db, narrow) :
           InWindow(db, short, db.tickets[t].created_at) => InWindow(db, long, db.tickets[t].created_at)
    BY <2>2, LongerWindow
  <2>4. QED
    BY <2>1, <2>3
<1>4. Cardinality(matches(wide, long, n)) >= MIN_OCCURRENCES
  <2>1. matches(wide, long, n) \in SUBSET search_tickets(db, wide)
    OBVIOUS
  <2> HIDE DEF matches
  <2>2. IsFiniteSet(matches(wide, long, n))
    BY <2>1, FiniteSearch
  <2>3. QED
    BY <1>2, <1>3, <2>2, ThresholdStays, RadarConstants
<1>5. Covers(alert(wide, long, n), alert(narrow, short, n))
  <2> HIDE DEF matches
  <2>1. QED
    BY <1>3, AlertCovers DEF KnownIssueAlert
<1> HIDE DEF matches, alert
<1>6. alert(wide, long, n) \in detect_known_issue_patterns(db, wide, long)
  BY <1>1, <1>2, <1>4
<1>7. QED
  BY <1>2, <1>5, <1>6

LEMMA WiderCarriers ==
    ASSUME NEW db, IsDataset(db), NEW narrow, NEW wide, Wider(narrow, wide),
           NEW short \in Nat, NEW long \in Nat, short <= long,
           NEW a \in detect_carrier_patterns(db, narrow, short)
    PROVE  \E b \in detect_carrier_patterns(db, wide, long) : Covers(b, a)
<1> DEFINE faults(sc, window, c) ==
              {o \in search_orders(db, sc) :
                /\ db.orders[o].carrier = c
                /\ db.orders[o].carrier_fault
                /\ InWindow(db, window, db.orders[o].booked_at)}
           alert(sc, window, c) == CarrierAlert(db, window, c, faults(sc, window, c))
<1>1. \A sc, window : detect_carrier_patterns(db, sc, window) =
         {alert(sc, window, c) :
            c \in {d \in Carriers : Cardinality(faults(sc, window, d)) >= CARRIER_THRESHOLD}}
  BY DEF detect_carrier_patterns, CarrierAlert
<1>2. PICK c \in Carriers : /\ Cardinality(faults(narrow, short, c)) >= CARRIER_THRESHOLD
                            /\ a = alert(narrow, short, c)
  <2> HIDE DEF faults, alert
  <2>1. QED
    BY <1>1
<1>3. faults(narrow, short, c) \subseteq faults(wide, long, c)
  <2>1. search_orders(db, narrow) \subseteq search_orders(db, wide)
    BY WiderSearch
  <2>2. \A o \in search_orders(db, narrow) : db.orders[o].booked_at \in Int
    BY DEF search_orders, IsDataset, Order
  <2>3. \A o \in search_orders(db, narrow) :
           InWindow(db, short, db.orders[o].booked_at) => InWindow(db, long, db.orders[o].booked_at)
    BY <2>2, LongerWindow
  <2>4. QED
    BY <2>1, <2>3
<1>4. Cardinality(faults(wide, long, c)) >= CARRIER_THRESHOLD
  <2>1. faults(wide, long, c) \in SUBSET search_orders(db, wide)
    OBVIOUS
  <2> HIDE DEF faults
  <2>2. IsFiniteSet(faults(wide, long, c))
    BY <2>1, FiniteSearch
  <2>3. QED
    BY <1>2, <1>3, <2>2, ThresholdStays, RadarConstants
<1>5. Covers(alert(wide, long, c), alert(narrow, short, c))
  <2> HIDE DEF faults
  <2>1. QED
    BY <1>3, AlertCovers DEF CarrierAlert
<1> HIDE DEF faults, alert
<1>6. alert(wide, long, c) \in detect_carrier_patterns(db, wide, long)
  BY <1>1, <1>4
<1>7. QED
  BY <1>2, <1>5, <1>6

LEMMA WiderDetects ==
    ASSUME NEW db, IsDataset(db), NEW narrow, NEW wide, Wider(narrow, wide),
           NEW short \in Nat, NEW long \in Nat, short <= long,
           NEW type \in Types, NEW a \in detect(type, db, narrow, short)
    PROVE  \E b \in detect(type, db, wide, long) : Covers(b, a)
<1>1. /\ search_tickets(db, narrow) \subseteq search_tickets(db, wide)
      /\ search_orders(db, narrow) \subseteq search_orders(db, wide)
      /\ open_tickets(db, narrow) \subseteq open_tickets(db, wide)
  BY WiderSearch
<1>2. Computable(db, narrow) \subseteq Computable(db, wide)
  BY <1>1 DEF Computable
<1>3. CASE type = "sla_breach"
  <2>1. a \in detect_sla_breaches(db, wide)
    BY <1>2, <1>3, Rules, RowAlerts
  <2>2. QED
    BY <1>3, <2>1, Rules, CoversItself
<1>4. CASE type = "sla_approaching"
  <2>1. a \in detect_sla_approaching(db, wide)
    BY <1>2, <1>4, Rules, RowAlerts
  <2>2. QED
    BY <1>4, <2>1, Rules, CoversItself
<1>5. CASE type = "recurring_issue"
  BY <1>5, Rules, WiderRecurring
<1>6. CASE type = "known_issue_pattern"
  BY <1>6, Rules, WiderKnownIssues
<1>7. CASE type = "carrier_pattern"
  BY <1>7, Rules, WiderCarriers
<1>8. CASE type = "overdue_pickup"
  <2>1. a \in detect_overdue_pickups(db, wide)
    BY <1>1, <1>8, Rules, RowAlerts
  <2>2. QED
    BY <1>8, <2>1, Rules, CoversItself
<1>9. QED
  BY <1>3, <1>4, <1>5, <1>6, <1>7, <1>8 DEF Types

\* A wider run looks at the tickets of a narrower one and fails where it fails.
LEMMA WiderRaises ==
    ASSUME NEW db, IsDataset(db), NEW narrow, NEW wide, Wider(narrow, wide),
           NEW short \in Nat, NEW long \in Nat, short <= long, NEW few, NEW more,
           types_to_run(few) \subseteq types_to_run(more), Raises(db, narrow, few, short)
    PROVE  Raises(db, wide, more, long)
<1>1. PICK t \in open_tickets(db, narrow) :
         /\ calculate_sla(db, t).trust = "raises"
         /\ \/ types_to_run(few) \cap {"sla_breach", "sla_approaching"} # {}
            \/ /\ "recurring_issue" \in types_to_run(few)
               /\ InWindow(db, short, db.tickets[t].created_at)
  BY DEF Raises
<1>2. t \in open_tickets(db, wide)
  BY WiderSearch
<1>3. InWindow(db, short, db.tickets[t].created_at) => InWindow(db, long, db.tickets[t].created_at)
  <2>1. db.tickets[t].created_at \in Int
    BY DEF open_tickets, search_tickets, IsDataset, Ticket
  <2>2. QED
    BY <2>1, LongerWindow
<1>4. QED
  BY <1>1, <1>2, <1>3 DEF Raises

\* A run with a wider scope, more rules or a longer window that ends with 200 shows every pattern
\* of a narrower run, with all of its records at least, and the narrower run ends with 200 too.
\* On an unparsed target the wider run may end with 500 and show nothing (rules.py, WiderSeesMore).
THEOREM WiderRunsSeeMore == Spec => []WiderSeesMore
<1>1. ASSUME RadarInv, NEW u \in Users, NEW v \in Users, Fresh(panel[u]), Fresh(panel[v]),
             panel[v].response.status = "200",
             Wider(panel[u].scope, panel[v].scope),
             types_to_run(panel[u].selection) \subseteq types_to_run(panel[v].selection),
             panel[u].window <= panel[v].window
      PROVE  /\ panel[u].response.status = "200"
             /\ \A a \in panel[u].response.alerts : \E b \in panel[v].response.alerts : Covers(b, a)
  <2>1. /\ IsDataset(data)
        /\ panel[v].selection \subseteq Types
        /\ panel[u].window \in Nat /\ panel[v].window \in Nat
    BY <1>1, RadarConstants DEF RadarInv, Fresh
  <2>2. /\ panel[u].response = run_operations_radar(data, RoleOf[u], panel[u].scope,
                                                    panel[u].selection, panel[u].window)
        /\ panel[v].response = run_operations_radar(data, RoleOf[v], panel[v].scope,
                                                    panel[v].selection, panel[v].window)
    BY <1>1 DEF RadarInv, Fresh
  <2>3. panel[v].response.alerts =
           Detected(data, panel[v].scope, panel[v].selection, panel[v].window)
    BY <1>1, <2>1, <2>2, NothingRemoved DEF run_operations_radar, Response
  <2>4. panel[u].response.status = "200"
    <3>1. ~Raises(data, panel[v].scope, panel[v].selection, panel[v].window)
      BY <1>1, <2>2 DEF run_operations_radar, Response
    <3>2. ~Raises(data, panel[u].scope, panel[u].selection, panel[u].window)
      BY <1>1, <2>1, <3>1, WiderRaises
    <3>3. RoleOf[u] # "restricted_support"
      BY <1>1 DEF RadarInv, Fresh
    <3>4. QED
      BY <2>2, <3>2, <3>3 DEF run_operations_radar, Response
  <2>5. ASSUME NEW a \in panel[u].response.alerts
        PROVE  \E b \in panel[v].response.alerts : Covers(b, a)
    <3>1. PICK type \in types_to_run(panel[u].selection) :
             a \in detect(type, data, panel[u].scope, panel[u].window)
      BY <2>2, <2>5, RunIsDetected DEF Detected
    <3>2. type \in types_to_run(panel[v].selection) /\ type \in Types
      BY <1>1, <2>1, <3>1 DEF types_to_run
    <3>3. PICK b \in detect(type, data, panel[v].scope, panel[v].window) : Covers(b, a)
      BY <1>1, <2>1, <3>1, <3>2, WiderDetects
    <3>4. b \in Detected(data, panel[v].scope, panel[v].selection, panel[v].window)
      BY <3>2, <3>3 DEF Detected
    <3>5. QED
      BY <2>3, <3>3, <3>4
  <2>6. QED
    BY <2>4, <2>5
<1>2. RadarInv => WiderSeesMore
  BY <1>1 DEF WiderSeesMore, Wider, Covers
<1>3. QED
  BY <1>2, RadarInit, RadarStep, PTL DEF Spec
-----------------------------------------------------------------------------
(* The last quarter of the response time *)

\* The deadline of a ticket that the two deadline rules look at is its creation plus its target.
LEMMA OnTheClock ==
    ASSUME NEW db, IsDataset(db), NEW scope, NEW t \in Computable(db, scope)
    PROVE  /\ db.snapshot \in Int
           /\ db.tickets[t].created_at \in Int
           /\ calculate_sla(db, t).target_minutes \in Nat
           /\ calculate_sla(db, t).elapsed =
                 db.snapshot - (db.tickets[t].created_at + calculate_sla(db, t).target_minutes)
<1> DEFINE ticket   == db.tickets[t]
           severity == classify_severity(ticket)
           source   == resolve_applicability(db, ticket.account)
           rows     == lookup_sla_target(db, source, ticket.account, severity)
           target   == fetchone(rows)
<1>1. db.snapshot \in Int /\ ticket.created_at \in Int
  BY DEF Computable, open_tickets, search_tickets, IsDataset, Ticket
<1>2. calculate_sla(db, t).trust = "CONFIDENT"
  BY DEF Computable
<1>3. \A row \in rows : row.target_minutes \in Nat
  BY DEF lookup_sla_target, Matching, IsDataset, SlaTarget
<1>4. /\ rows # {}
      /\ calculate_sla(db, t) = Outcome("CONFIDENT", severity, target.target_minutes,
                                        elapsed_minutes(db, ticket, target.target_minutes))
  <2> HIDE DEF ticket, severity, source, rows, target
  <2>1. calculate_sla(db, t) =
           IF severity = "none" \/ rows = {} THEN Outcome("UNCERTAIN", "none", 0, 0)
           ELSE IF target.kind = "business" THEN Outcome("CONDITIONAL", severity, 0, 0)
           ELSE IF target.kind = "unparsed" THEN Outcome("raises", severity, 0, 0)
           ELSE Outcome("CONFIDENT", severity, target.target_minutes,
                        elapsed_minutes(db, ticket, target.target_minutes))
    BY DEF calculate_sla, ticket, severity, source, rows, target
  <2>2. \A trust, s, minutes, elapsed : Outcome(trust, s, minutes, elapsed).trust = trust
    BY DEF Outcome
  <2>3. QED
    BY <1>2, <2>1, <2>2
<1>5. target \in rows
  <2> HIDE DEF rows
  <2>1. QED
    BY <1>4 DEF fetchone
<1> HIDE DEF ticket, severity, source, rows, target
<1>6. QED
  BY <1>1, <1>3, <1>4, <1>5 DEF Outcome, elapsed_minutes, ticket

\* In the last quarter and after it exactly one of the two rules applies.
LEMMA OneRuleApplies ==
    ASSUME NEW created \in Int, NEW snapshot \in Int, NEW outcome, outcome.target_minutes \in Nat,
           outcome.elapsed = snapshot - (created + outcome.target_minutes),
           4 * (snapshot - created) >= 3 * outcome.target_minutes
    PROVE  Approaching(outcome) <=> ~breached(outcome)
<1>1. -4 * outcome.elapsed <= outcome.target_minutes
  <2> DEFINE target == outcome.target_minutes
  <2>1. target \in Nat
    OBVIOUS
  <2>2. outcome.elapsed = snapshot - (created + target) /\ 4 * (snapshot - created) >= 3 * target
    OBVIOUS
  <2> HIDE DEF target
  <2>3. -4 * outcome.elapsed <= target
    BY <2>1, <2>2
  <2>4. QED
    BY <2>3 DEF target
<1>2. QED
  BY <1>1 DEF Approaching

\* The alerts of the two deadline rules over one ticket.
DeadlineAlerts(alerts, t) ==
    {a \in alerts : /\ a.alert_type \in {"sla_breach", "sla_approaching"}
                   /\ a.representative_records = {t}}

LEMMA ShownOnce ==
    ASSUME NEW db, IsDataset(db), NEW scope, NEW selection \in SUBSET Types, NEW window,
           {"sla_breach", "sla_approaching"} \subseteq types_to_run(selection),
           NEW t \in Computable(db, scope),
           4 * (db.snapshot - db.tickets[t].created_at) >= 3 * calculate_sla(db, t).target_minutes
    PROVE  Cardinality(DeadlineAlerts(Detected(db, scope, selection, window), t)) = 1
<1> DEFINE outcome == calculate_sla(db, t)
           only    == IF breached(outcome) THEN BreachAlert(db, t) ELSE ApproachingAlert(db, t)
           shown   == DeadlineAlerts(Detected(db, scope, selection, window), t)
<1>1. Approaching(outcome) <=> ~breached(outcome)
  BY OnTheClock, OneRuleApplies
<1>2. \A u : /\ BreachAlert(db, u).alert_type = "sla_breach"
             /\ BreachAlert(db, u).representative_records = {u}
             /\ ApproachingAlert(db, u).alert_type = "sla_approaching"
             /\ ApproachingAlert(db, u).representative_records = {u}
  BY AlertFields DEF BreachAlert, ApproachingAlert
<1>3. only \in shown
  <2>1. CASE breached(outcome)
    <3>1. only \in detect("sla_breach", db, scope, window)
      BY <2>1, Rules, RowAlerts
    <3>2. QED
      BY <1>2, <2>1, <3>1 DEF Detected, DeadlineAlerts
  <2>2. CASE ~breached(outcome)
    <3>1. only \in detect("sla_approaching", db, scope, window)
      BY <1>1, <2>2, Rules, RowAlerts
    <3>2. QED
      BY <1>2, <2>2, <3>1 DEF Detected, DeadlineAlerts
  <2>3. QED
    BY <2>1, <2>2
<1>4. ASSUME NEW a \in shown PROVE a = only
  <2>1. PICK type \in Types : a \in detect(type, db, scope, window)
    BY <1>4 DEF DeadlineAlerts, Detected, types_to_run
  <2>2. a.alert_type = type
    BY <2>1, DetectedWellFormed
  <2>3. CASE type = "sla_breach"
    <3>1. PICK u \in Computable(db, scope) :
             breached(calculate_sla(db, u)) /\ a = BreachAlert(db, u)
      BY <2>1, <2>3, Rules, RowAlerts
    <3>2. u = t
      BY <1>2, <1>4, <3>1 DEF DeadlineAlerts
    <3>3. QED
      BY <3>1, <3>2
  <2>4. CASE type = "sla_approaching"
    <3>1. PICK u \in Computable(db, scope) :
             Approaching(calculate_sla(db, u)) /\ a = ApproachingAlert(db, u)
      BY <2>1, <2>4, Rules, RowAlerts
    <3>2. u = t
      BY <1>2, <1>4, <3>1 DEF DeadlineAlerts
    <3>3. QED
      BY <1>1, <3>1, <3>2
  <2>5. QED
    BY <1>4, <2>2, <2>3, <2>4 DEF DeadlineAlerts
<1> HIDE DEF shown, only
<1>5. shown = {only}
  BY <1>3, <1>4
<1>6. Cardinality(shown) = 1
  BY <1>5, FS_Singleton
<1>7. QED
  BY <1>6 DEF shown

\* A P1 or P2 ticket in the last quarter of its response time or past it is shown by exactly one
\* alert of the two deadline rules (detect_sla_breaches, detect_sla_approaching).
THEOREM LastQuarterIsShownOnce == Spec => []LastQuarterShownOnce
<1>1. ASSUME RadarInv, NEW u \in Users, Fresh(panel[u]), panel[u].response.status = "200",
             {"sla_breach", "sla_approaching"} \subseteq types_to_run(panel[u].selection),
             NEW t \in Computable(data, panel[u].scope),
             4 * (data.snapshot - data.tickets[t].created_at)
               >= 3 * calculate_sla(data, t).target_minutes
      PROVE  Cardinality(DeadlineAlerts(panel[u].response.alerts, t)) = 1
  <2>1. IsDataset(data) /\ panel[u].selection \in SUBSET Types
    BY <1>1, RadarConstants DEF RadarInv, Fresh
  <2>2. panel[u].response.alerts =
           Detected(data, panel[u].scope, panel[u].selection, panel[u].window)
    <3>1. panel[u].response = run_operations_radar(data, RoleOf[u], panel[u].scope,
                                                   panel[u].selection, panel[u].window)
      BY <1>1 DEF RadarInv, Fresh
    <3>2. QED
      BY <1>1, <2>1, <3>1, NothingRemoved DEF run_operations_radar, Response
  <2>3. QED
    BY <1>1, <2>1, <2>2, ShownOnce
<1>2. RadarInv => LastQuarterShownOnce
  BY <1>1 DEF LastQuarterShownOnce, DeadlineAlerts
<1>3. QED
  BY <1>2, RadarInit, RadarStep, PTL DEF Spec


=============================================================================
