------------------------------- MODULE Radar -------------------------------
(***************************************************************************)
(* The operations radar: six detection rules over the tickets and orders   *)
(* of the caller's accounts (app/detection/rules.py), run together         *)
(* (service.py) for a panel in the browser and, one alert at a time, by id *)
(* (api/routes/radar.py).                                                  *)
(*                                                                         *)
(* A run keeps nothing on the server: an alert exists as long as running   *)
(* the rules again finds it. Between runs the server can be redeployed on  *)
(* another data pack, while browsers keep showing what they have.          *)
(*                                                                         *)
(* The digest of an alert id is taken to be one-to-one. Titles, reasons,   *)
(* evidence lists, counts (the number of records) and the order of alerts, *)
(* by severity and then by digest, are left out.                           *)
(***************************************************************************)
EXTENDS SlaRules, FiniteSets

CONSTANTS
    Orders,
    Carriers,
    KnownIssues,    \* the KI-<n> ids
    Datasets,       \* the data packs that may be ingested
    Users,          \* the demo users
    RoleOf,
    ScopeOf,
    Unrestricted,   \* account_scope is None
    NoTime,         \* a missing timestamp
    Windows,        \* the values of window_days that are asked for
    Selections,     \* the values of alert_types that are asked for
    AskedScopes,    \* the values of account_scope that the tool is asked for
    DEFAULT_WINDOW_DAYS,
    RECURRING_THRESHOLD,
    CARRIER_THRESHOLD,
    MIN_OCCURRENCES,
    MIN_SHARED_TOKENS,
    Nothing,        \* a panel or link that shows nothing yet
    MaxRedeploys    \* bound: how often the data pack is replaced

Order ==
    [account: Accounts, carrier: Carriers,
     status: {"DRAFT", "BOOKED", "PICKED_UP", "DELIVERED"}, booked_at: Int,
     pickup_window_end: Int, pickup_actual_at: {NoTime} \cup Int, carrier_fault: BOOLEAN,
     customer_fault: BOOLEAN, shipment_fee_inr: Nat, cancellation_requested_at: {NoTime} \cup Int]

\* A mention of a known issue with the text up to the next mention.
Mention == [ki_id: KnownIssues, resolved: BOOLEAN, tokens: SUBSET Tokens]

\* A table has finitely many rows.
IsDataset(db) ==
    /\ DOMAIN db = {"tickets", "orders", "terms", "plan", "sla_targets", "mentions", "snapshot"}
    /\ \E T \in SUBSET Tickets : IsFiniteSet(T) /\ db.tickets \in [T -> Ticket]
    /\ \E O \in SUBSET Orders : IsFiniteSet(O) /\ db.orders \in [O -> Order]
    /\ db.terms \in [Overrides -> Term]
    /\ db.plan \in [Accounts -> Plans]
    /\ db.sla_targets \subseteq SlaTarget
    /\ db.mentions \subseteq Mention
    /\ db.snapshot \in Int

Roles == {"operations_admin", "support_agent", "restricted_support"}
Scopes == {Unrestricted} \cup SUBSET Accounts

Types ==
    {"sla_breach", "sla_approaching", "recurring_issue", "known_issue_pattern",
     "carrier_pattern", "overdue_pickup"}

ASSUME RadarConstants ==
    /\ \A db \in Datasets : IsDataset(db)
    /\ RoleOf \in [Users -> Roles]
    /\ ScopeOf \in [Users -> Scopes]
    /\ \A S \in SUBSET Accounts : S # Unrestricted
    /\ KnownIssues \cap Tickets = {}
    /\ DEFAULT_WINDOW_DAYS \in Nat \ {0}
    /\ Windows \subseteq Nat \ {0}
    /\ Selections \subseteq SUBSET Types
    /\ AskedScopes \subseteq SUBSET Accounts
    /\ RECURRING_THRESHOLD \in Nat \ {0}
    /\ CARRIER_THRESHOLD \in Nat \ {0}
    /\ MIN_OCCURRENCES \in Nat \ {0}
    /\ MaxRedeploys \in Nat

-----------------------------------------------------------------------------
(* search_tickets and search_orders *)

allows_account(scope, account) == scope = Unrestricted \/ account \in scope

\* Mutant: the rows are not filtered by the caller's scope.
search_tickets_Unscoped(db, scope) == DOMAIN db.tickets

search_tickets(db, scope) ==
    {t \in DOMAIN db.tickets : allows_account(scope, db.tickets[t].account)}

open_tickets(db, scope) == {t \in search_tickets(db, scope) : db.tickets[t].status = "open"}

search_orders(db, scope) ==
    {o \in DOMAIN db.orders : allows_account(scope, db.orders[o].account)}

-----------------------------------------------------------------------------
(* The rules *)

\* Mutant: the fingerprint of a known issue leaves the issue out.
compute_alert_id_Records(type, window, about, records) == <<type, window, records>>

\* The entities of a known-issue alert are the issue and its tickets.
compute_alert_id(type, window, about, records) ==
    <<type, window, IF type = "known_issue_pattern" THEN records \cup {about} ELSE records>>

\* A window of 0 stands for "point-in-time".
Alert(type, severity, window, about, records, accounts) ==
    [alert_id |-> compute_alert_id(type, window, about, records), alert_type |-> type,
     severity |-> severity, about |-> about, representative_records |-> records,
     affected_accounts |-> accounts]

TicketAccounts(db, S) == {db.tickets[t].account : t \in S}
OrderAccounts(db, S) == {db.orders[o].account : o \in S}

\* Mutant: the comparison with the cutoff is the wrong way round.
InWindow_Older(db, window, time) == time <= db.snapshot - window * DAY

\* ticket.created_at < cutoff is what a rule skips.
InWindow(db, window, time) == time >= db.snapshot - window * DAY

\* Open P1 and P2 tickets with a deadline on the clock.
Computable(db, scope) ==
    {t \in open_tickets(db, scope) :
        LET outcome == calculate_sla(db, t)
        IN  outcome.severity \in {"P1", "P2"} /\ outcome.trust = "CONFIDENT"}

detect_sla_breaches(db, scope) ==
    {Alert("sla_breach", IF calculate_sla(db, t).severity = "P1" THEN "critical" ELSE "high",
           0, "-", {t}, TicketAccounts(db, {t})) :
        t \in {u \in Computable(db, scope) : breached(calculate_sla(db, u))}}

\* Mutant: a breached ticket has less than a quarter left, too.
Approaching_Breached(outcome) == -4 * outcome.elapsed <= outcome.target_minutes

\* DEFAULT_APPROACHING_WARNING_RATIO is a quarter.
Approaching(outcome) ==
    ~breached(outcome) /\ -4 * outcome.elapsed <= outcome.target_minutes

detect_sla_approaching(db, scope) ==
    {Alert("sla_approaching", IF calculate_sla(db, t).severity = "P1" THEN "high" ELSE "medium",
           0, "-", {t}, TicketAccounts(db, {t})) :
        t \in {u \in Computable(db, scope) : Approaching(calculate_sla(db, u))}}

detect_recurring_severity(db, scope, window) ==
    LET classified(s) ==
            {t \in open_tickets(db, scope) :
                LET outcome == calculate_sla(db, t)
                IN  /\ InWindow(db, window, db.tickets[t].created_at)
                    /\ outcome.severity = s
                    /\ outcome.trust \in {"CONFIDENT", "CONDITIONAL"}}
    IN  {Alert("recurring_issue", IF s = "P1" THEN "high" ELSE "medium", window, s,
               classified(s), TicketAccounts(db, classified(s))) :
            s \in {p \in {"P1", "P2"} : Cardinality(classified(p)) >= RECURRING_THRESHOLD}}

\* Open or closed: the state of the issue decides, not that of the ticket.
detect_known_issue_patterns(db, scope, window) ==
    LET matches(mention) ==
            {t \in search_tickets(db, scope) :
                /\ InWindow(db, window, db.tickets[t].created_at)
                /\ Cardinality(db.tickets[t].tokens \cap mention.tokens) >= MIN_SHARED_TOKENS}
    IN  {Alert("known_issue_pattern", "medium", window, m.ki_id, matches(m),
               TicketAccounts(db, matches(m))) :
            m \in {n \in db.mentions :
                      ~n.resolved /\ Cardinality(matches(n)) >= MIN_OCCURRENCES}}

detect_carrier_patterns(db, scope, window) ==
    LET faults(carrier) ==
            {o \in search_orders(db, scope) :
                /\ db.orders[o].carrier = carrier
                /\ db.orders[o].carrier_fault
                /\ InWindow(db, window, db.orders[o].booked_at)}
    IN  {Alert("carrier_pattern", "medium", window, c, faults(c), OrderAccounts(db, faults(c))) :
            c \in {d \in Carriers : Cardinality(faults(d)) >= CARRIER_THRESHOLD}}

detect_overdue_pickups(db, scope) ==
    {Alert("overdue_pickup", IF db.orders[o].carrier_fault THEN "high" ELSE "medium",
           0, "-", {o}, OrderAccounts(db, {o})) :
        o \in {p \in search_orders(db, scope) :
                  /\ db.orders[p].status = "BOOKED"
                  /\ db.orders[p].pickup_actual_at = NoTime
                  /\ db.orders[p].pickup_window_end < db.snapshot}}

-----------------------------------------------------------------------------
(* run_operations_radar *)

detect(type, db, scope, window) ==
    CASE type = "sla_breach"          -> detect_sla_breaches(db, scope)
      [] type = "sla_approaching"     -> detect_sla_approaching(db, scope)
      [] type = "recurring_issue"     -> detect_recurring_severity(db, scope, window)
      [] type = "known_issue_pattern" -> detect_known_issue_patterns(db, scope, window)
      [] type = "carrier_pattern"     -> detect_carrier_patterns(db, scope, window)
      [] type = "overdue_pickup"      -> detect_overdue_pickups(db, scope)

\* No types stand for all of them.
types_to_run(selection) == IF selection = {} THEN Types ELSE selection

Detected(db, scope, selection, window) ==
    UNION {detect(type, db, scope, window) : type \in types_to_run(selection)}

\* One unparsed target among the tickets a rule looks at ends the whole run.
Raises(db, scope, selection, window) ==
    \E t \in open_tickets(db, scope) :
        /\ calculate_sla(db, t).trust = "raises"
        /\ \/ types_to_run(selection) \cap {"sla_breach", "sla_approaching"} # {}
           \/ /\ "recurring_issue" \in types_to_run(selection)
              /\ InWindow(db, window, db.tickets[t].created_at)

\* seen[alert.alert_id] = alert: one alert stays for every id.
Deduplicated(alerts) ==
    {CHOOSE a \in alerts : a.alert_id = id : id \in {a.alert_id : a \in alerts}}

Response(status, alerts) == [status |-> status, alerts |-> alerts]

run_operations_radar(db, role, scope, selection, window) ==
    IF role = "restricted_support" THEN Response("403", {})
    ELSE IF Raises(db, scope, selection, window) THEN Response("500", {})
    ELSE Response("200", Deduplicated(Detected(db, scope, selection, window)))

-----------------------------------------------------------------------------
VARIABLES
    data,       \* the ingested data pack
    redeploys,
    panel,      \* what the browser of each user shows of its last run
    link        \* the alert that was asked for by id, and the answer

vars == <<data, redeploys, panel, link>>

Init ==
    /\ data \in Datasets
    /\ redeploys = 0
    /\ panel = [u \in Users |-> Nothing]
    /\ link = Nothing

\* A denied run leaves nothing on the panel but the error.
Show(user, scope, selection, window) ==
    LET response == run_operations_radar(data, RoleOf[user], scope, selection, window) IN
    panel' = [panel EXCEPT ![user] =
        IF response.status = "403" THEN Nothing
        ELSE [pack |-> redeploys, scope |-> scope, selection |-> selection, window |-> window,
              response |-> response]]

\* POST /api/radar/run
run_radar(user) ==
    /\ link = Nothing
    /\ \E selection \in Selections, window \in Windows :
          Show(user, ScopeOf[user], selection, window)
    /\ UNCHANGED <<data, redeploys, link>>

\* The tool narrows the caller's scope to the accounts that are asked for.
detect_issues_tool(user) ==
    /\ link = Nothing
    /\ \E asked \in AskedScopes, selection \in Selections, window \in Windows :
          Show(user, {a \in asked : allows_account(ScopeOf[user], a)}, selection, window)
    /\ UNCHANGED <<data, redeploys, link>>

\* Mutant: an alert is looked for in the last day only.
FoundAgain_LastDay(user) == run_operations_radar(data, RoleOf[user], ScopeOf[user], {}, 1)

FoundAgain(user) ==
    run_operations_radar(data, RoleOf[user], ScopeOf[user], {}, DEFAULT_WINDOW_DAYS)

\* GET /api/radar/alerts/{alert_id}, for an id from anybody's panel.
get_alert(user) ==
    /\ link = Nothing
    /\ LET again == FoundAgain(user) IN
       \E holder \in {v \in Users : panel[v] # Nothing} :
       \E asked \in panel[holder].response.alerts :
          LET found == {a \in again.alerts : a.alert_id = asked.alert_id} IN
          link' = [user |-> user, pack |-> redeploys, asked |-> asked,
                   shown_in |-> panel[holder].pack, shown_to |-> panel[holder].scope,
                   response |-> IF again.status = "200" /\ found = {} THEN Response("404", {})
                                ELSE Response(again.status, found)]
    /\ UNCHANGED <<data, redeploys, panel>>

\* The caller has read the answer.
close == link # Nothing /\ link' = Nothing /\ UNCHANGED <<data, redeploys, panel>>

\* The server is started again on a pack that was ingested meanwhile.
Redeploy ==
    /\ redeploys < MaxRedeploys /\ link = Nothing
    /\ data' \in Datasets
    /\ redeploys' = redeploys + 1
    /\ UNCHANGED <<panel, link>>

\* Requests only read, so one at a time shows all that interleavings could.
Next ==
    \/ \E user \in Users : run_radar(user) \/ detect_issues_tool(user) \/ get_alert(user)
    \/ close
    \/ Redeploy

Spec == Init /\ [][Next]_vars

-----------------------------------------------------------------------------
(* Properties *)

Fresh(shown) == shown # Nothing /\ shown.pack = redeploys

\* The pack without the rows of other accounts.
Visible(pack, scope) ==
    [tickets |-> [t \in search_tickets(pack, scope) |-> pack.tickets[t]],
     orders |-> [o \in search_orders(pack, scope) |-> pack.orders[o]],
     terms |-> pack.terms, plan |-> pack.plan, sla_targets |-> pack.sla_targets,
     mentions |-> pack.mentions, snapshot |-> pack.snapshot]

\* What a caller is shown, counts and failures included, is what an
\* unrestricted caller would be shown if no other account had any ticket or
\* order, and an alert fetched by id is in the caller's own scope, whoever's
\* panel the id came from (rules.py: "an aggregate count computed here can never
\* include a record the caller isn't authorized to see"). restricted_support is
\* shown nothing at all.
OnlyOwnAccountsShow ==
    /\ \A u \in Users : Fresh(panel[u]) =>
          panel[u].response =
              run_operations_radar(Visible(data, panel[u].scope), RoleOf[u], Unrestricted,
                                   panel[u].selection, panel[u].window)
    /\ link # Nothing => \A a \in link.response.alerts : \A c \in a.affected_accounts :
          allows_account(ScopeOf[link.user], c)
    /\ \A u \in Users : RoleOf[u] = "restricted_support" =>
          panel[u] = Nothing /\ (link # Nothing /\ link.user = u => link.response.status = "403")

\* Removing duplicates by alert id loses no finding: two different findings of
\* one run have different ids (service.py, fingerprint.py).
NothingLostToDuplicates ==
    \A u \in Users : Fresh(panel[u]) /\ panel[u].response.status = "200" =>
        panel[u].response.alerts =
            Detected(data, panel[u].scope, panel[u].selection, panel[u].window)

\* Whoever sees more, or looks further back, sees every pattern of a narrower
\* run, with all of its records at least: a threshold reached stays reached. That
\* is so when the wider run ends with 200; an unparsed target among the tickets
\* only it looks at ends it with 500 and no alert. A narrower run never fails
\* where the wider one does not (rules.py, run_operations_radar).
WiderSeesMore ==
    \A u, v \in Users :
        /\ Fresh(panel[u]) /\ Fresh(panel[v])
        /\ panel[v].response.status = "200"
        /\ \A c \in Accounts : allows_account(panel[u].scope, c)
              => allows_account(panel[v].scope, c)
        /\ types_to_run(panel[u].selection) \subseteq types_to_run(panel[v].selection)
        /\ panel[u].window <= panel[v].window
        => /\ panel[u].response.status = "200"
           /\ \A a \in panel[u].response.alerts : \E b \in panel[v].response.alerts :
                 /\ b.alert_type = a.alert_type
                 /\ b.about = a.about
                 /\ a.representative_records \subseteq b.representative_records

\* From the start of the last quarter of its response time a P1 or P2 ticket
\* stays on the panel until it is closed, first as approaching and after the
\* deadline as breached, and in every moment exactly once (detect_sla_breaches
\* and detect_sla_approaching, whose boundaries meet at the deadline).
LastQuarterShownOnce ==
    \A u \in Users :
        /\ Fresh(panel[u]) /\ panel[u].response.status = "200"
        /\ {"sla_breach", "sla_approaching"} \subseteq types_to_run(panel[u].selection)
        => LET shown(t) == {a \in panel[u].response.alerts :
                               /\ a.alert_type \in {"sla_breach", "sla_approaching"}
                               /\ a.representative_records = {t}}
           IN  \A t \in Computable(data, panel[u].scope) :
                  LET age == data.snapshot - data.tickets[t].created_at IN
                  4 * age >= 3 * calculate_sla(data, t).target_minutes => Cardinality(shown(t)) = 1

\* calculate_sla raises on an open ticket of the scope, and with it a run of all rules.
Unparsed(scope) == \E t \in open_tickets(data, scope) : calculate_sla(data, t).trust = "raises"

\* An id keeps its meaning: asking for it returns an alert over the very same
\* records or none, also after another pack was ingested. On the same pack an
\* alert without a window is found again by everyone who may see its accounts,
\* and one of the default window by everyone with the scope it was shown to.
\* The exception is a caller with an open ticket whose target no parser
\* understands: get_alert runs all rules, so it answers 500, even for an alert
\* that a run of other rules showed to the same caller.
LinksKeepTheirMeaning ==
    link # Nothing =>
        /\ \A a \in link.response.alerts :
              /\ a.alert_type = link.asked.alert_type
              /\ a.representative_records = link.asked.representative_records
        /\ /\ link.shown_in = link.pack
           /\ RoleOf[link.user] # "restricted_support"
           /\ \/ /\ link.asked.alert_id[2] = 0
                 /\ \A c \in link.asked.affected_accounts : allows_account(ScopeOf[link.user], c)
              \/ /\ link.asked.alert_id[2] = DEFAULT_WINDOW_DAYS
                 /\ ScopeOf[link.user] = link.shown_to
           => link.response = IF Unparsed(ScopeOf[link.user]) THEN Response("500", {})
                              ELSE Response("200", {link.asked})

=============================================================================
