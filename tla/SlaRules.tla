------------------------------ MODULE SlaRules ------------------------------
(***************************************************************************)
(* First-response deadlines: how severe a ticket is (domain/severity.py),  *)
(* whose clause governs it (policy/applicability.py) and how far past its  *)
(* deadline it is (domain/sla.py). Pure operators over a database, read    *)
(* with nothing but the ticket's own account.                              *)
(*                                                                         *)
(* A ticket's text is the number of definition signals of each severity    *)
(* that the patterns find in it. Times are numbers of one unit, dates      *)
(* numbers of DAY units. Evidence, reasons and the review flag, which the  *)
(* detection rules do not read, are left out.                              *)
(***************************************************************************)
EXTENDS Integers

CONSTANTS
    Accounts,
    Plans,
    Tickets,
    Tokens,      \* the significant words of tickets and known issues
    Overrides,   \* the accounts with an SLA_FIRST_RESPONSE entry in AGREEMENT_OVERRIDES
    Policy,      \* the source DEFAULT_SOURCE names for SLA_FIRST_RESPONSE
    NoExpiry,    \* expiry_date is None
    NoAccount,   \* account_id is None in a row of sla_targets
    NoPlan,      \* plan is None in a row of sla_targets
    DAY

ASSUME SlaConstants ==
    /\ Overrides \subseteq Accounts
    /\ NoAccount \notin Accounts
    /\ Policy \notin Accounts
    /\ DAY \in Nat \ {0}

Severities == {"P1", "P2", "P3"}

Ticket ==
    [account: Accounts, status: {"open", "closed"}, created_at: Int,
     signals: [Severities -> Nat], tokens: SUBSET Tokens]

\* An account's agreement is the source with the account's own name.
Term == [effective_date: Int, expiry_date: {NoExpiry} \cup Int]

\* What _parse_duration finds in a target: a duration, business time or neither.
SlaTarget ==
    [source: Accounts \cup {Policy}, plan: Plans \cup {NoPlan},
     account_id: Accounts \cup {NoAccount}, severity: Severities,
     kind: {"24x7", "business", "unparsed"}, target_minutes: Nat]

-----------------------------------------------------------------------------
\* The severity with strictly the most signals, if there is one.
classify_severity(ticket) ==
    IF \E s \in Severities : \A o \in Severities \ {s} : ticket.signals[s] > ticket.signals[o]
    THEN CHOOSE s \in Severities :
            \A o \in Severities \ {s} : ticket.signals[s] > ticket.signals[o]
    ELSE "none"

is_active_at(term, date) ==
    /\ term.effective_date <= date
    /\ term.expiry_date = NoExpiry \/ date <= term.expiry_date

\* The agreement governs while its term lasts, the policy otherwise.
resolve_applicability(db, account) ==
    IF account \in Overrides /\ is_active_at(db.terms[account], db.snapshot \div DAY)
    THEN account ELSE Policy

Matching(db, source, account, severity) ==
    {row \in db.sla_targets :
        /\ row.source = source
        /\ row.severity = severity
        /\ row.plan = db.plan[account] \/ row.account_id = account}

\* ORDER BY (account_id IS NOT NULL) DESC: a row of the account comes first.
lookup_sla_target(db, source, account, severity) ==
    LET rows == Matching(db, source, account, severity)
        own  == {row \in rows : row.account_id # NoAccount}
    IN  IF own # {} THEN own ELSE rows

\* LIMIT 1: which of equally good rows it is, the order does not say.
fetchone(rows) == CHOOSE row \in rows : TRUE

Outcome(trust, severity, minutes, elapsed) ==
    [trust |-> trust, severity |-> severity, target_minutes |-> minutes, elapsed |-> elapsed]

elapsed_minutes(db, ticket, minutes) == db.snapshot - (ticket.created_at + minutes)

\* "raises" is the TypeError of timedelta(minutes=None).
calculate_sla(db, t) ==
    LET ticket   == db.tickets[t]
        severity == classify_severity(ticket)
        source   == resolve_applicability(db, ticket.account)
        rows     == lookup_sla_target(db, source, ticket.account, severity)
        target   == fetchone(rows)
    IN  IF severity = "none" \/ rows = {} THEN Outcome("UNCERTAIN", "none", 0, 0)
        ELSE IF target.kind = "business" THEN Outcome("CONDITIONAL", severity, 0, 0)
        ELSE IF target.kind = "unparsed" THEN Outcome("raises", severity, 0, 0)
        ELSE Outcome("CONFIDENT", severity, target.target_minutes,
                     elapsed_minutes(db, ticket, target.target_minutes))

breached(outcome) == outcome.elapsed > 0

=============================================================================
