------------------------------ MODULE MCRadar ------------------------------
(* Data packs of two accounts, at and around every boundary, for TLC. *)
EXTENDS SupportProperties, TLC

CONSTANTS acme, zeta, t1, t2, o1, o2, swift, ki1, ki2, word1, word2, word3, growth,
          admin, agent, restricted

MCRoles == (admin :> "operations_admin") @@ (agent :> "support_agent")
             @@ (restricted :> "restricted_support")
MCScopes == (admin :> Unrestricted) @@ (agent :> {acme}) @@ (restricted :> {zeta})

Now == 72

Signals(p1, p2, p3) == [s \in Severities |-> CASE s = "P1" -> p1 [] s = "P2" -> p2 [] OTHER -> p3]

TicketOf(account, status, created_at, signals, tokens) ==
    [account |-> account, status |-> status, created_at |-> created_at, signals |-> signals,
     tokens |-> tokens]

\* acme's P1 target is 4 and zeta's, by its agreement, 8: a ticket of 69 enters
\* the last quarter of 4 now, one of 67 is past its deadline and one of 64 has
\* reached that of 8. 24 is the oldest moment of two days, 48 that of one.
AcmeTickets ==
    {TicketOf(acme, "open", c, Signals(2, 1, 0), {word1, word2}) : c \in {69, 67}}
      \cup {TicketOf(acme, "open", 24, Signals(1, 1, 0), {word1, word2, word3}),
            TicketOf(acme, "open", 48, Signals(0, 1, 0), {word1, word3})}
AcmeClosed == TicketOf(acme, "closed", 60, Signals(1, 0, 0), {word2, word3})

ZetaP1 == TicketOf(zeta, "open", 64, Signals(1, 0, 0), {word1, word2, word3})
ZetaP2 == TicketOf(zeta, "open", 23, Signals(0, 1, 0), {word1, word2})

OrderOf(account, booked_at, window_end, actual, fault, cancelled) ==
    [account |-> account, carrier |-> swift, status |-> "BOOKED", booked_at |-> booked_at,
     pickup_window_end |-> window_end, pickup_actual_at |-> actual, carrier_fault |-> fault,
     customer_fault |-> FALSE, shipment_fee_inr |-> 4000,
     cancellation_requested_at |-> cancelled]

\* An unmoved order whose delay has passed the threshold, and one whose window ends now.
OrdersA ==
    <<OrderOf(acme, 50, 69, NoTime, TRUE, NoTime), OrderOf(zeta, 24, 72, NoTime, TRUE, NoTime)>>
OrdersB ==
    <<OrderOf(acme, 23, 70, 71, TRUE, NoTime),
      [OrderOf(zeta, 60, 71, NoTime, TRUE, NoTime) EXCEPT !.status = "DRAFT"]>>

\* An unmoved order whose delay has passed the threshold and that is to be cancelled, and
\* one of the account with the waiver that was picked up late, after it was to be cancelled.
OrdersC ==
    <<OrderOf(acme, 50, 69, NoTime, TRUE, 60),
      [OrderOf(zeta, 60, 66, 71, TRUE, 61) EXCEPT !.status = "PICKED_UP"]>>

Row(source, plan, account, severity, kind, minutes) ==
    [source |-> source, plan |-> plan, account_id |-> account, severity |-> severity,
     kind |-> kind, target_minutes |-> minutes]

PolicyRows ==
    {Row(Policy, growth, NoAccount, "P1", "24x7", 4),
     Row(Policy, growth, NoAccount, "P2", "business", 0)}
AgreementRows(kind) == {Row(zeta, NoPlan, zeta, "P1", "24x7", 8), Row(zeta, NoPlan, zeta, "P2", kind, 0)}

MCMentions ==
    {[ki_id |-> ki1, resolved |-> FALSE, tokens |-> {word1, word2}],
     [ki_id |-> ki2, resolved |-> FALSE, tokens |-> {word1, word2, word3}],
     [ki_id |-> ki2, resolved |-> TRUE, tokens |-> {word2, word3}]}

Pack(ticket1, ticket2, orders, expiry, kind) ==
    [tickets |-> (t1 :> ticket1) @@ (t2 :> ticket2),
     orders |-> (o1 :> orders[1]) @@ (o2 :> orders[2]),
     terms |-> (zeta :> [effective_date |-> 0, expiry_date |-> expiry]),
     plan |-> [a \in Accounts |-> growth],
     sla_targets |-> PolicyRows \cup AgreementRows(kind),
     mentions |-> MCMentions,
     snapshot |-> Now]

\* An agreement without an end, one on its last day, whose P2 target no parser
\* understands, and one that has ended.
MCDatasets ==
    {Pack(a, ZetaP1, OrdersA, NoExpiry, "business") : a \in AcmeTickets}
      \cup {Pack(AcmeClosed, ZetaP2, OrdersC, 3, "unparsed"),
            Pack(AcmeClosed, ZetaP2, OrdersB, 2, "unparsed")}

MCFeeRules ==
    (Policy :> [kind |-> "threshold_fee", threshold |-> 1, fee_inr |-> 250])
      @@ (zeta :> [kind |-> "full_waiver", threshold |-> 0, fee_inr |-> 0])
MCCreditRules ==
    (Policy :> [kind |-> "percentage_with_cap", threshold |-> 2, cap_inr |-> 500,
                percentage |-> 10, fixed_amount_inr |-> 0])
      @@ (zeta :> [kind |-> "fixed_amount", threshold |-> 4, cap_inr |-> 0, percentage |-> 0,
                   fixed_amount_inr |-> 300])

MCSelections == {{}, {"recurring_issue", "carrier_pattern"}}
MCAsked == {{zeta}}

=============================================================================
