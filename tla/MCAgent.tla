------------------------------ MODULE MCAgent ------------------------------
(* Questions, callers and databases of the agent for TLC. *)
EXTENDS AgentProperties, TLC

CONSTANTS o1, o2, t1, acme, zeta, policy, agreement, invented

\* acme owns o1 and t1, zeta owns o2; the agreement is zeta's.
MCOwner ==
    (o1 :> acme) @@ (o2 :> zeta) @@ (t1 :> acme) @@ (acme :> acme) @@ (zeta :> zeta)
MCOwners == {MCOwner}
MCDocScope == (policy :> Absent) @@ (agreement :> zeta)

About(ids, signals) ==
    [ids |-> ids, names |-> {}, signals |-> signals, aggregate |-> FALSE, blank |-> FALSE]

\* One question for every branch of the classifier and the clarification gate; the
\* last one needs six tools of every kind, more than the budget allows.
AllQuestions ==
    {About(<<o1>>, {"cancel"}), About(<<o1>>, {"credit"}), About(<<t1>>, {"response_time"}),
     About(<<t1>>, {"severity"}), About(<<o1>>, {"known_issue"}), About(<<o2>>, {"cancel"}),
     About(<<o2, o1>>, {}), About(<<o2, o1>>, {"cancel"}), About(<<t1>>, {}),
     About(<<zeta>>, {"credit"}),
     About(<<>>, {}), About(<<>>, {"sla"}),
     [About(<<>>, {"sla"}) EXCEPT !.aggregate = TRUE],
     [About(<<>>, {}) EXCEPT !.blank = TRUE],
     [About(<<o2>>, {}) EXCEPT !.names = {acme, zeta}],
     About(<<o1, t1>>, {"cancel", "sla"})}
AllScopes == {{acme}, {acme, zeta}, Unrestricted}

OneScope == {{acme}}

CancelQuestion == {About(<<o1>>, {"cancel"})}
OrderQuestion == {About(<<o1>>, {})}

MCAnswers ==
    {{}, {RecordRef(o1)}, {RecordRef(o2)}, {DocRef(policy)}, {<<invented, invented>>}}

=============================================================================
