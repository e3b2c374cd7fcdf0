--------------------------- MODULE MCActionPanel ---------------------------
(* One page, two identities, two proposals and a radar run more than once. *)
EXTENDS ActionPanel, TLC

CONSTANTS p1, p2, k1, k2, x1, x2, r1, r2, q1, q2, alice, root

MCKinds ==
    (p1 :> "prepare") @@ (p2 :> "prepare") @@ (k1 :> "confirm") @@ (k2 :> "confirm")
      @@ (x1 :> "execute") @@ (x2 :> "execute") @@ (r1 :> "radar") @@ (r2 :> "radar") @@ (q1 :> "chat")
      @@ (q2 :> "chat")
\* Two proposals on their way, one proposal that is executed twice, two radar runs, or two
\* questions.
MCScripts == {{p1, p2, k1, k2, x1}, {p1, k1, x1, x2}, {r1, r2}, {q1, q2}}

=============================================================================
