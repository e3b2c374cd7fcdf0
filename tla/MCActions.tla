----------------------------- MODULE MCActions -----------------------------
(* Workloads of the escalation workflow for TLC: who calls what, on which *)
(* tickets, for the runs named by their prefix.                           *)
EXTENDS ActionsProperties, TLC

CONSTANTS p1, k1, k2, x1, x2, g1, alice, root, t1, acme

\* Race: one proposal, two confirms and two executes of it by one user.
RaceKinds ==
    (p1 :> "prepare") @@ (k1 :> "confirm") @@ (k2 :> "confirm")
      @@ (x1 :> "execute") @@ (x2 :> "execute")
RaceScope == (alice :> {acme})
RaceSymmetry == Permutations({k1, k2}) \cup Permutations({x1, x2})

\* One P1 ticket whose first-response deadline is time 0.
OneAccountOf == (t1 :> acme)
OneSeverity == (t1 :> "P1")
OneDeadline == (t1 :> 0)

\* Window: an admin joins in, somebody reads the action, and time passes.
WindowKinds ==
    (p1 :> "prepare") @@ (k1 :> "confirm") @@ (x1 :> "execute") @@ (g1 :> "get")
WindowScope == (alice :> {acme}) @@ (root :> {acme})

\* Ledger: two confirms race, an execute follows, all by one user.
LedgerKinds == (p1 :> "prepare") @@ (k1 :> "confirm") @@ (k2 :> "confirm") @@ (x1 :> "execute")

=============================================================================
