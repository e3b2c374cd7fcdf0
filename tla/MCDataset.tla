----------------------------- MODULE MCDataset -----------------------------
(* Packs, ingestion runs and requests of the dataset for TLC. *)
EXTENDS DatasetProperties, TLC

CONSTANTS old, new, drifted, dangling, twice, i1, i2, r1, policy, deprecated,
          agreement, acme, zeta, o1, d1, d2

Section(n, of, severities) ==
    [page |-> 1, number |-> n, kind |-> of, severities |-> severities]
Global == [status |-> "CURRENT", effective |-> d1, expiry |-> NoValue, account |-> NoValue,
           version |-> NoValue, supersedes |-> NoValue, superseded_by |-> NoValue]
Entry == [status |-> "CURRENT", effective |-> d1, expiry |-> NoValue, scope |-> "global",
          accounts |-> {}, supersedes |-> NoValue, superseded_by |-> NoValue]

\* A policy that supersedes an older one, and an agreement with acme.
Policy ==
    [id |-> policy, page |-> [Global EXCEPT !.version = 3, !.supersedes = 2],
     entry |-> [Entry EXCEPT !.supersedes = deprecated],
     sections |-> <<Section(1, "text", <<>>), Section(2, "grid", <<>>)>>]
Deprecated ==
    [id |-> deprecated,
     page |-> [Global EXCEPT !.status = "DEPRECATED", !.version = 2, !.superseded_by = 3],
     entry |-> [Entry EXCEPT !.status = "DEPRECATED", !.superseded_by = policy],
     sections |-> <<Section(1, "grid", <<>>)>>]
Agreement ==
    [id |-> agreement,
     page |-> [Global EXCEPT !.status = "ACTIVE", !.expiry = d2, !.account = acme],
     entry |-> [Entry EXCEPT !.status = "ACTIVE", !.expiry = d2, !.scope = "account",
                             !.accounts = {acme}],
     sections |-> <<Section(1, "bullets", <<"P1", "P2", "P3">>)>>]
Sound == [readable |-> TRUE, pdfs |-> <<Policy, Deprecated, Agreement>>,
          accounts |-> <<acme>>, orders |-> <<<<o1, acme>>>>, tickets |-> <<>>]

\* The agreement's term was extended in the document only; an order of an unknown account;
\* a numbered list in the agreement that reads like a second section 1.
MCContent ==
    (old :> Sound) @@ (new :> Sound)
      @@ (drifted :> [Sound EXCEPT !.pdfs[3].page.expiry = d1])
      @@ (dangling :> [Sound EXCEPT !.orders = <<<<o1, zeta>>>>])
      @@ (twice :> [Sound EXCEPT !.pdfs[3].sections = Append(@, Section(1, "text", <<>>))])

=============================================================================
