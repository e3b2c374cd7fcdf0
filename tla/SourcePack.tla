----------------------------- MODULE SourcePack -----------------------------
(* What scripts/ingest_sources.py checks of a source pack before it touches *)
(* the database, and what the schema then checks of the rows.  A pack is    *)
(*   [readable |-> every file is there, matches its checksum and parses,    *)
(*    pdfs     |-> the documents in manifest order, each with the facts its *)
(*                 first page states (page), the facts the manifest states  *)
(*                 (entry) and its sections,                                *)
(*    accounts |-> the ids of the accounts sheet,                           *)
(*    orders, tickets |-> <<id, account>> of the rows of the other sheets]. *)
(* Dates, names and texts are model values: only their equality matters.    *)
EXTENDS Naturals, Sequences, FiniteSetsExt, Functions

CONSTANT NoValue    \* None: a fact that is not stated

SourceStatus == {"CURRENT", "DEPRECATED", "ACTIVE"}
Plans == {"Enterprise", "Growth", "Standard"}
Severities == {"P1", "P2", "P3"}

\* Mutant: expiry_date is not cross-checked.
build_source_document_NoExpiry(pdf) ==
    /\ pdf.page.status \in SourceStatus
    /\ pdf.page.effective # NoValue
    /\ \A fact \in {"status", "effective"} : pdf.page[fact] = pdf.entry[fact]
    /\ pdf.entry.scope = "account" =>
          /\ pdf.page.account # NoValue
          /\ pdf.entry.accounts # {} => pdf.page.account \in pdf.entry.accounts

\* The facts the document and the manifest must agree on, and the account of an agreement.
build_source_document(pdf) ==
    /\ pdf.page.status \in SourceStatus
    /\ pdf.page.effective # NoValue
    /\ \A fact \in {"status", "effective", "expiry"} : pdf.page[fact] = pdf.entry[fact]
    /\ pdf.entry.scope = "account" =>
          /\ pdf.page.account # NoValue
          /\ pdf.entry.accounts # {} => pdf.page.account \in pdf.entry.accounts

account_scope(pdf) == IF pdf.entry.scope = "account" THEN pdf.page.account ELSE NoValue

\* "Supersedes: ... v2" names a version; the last document of that version is meant.
resolve_reference(pdfs, version) ==
    LET named == {i \in DOMAIN pdfs : pdfs[i].page.version = version}
    IN  IF version = NoValue THEN NoValue ELSE pdfs[Max(named)].id

resolve_supersession(pdfs) ==
    \A i \in DOMAIN pdfs : \A link \in {"supersedes", "superseded_by"} :
        LET version == pdfs[i].page[link]
        IN  /\ version # NoValue => \E j \in DOMAIN pdfs : pdfs[j].page.version = version
            /\ pdfs[i].entry[link] = resolve_reference(pdfs, version)

\* A section is [page, number, kind, severities]; its severities are those of a bullet list.
chunk_id(pdf, n) == <<pdf.id, pdf.sections[n].page, pdf.sections[n].number>>

\* A grid yields one target per plan and severity, the bullets of an agreement's
\* support terms one per bullet; <<section, bullet>> tells the occurrences apart.
extract_sla_targets(pdf) ==
    UNION {CASE pdf.sections[n].kind = "grid" ->
                    {[at |-> <<n, 0>>, of |-> <<pdf.id, plan, severity>>] :
                        plan \in Plans, severity \in Severities}
             [] pdf.sections[n].kind = "bullets" /\ pdf.entry.scope = "account" ->
                    {[at |-> <<n, k>>,
                      of |-> <<pdf.id, account_scope(pdf), pdf.sections[n].severities[k]>>] :
                        k \in DOMAIN pdf.sections[n].severities}
             [] OTHER -> {} : n \in DOMAIN pdf.sections}

parse_bullet_targets(pdf) ==
    \A n \in DOMAIN pdf.sections :
        pdf.sections[n].kind = "bullets" /\ pdf.entry.scope = "account"
          => Len(pdf.sections[n].severities) = Cardinality(Severities)

load_workbook(pack) ==
    \A row \in Range(pack.orders) \cup Range(pack.tickets) : row[2] \in Range(pack.accounts)

\* Everything ingest does before init_db; whatever fails raises and ends the run.
Accepted(pack) ==
    /\ pack.readable
    /\ \A pdf \in Range(pack.pdfs) : build_source_document(pdf)
    /\ resolve_supersession(pack.pdfs)
    /\ \A pdf \in Range(pack.pdfs) : parse_bullet_targets(pdf)
    /\ load_workbook(pack)

\* The constraints of schema.sql that the INSERTs of _write_db run into.
UniqueChunks(pack) ==
    \A pdf \in Range(pack.pdfs) : IsInjective([n \in DOMAIN pdf.sections |-> chunk_id(pdf, n)])
UniqueTargets(pack) ==
    \A pdf \in Range(pack.pdfs) : \A a, b \in extract_sla_targets(pdf) : a.of = b.of => a = b
UniqueRows(pack) ==
    /\ IsInjective(pack.accounts)
    /\ IsInjective([n \in DOMAIN pack.orders |-> pack.orders[n][1]])
    /\ IsInjective([n \in DOMAIN pack.tickets |-> pack.tickets[n][1]])
ForeignKeys(pack) ==
    \A row \in Range(pack.orders) \cup Range(pack.tickets) : row[2] \in Range(pack.accounts)

InsertsPass(pack) ==
    UniqueChunks(pack) /\ UniqueTargets(pack) /\ UniqueRows(pack) /\ ForeignKeys(pack)

=============================================================================
