------------------------- MODULE DatasetProperties -------------------------
(* What the service promises about its dataset while it is being replaced.  *)
EXTENDS Dataset

\* Every variable has the type its comment gives it.
TypeOK ==
    /\ files \in Seq(File) /\ path \in 0..Len(files)
    /\ server \in {"down", "decoding", "up"} /\ decoded \in 0..Len(files)
    /\ secret \in Packs \cup {NoPack}
    /\ given \in [Ingestions -> Offered]
    /\ kind \in [Requests -> {"ready", "act"}]
    /\ pc \in [Ingestions \cup Requests ->
                 Working \cup Asking \cup {"idle", "refused", "failed", "broken", "complete", "done", "gone"}]
    /\ conn \in [Ingestions \cup Requests -> 0..Len(files)]
    /\ clock \in [Requests -> Packs \cup {NoPack}]
    /\ seen \in [Requests -> SUBSET (Packs \cup {NoPack})]
    /\ status \in [Requests -> {0, 200, 500, 503}]
    /\ starts \in 0..MaxStarts
    /\ faults \in 0..MaxFaults /\ replaced \in BOOLEAN

\* A request computes from one dataset: all its queries answer from the dataset whose
\* snapshot_time its clock shows, however often the database is replaced meanwhile
\* (get_conn keeps one connection, init_db unlinks instead of emptying the file).
OneDatasetPerRequest ==
    \A r \in Requests : clock[r] # NoPack => seen[r] \subseteq {clock[r]}

\* When get_clock or /ready finds a snapshot_time the whole database is there: rows of
\* every table and the actions table (_write_db writes meta last and commits once).
SnapshotMeansWhole ==
    \A f \in DOMAIN files :
        files[f].meta # NoPack => files[f].data = files[f].meta /\ files[f].tables = Schema

\* What the engines assume of the rows they read: the manifest's facts are the document's
\* own, and no order or ticket is without its account ...
Truthful(p) ==
    /\ \A pdf \in Range(p.pdfs) :
          /\ pdf.page.expiry = pdf.entry.expiry /\ pdf.page.status = pdf.entry.status
          /\ \A link \in {"supersedes", "superseded_by"} :
                pdf.entry[link] # NoValue => \E other \in Range(p.pdfs) :
                    other.id = pdf.entry[link] /\ other.page.version = pdf.page[link]
    /\ \A row \in Range(p.orders) \cup Range(p.tickets) :
          \E n \in DOMAIN p.accounts : p.accounts[n] = row[2]
\* ... and no citation, target or id is ambiguous.
Unambiguous(p) == UniqueChunks(p) /\ UniqueTargets(p) /\ UniqueRows(p)
TruthfulPacks == {p \in Packs : Truthful(Content[p])}
UnambiguousPacks == {p \in Packs : Unambiguous(Content[p])}

\* Only such packs are ever served, whatever packs the operator offers; and offering an
\* untruthful one costs nothing: as long as no other is offered, the database of the start
\* stays where it is (ingest makes these checks before init_db unlinks it).
ServedIsCoherent ==
    /\ Served => files[path].data \in TruthfulPacks \cap UnambiguousPacks
    /\ Range(given) \cap TruthfulPacks = {} => ~replaced

\* An ingestion that reports success, while no other one ever touched the path, has put its
\* dataset where requests look for it, even if a request recreated the file in between.
SuccessIsServed ==
    \A i \in Ingestions :
        pc[i] = "complete" /\ (\A j \in Ingestions \ {i} : pc[j] \in {"idle", "refused"})
          => path # 0 /\ files[path].data = given[i]

\* An action that was acknowledged is in the database requests will read, across faults
\* and restarts of the container: only an ingestion's unlink loses the audit trail.
AcknowledgedSurvives ==
    \A r \in Requests :
        kind[r] = "act" /\ status[r] = 200 /\ ~replaced => path # 0 /\ r \in files[path].actions

\* A rebuild that started ends with a whole database at the path, whatever step it is
\* killed in, however the steps of two of them interleave: what a killed one left behind
\* does not keep the next one from starting afresh.  (One that is
\* killed when no start is left within the bounds is not started again.)
LastStartBroken == starts = MaxStarts /\ "broken" \in Range(pc)
RebuildServes ==
    Range(given) \cap PassesChecks \subseteq FitsSchema
      => \A i \in Ingestions : (pc[i] \in Working) ~> (Served \/ LastStartBroken)

=============================================================================
