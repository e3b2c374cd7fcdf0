------------------------------ MODULE Dataset ------------------------------
(* The SQLite file behind the API and everyone who opens it: ingestion runs *)
(* that replace it, requests that read it and record actions in it, the     *)
(* container that decodes a prebuilt one when it boots.                     *)
(*                                                                          *)
(* A file is named by its index in files: unlinking takes it off the path,  *)
(* and whoever has it open goes on reading and writing it.  A statement and *)
(* the transaction it commits is one step; SQLite's locks delay a statement *)
(* or fail it (Fault, IngestFails).  The operator is assumed not to ingest  *)
(* while the container decodes: both would write the bytes of one file.     *)
EXTENDS SourcePack

CONSTANTS
    Packs, Content,     \* the packs, by name, and what is in them
    Ingestions,         \* the operator's ingestion runs
    Requests,           \* API requests
    Offered,            \* the packs an ingestion may be given
    Prebuilt,           \* the packs a database may have been built from beforehand
    NoPack,             \* no dataset: a row or table that is not there
    MaxStarts,          \* bound: how often an ingestion is started
    MaxFaults           \* bound: kills, restarts and failing statements

ASSUME DatasetConstants ==
    /\ Offered \cup Prebuilt \subseteq Packs
    /\ NoPack \notin Packs
    /\ Ingestions \cap Requests = {}
    /\ MaxStarts \in Nat /\ MaxFaults \in Nat

PassesChecks == {p \in Packs : Accepted(Content[p])}
FitsSchema == {p \in Packs : InsertsPass(Content[p])}

\* A prebuilt database is one that an ingestion has built, elsewhere; a manifest is a list.
ASSUME PacksOK ==
    /\ Prebuilt \subseteq PassesChecks \cap FitsSchema
    /\ \A p \in Packs : Len(Content[p].pdfs) \in Nat
                        /\ DOMAIN Content[p].pdfs = 1..Len(Content[p].pdfs)

VARIABLES
    path,       \* the file at PARCELPILOT_DB_PATH, 0 when there is none
    files,      \* every file that was ever created there
    server,     \* "down", "decoding" or "up"
    secret,     \* the database in PARCELPILOT_DB_B64_FILE, or NoPack
    decoded,    \* the file the boot decodes into
    given,      \* ingestion -> the pack it is given
    kind,       \* request -> a probe of /ready, or a route that reads and acts
    pc,         \* where each ingestion and request stands
    conn,       \* the file each has open, 0 before it opens one
    clock,      \* request -> the dataset whose snapshot_time it read, or NoPack
    seen,       \* request -> the datasets its queries answered from
    status,     \* request -> the HTTP status it got, 0 while it has none
    starts,     \* how often an ingestion was started
    faults,     \* how many faults have happened
    replaced    \* history: an ingestion has taken a database off the path

serving == <<server, secret, decoded>>
chosen == <<given, kind>>
asking == <<clock, seen, status>>
history == <<starts, faults, replaced>>
vars == <<path, files, serving, chosen, pc, conn, asking, history>>

\* The tables of schema.sql: meta is created first, "rest" stands for all the others.
Schema == {"meta", "rest"}
File == [tables : SUBSET Schema, meta : Packs \cup {NoPack},
         data : Packs \cup {NoPack}, actions : SUBSET Requests]
EmptyFile == [tables |-> {}, meta |-> NoPack, data |-> NoPack, actions |-> {}]
Database(p) == [tables |-> Schema, meta |-> p, data |-> p, actions |-> {}]

Served == path # 0 /\ \E p \in Packs : files[path].meta = p /\ files[path].data = p

Init ==
    /\ \/ path = 0 /\ files = <<>>
       \/ path = 1 /\ \E p \in Prebuilt : files = <<Database(p)>>
    /\ server = "down" /\ decoded = 0
    /\ secret \in Prebuilt \cup {NoPack}
    /\ given \in [Ingestions -> Offered]
    /\ kind \in [Requests -> {"ready", "act"}]
    /\ pc = [x \in Ingestions \cup Requests |-> "idle"]
    /\ conn = [x \in Ingestions \cup Requests |-> 0]
    /\ clock = [r \in Requests |-> NoPack]
    /\ seen = [r \in Requests |-> {}]
    /\ status = [r \in Requests |-> 0]
    /\ starts = 0 /\ faults = 0 /\ replaced = FALSE

Goto(x, at) == pc' = [pc EXCEPT ![x] = at]

\* The process or the request ends and its connection is closed.
End(x, how) == Goto(x, how) /\ conn' = [conn EXCEPT ![x] = 0]

\* sqlite3.connect: opens the file at the path, creating an empty one if there is none.
connect(x) ==
    /\ IF path = 0
         THEN /\ files' = Append(files, EmptyFile)
              /\ path' = Len(files) + 1
         ELSE UNCHANGED <<path, files>>
    /\ conn' = [conn EXCEPT ![x] = path']

-----------------------------------------------------------------------------
(* Ingestion *)

\* The operator starts it, again if it failed; the checks come before anything else.
Check(i) ==
    /\ pc[i] \in {"idle", "failed", "broken"} /\ starts < MaxStarts
    /\ server # "decoding"
    /\ Goto(i, IF given[i] \in PassesChecks THEN "look" ELSE "refused")
    /\ starts' = starts + 1
    /\ UNCHANGED <<path, files, serving, chosen, conn, asking, faults, replaced>>

\* Mutant: init_db keeps the file that is there.
LookForFile_Keep(i) ==
    /\ pc[i] = "look"
    /\ Goto(i, "open")
    /\ UNCHANGED <<path, files, serving, chosen, conn, asking, history>>

\* init_db: if db_path.exists() ...
LookForFile(i) ==
    /\ pc[i] = "look"
    /\ Goto(i, IF path # 0 THEN "unlink" ELSE "open")
    /\ UNCHANGED <<path, files, serving, chosen, conn, asking, history>>

\* Mutant: init_db empties the file instead of unlinking it.
Unlink_Empties(i) ==
    /\ pc[i] = "unlink" /\ path # 0
    /\ files' = [files EXCEPT ![path] = EmptyFile]
    /\ replaced' = TRUE
    /\ Goto(i, "open")
    /\ UNCHANGED <<path, serving, chosen, conn, asking, starts, faults>>

\* ... db_path.unlink(), which raises when somebody else unlinked the file first.
Unlink(i) ==
    /\ pc[i] = "unlink"
    /\ path' = 0
    /\ replaced' = (replaced \/ path # 0)
    /\ Goto(i, IF path # 0 THEN "open" ELSE "failed")
    /\ UNCHANGED <<files, serving, chosen, conn, asking, starts, faults>>

\* Mutant: the database is built beside the path and never moved there.
OpenNew_Beside(i) ==
    /\ pc[i] = "open"
    /\ files' = Append(files, EmptyFile)
    /\ conn' = [conn EXCEPT ![i] = Len(files) + 1]
    /\ Goto(i, "meta")
    /\ UNCHANGED <<path, serving, chosen, asking, history>>

OpenNew(i) ==
    /\ pc[i] = "open"
    /\ connect(i)
    /\ Goto(i, "meta")
    /\ UNCHANGED <<serving, chosen, asking, history>>

\* executescript(schema.sql): each statement takes effect by itself.  None says IF NOT
\* EXISTS, so the script ends at the first table that is there already.
after == [meta |-> "rest", rest |-> "insert"]
CreateTable(i) ==
    /\ pc[i] \in Schema
    /\ IF pc[i] \in files[conn[i]].tables
         THEN End(i, "failed") /\ UNCHANGED files
         ELSE /\ files' = [files EXCEPT ![conn[i]].tables = @ \cup {pc[i]}]
              /\ Goto(i, after[pc[i]]) /\ UNCHANGED conn
    /\ UNCHANGED <<path, serving, chosen, asking, history>>

\* Mutant: the meta rows are committed before the others.
WriteDb_MetaFirst(i) ==
    /\ pc[i] = "insert"
    /\ IF files[conn[i]].meta = NoPack
         THEN files' = [files EXCEPT ![conn[i]].meta = given[i]] /\ UNCHANGED <<pc, conn>>
         ELSE IF files[conn[i]].data = NoPack /\ given[i] \in FitsSchema
           THEN files' = [files EXCEPT ![conn[i]].data = given[i]] /\ End(i, "complete")
           ELSE End(i, "failed") /\ UNCHANGED files
    /\ UNCHANGED <<path, serving, chosen, asking, history>>

\* _write_db: all rows in one transaction; a constraint that fails rolls it back.
WriteDb(i) ==
    /\ pc[i] = "insert"
    /\ IF files[conn[i]].data = NoPack /\ given[i] \in FitsSchema
         THEN /\ files' = [files EXCEPT ![conn[i]].meta = given[i],
                                        ![conn[i]].data = given[i]]
              /\ End(i, "complete")
         ELSE End(i, "failed") /\ UNCHANGED files
    /\ UNCHANGED <<path, serving, chosen, asking, history>>

\* The process is killed or a statement fails (the disk is full, the file is locked).
Working == {"look", "unlink", "open", "insert"} \cup Schema
IngestFails(i) ==
    /\ pc[i] \in Working /\ faults < MaxFaults
    /\ End(i, "broken")
    /\ faults' = faults + 1
    /\ UNCHANGED <<path, files, serving, chosen, asking, starts, replaced>>

-----------------------------------------------------------------------------
(* Requests *)

Answer(r, code) ==
    /\ status' = [status EXCEPT ![r] = code]
    /\ End(r, "done")

\* get_conn and /ready: Path(db_path).exists().
Ask(r) ==
    /\ server = "up" /\ pc[r] = "idle"
    /\ IF path = 0 THEN Answer(r, 503) ELSE Goto(r, "connect") /\ UNCHANGED <<status, conn>>
    /\ UNCHANGED <<path, files, serving, chosen, clock, seen, history>>

Connect(r) ==
    /\ pc[r] = "connect"
    /\ connect(r)
    /\ Goto(r, "clock")
    /\ UNCHANGED <<serving, chosen, asking, history>>

\* SELECT snapshot_time FROM meta: without the table it raises, which /ready catches.
HasSnapshot(f) == files[f].meta # NoPack

get_clock(r) ==
    /\ pc[r] = "clock" /\ kind[r] # "ready"
    /\ IF HasSnapshot(conn[r])
         THEN Goto(r, "query") /\ UNCHANGED <<status, conn>>
         ELSE Answer(r, IF "meta" \in files[conn[r]].tables THEN 503 ELSE 500)
    /\ clock' = [clock EXCEPT ![r] = files[conn[r]].meta]
    /\ UNCHANGED <<path, files, serving, chosen, seen, history>>

ready(r) ==
    /\ pc[r] = "clock" /\ kind[r] = "ready"
    /\ Answer(r, IF HasSnapshot(conn[r]) THEN 200 ELSE 503)
    /\ clock' = [clock EXCEPT ![r] = files[conn[r]].meta]
    /\ UNCHANGED <<path, files, serving, chosen, seen, history>>

\* The route's queries, one after the other; a table that is missing raises.
Query(r) ==
    /\ pc[r] = "query"
    /\ seen' = [seen EXCEPT ![r] = @ \cup {files[conn[r]].data}]
    /\ IF "rest" \in files[conn[r]].tables
         THEN Goto(r, "query2") /\ UNCHANGED <<status, conn>>
         ELSE Answer(r, 500)
    /\ UNCHANGED <<path, files, serving, chosen, clock, history>>
QueryAgain(r) ==
    /\ pc[r] = "query2"
    /\ seen' = [seen EXCEPT ![r] = @ \cup {files[conn[r]].data}]
    /\ Goto(r, "write")
    /\ UNCHANGED <<path, files, serving, chosen, conn, clock, status, history>>

\* The escalation workflow's INSERT into actions, then the answer.  A route that only
\* reads is one that loses nothing by this step.
WriteAction(r) ==
    /\ pc[r] = "write"
    /\ files' = [files EXCEPT ![conn[r]].actions = @ \cup {r}]
    /\ Answer(r, 200)
    /\ UNCHANGED <<path, serving, chosen, clock, seen, history>>

\* A statement fails: 503 from /ready, 500 from every other route.
Asking == {"connect", "clock", "query", "query2", "write"}
Fault(r) ==
    /\ pc[r] \in Asking \ {"connect"} /\ faults < MaxFaults
    /\ Answer(r, IF kind[r] = "ready" THEN 503 ELSE 500)
    /\ faults' = faults + 1
    /\ UNCHANGED <<path, files, serving, chosen, clock, seen, starts, replaced>>

-----------------------------------------------------------------------------
(* The container: docker-entrypoint.sh, then uvicorn *)

\* Mutant: the entrypoint decodes over the file that is there.
Boot_Overwrites ==
    /\ server = "down"
    /\ secret # NoPack => \A i \in Ingestions : pc[i] \notin Working
    /\ IF secret # NoPack
         THEN /\ server' = "decoding"
              /\ files' = IF path = 0 THEN Append(files, EmptyFile)
                                       ELSE [files EXCEPT ![path] = EmptyFile]
              /\ path' = IF path = 0 THEN Len(files) + 1 ELSE path
              /\ decoded' = path'
         ELSE server' = "up" /\ UNCHANGED <<path, files, decoded>>
    /\ UNCHANGED <<secret, chosen, pc, conn, asking, history>>

\* if [ ! -f "$DB_PATH" ]; then ... base64 -d > "$DB_PATH" creates the file first.
Boot ==
    /\ server = "down"
    /\ path = 0 /\ secret # NoPack => \A i \in Ingestions : pc[i] \notin Working
    /\ IF path = 0 /\ secret # NoPack
         THEN /\ server' = "decoding"
              /\ files' = Append(files, EmptyFile)
              /\ path' = Len(files) + 1
              /\ decoded' = Len(files) + 1
         ELSE server' = "up" /\ UNCHANGED <<path, files, decoded>>
    /\ UNCHANGED <<secret, chosen, pc, conn, asking, history>>

Decoded ==
    /\ server = "decoding"
    /\ files' = [files EXCEPT ![decoded] = Database(secret)]
    /\ server' = "up" /\ decoded' = 0
    /\ UNCHANGED <<path, secret, chosen, pc, conn, asking, history>>

\* The secret is not valid base64: rm -f "$DB_PATH", and the server starts without.
DecodeFails ==
    /\ server = "decoding" /\ faults < MaxFaults
    /\ path' = 0
    /\ server' = "up" /\ decoded' = 0
    /\ faults' = faults + 1
    /\ UNCHANGED <<files, secret, chosen, pc, conn, asking, starts, replaced>>

\* The container is stopped or dies, and its requests with it.
Stop ==
    /\ server # "down" /\ faults < MaxFaults
    /\ server' = "down" /\ decoded' = 0
    /\ faults' = faults + 1
    /\ LET dying == {r \in Requests : pc[r] \in Asking}
       IN  /\ pc' = [x \in DOMAIN pc |-> IF x \in dying THEN "gone" ELSE pc[x]]
           /\ conn' = [x \in DOMAIN pc |-> IF x \in dying THEN 0 ELSE conn[x]]
    /\ UNCHANGED <<path, files, secret, chosen, asking, starts, replaced>>

-----------------------------------------------------------------------------
Ingest(i) ==
    \/ LookForFile(i) \/ Unlink(i) \/ OpenNew(i) \/ CreateTable(i) \/ WriteDb(i)
    \/ (pc[i] \in {"failed", "broken"} /\ Check(i))

Handle(r) ==
    \/ Connect(r) \/ get_clock(r) \/ ready(r) \/ Query(r) \/ QueryAgain(r) \/ WriteAction(r)

Next ==
    \/ \E i \in Ingestions : Check(i) \/ Ingest(i) \/ IngestFails(i)
    \/ \E r \in Requests : Ask(r) \/ Handle(r) \/ Fault(r)
    \/ Boot \/ Decoded \/ DecodeFails \/ Stop

\* As long as a process that has begun can go on, one does; the container is restarted
\* and a failed ingestion is started again.  Nobody has to ask, or to ingest at all.
Progress == (\E i \in Ingestions : Ingest(i)) \/ (\E r \in Requests : Handle(r)) \/ Boot \/ Decoded
Fairness == WF_vars(Progress)

Spec == Init /\ [][Next]_vars /\ Fairness

=============================================================================
