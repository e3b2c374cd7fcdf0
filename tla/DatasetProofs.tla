---------------------------- MODULE DatasetProofs ----------------------------
(***************************************************************************)
(* The dataset for every number of ingestion runs and requests, every set  *)
(* of packs and every number of restarts and faults: no request mixes two  *)
(* datasets, a database with a snapshot time is whole and coherent, and    *)
(* what was acknowledged stays.                                            *)
(***************************************************************************)
EXTENDS DatasetProperties, SequenceTheorems, WellFoundedInduction, TLAPS

\* What may come to be served.
SoundPacks == PassesChecks \cap FitsSchema

\* The rows of a file are those of the sound pack its meta row names.
FileOK(f) ==
    /\ files[f].data = files[f].meta
    /\ files[f].meta # NoPack => files[f].tables = Schema /\ files[f].meta \in SoundPacks

\* What an ingestion has found or made of its file so far.
IngestionOK(i) ==
    /\ pc[i] \notin {"idle", "refused"} => given[i] \in PassesChecks
    /\ pc[i] \in Schema \cup {"insert"} =>
          /\ conn[i] \in DOMAIN files
          /\ pc[i] = "rest" => "meta" \in files[conn[i]].tables
          /\ pc[i] = "insert" => files[conn[i]].tables = Schema

\* No other ingestion has touched the path.
Alone(i) == \A j \in Ingestions \ {i} : pc[j] \in {"idle", "refused"}

AloneOK(i) ==
    Alone(i) =>
        /\ pc[i] \in Schema \cup {"insert"} => path = conn[i]
        /\ pc[i] = "complete" =>
              path # 0 /\ files[path].data = given[i] /\ server # "decoding"

\* What a request has read is still what its file says.
RequestOK(r) ==
    /\ pc[r] \in {"idle", "connect", "clock"} => seen[r] = {}
    /\ pc[r] \in {"clock", "query", "query2", "write"} =>
          conn[r] \in DOMAIN files /\ (~replaced => path = conn[r])
    /\ pc[r] \in {"query", "query2", "write"} =>
          clock[r] # NoPack /\ clock[r] = files[conn[r]].meta
    /\ clock[r] # NoPack => seen[r] \subseteq {clock[r]}

Acknowledged(r) == kind[r] = "act" /\ status[r] = 200 /\ ~replaced
AcknowledgedOK(r) == Acknowledged(r) => path # 0 /\ r \in files[path].actions

\* Nobody uses the database while the container is down or decodes one.
ServerOK ==
    /\ secret \in SoundPacks \cup {NoPack}
    /\ server # "up" => \A r \in Requests : pc[r] \notin Asking
    /\ server = "decoding" =>
          /\ decoded \in DOMAIN files /\ secret # NoPack
          /\ \A i \in Ingestions : pc[i] \notin Working
          /\ \A r \in Requests : ~Acknowledged(r)

\* Only an ingestion whose pack passed the checks replaces.
ReplacedOK == replaced => \E i \in Ingestions : given[i] \in PassesChecks

DatasetInv ==
    /\ TypeOK
    /\ \A f \in DOMAIN files : FileOK(f)
    /\ \A i \in Ingestions : IngestionOK(i) /\ AloneOK(i)
    /\ \A r \in Requests : RequestOK(r) /\ AcknowledgedOK(r)
    /\ ServerOK
    /\ ReplacedOK

-----------------------------------------------------------------------------
(* Files *)

LEMMA UpdateFile ==
    ASSUME files \in Seq(File), NEW k \in DOMAIN files, NEW file \in File,
           files' = [files EXCEPT ![k] = file]
    PROVE  /\ files' \in Seq(File) /\ Len(files') = Len(files) /\ DOMAIN files' = DOMAIN files
           /\ files'[k] = file /\ \A f \in DOMAIN files \ {k} : files'[f] = files[f]
<1>1. k \in 1..Len(files) /\ DOMAIN files = 1..Len(files)
  BY LenProperties
<1>2. files' \in Seq(File) /\ Len(files') = Len(files)
  BY <1>1, ExceptSeq
<1>3. QED
  BY <1>1, <1>2

LEMMA AppendFile ==
    ASSUME files \in Seq(File), files' = Append(files, EmptyFile)
    PROVE  /\ files' \in Seq(File) /\ Len(files') = Len(files) + 1 /\ Len(files) \in Nat
           /\ DOMAIN files = 1..Len(files) /\ DOMAIN files' = 1..Len(files) + 1
           /\ files'[Len(files) + 1] = EmptyFile /\ EmptyFile \in File
           /\ \A f \in DOMAIN files : files'[f] = files[f]
<1>1. EmptyFile \in File
  BY DEF EmptyFile, File
<1>2. QED
  BY <1>1, AppendProperties, LenProperties

\* connect only adds a file, when there is none at the path.
LEMMA ConnectFacts ==
    ASSUME TypeOK, NEW x \in Ingestions \cup Requests, connect(x)
    PROVE  /\ files' \in Seq(File) /\ path' \in DOMAIN files' /\ Len(files) <= Len(files')
           /\ conn'[x] = path' /\ conn' \in [Ingestions \cup Requests -> 0..Len(files')]
           /\ \A y \in (Ingestions \cup Requests) \ {x} : conn'[y] = conn[y]
           /\ \A f \in DOMAIN files : f \in DOMAIN files' /\ files'[f] = files[f]
           /\ \A f \in DOMAIN files' : f \in DOMAIN files \/ files'[f] = EmptyFile
           /\ path # 0 => path' = path
<1>1. /\ files \in Seq(File) /\ Len(files) \in Nat /\ DOMAIN files = 1..Len(files)
      /\ path \in 0..Len(files)
      /\ conn \in [Ingestions \cup Requests -> 0..Len(files)] /\ conn' = [conn EXCEPT ![x] = path']
  BY LenProperties DEF TypeOK, connect
<1>2. CASE path = 0
  BY <1>1, <1>2, AppendFile DEF connect
<1>3. CASE path # 0
  BY <1>1, <1>3 DEF connect
<1>4. QED
  BY <1>2, <1>3

\* What a file keeps while it is open: nothing is taken from it, a dataset stays.
Kept(f) ==
    /\ f \in DOMAIN files'
    /\ files[f].tables \subseteq files'[f].tables /\ files[f].actions \subseteq files'[f].actions
    /\ files[f].meta # NoPack => files'[f].meta = files[f].meta

FilesKept ==
    /\ \A f \in DOMAIN files : Kept(f)
    /\ \A f \in DOMAIN files' : FileOK(f)'

\* What a request has read stays right under the steps of others.
LEMMA RequestKept ==
    ASSUME NEW r \in Requests, RequestOK(r), pc'[r] = pc[r], conn'[r] = conn[r],
           clock'[r] = clock[r], seen'[r] = seen[r],
           \A f \in DOMAIN files : Kept(f),
           ~replaced' => ~replaced /\ (path \in DOMAIN files => path' = path)
    PROVE  RequestOK(r)'
<1>1. pc[r] \in {"idle", "connect", "clock"} => seen'[r] = {}
  BY DEF RequestOK
<1>2. pc[r] \in {"clock", "query", "query2", "write"} =>
         conn'[r] \in DOMAIN files' /\ (~replaced' => path' = conn'[r])
  BY DEF RequestOK, Kept
<1>3. pc[r] \in {"query", "query2", "write"} =>
         clock'[r] # NoPack /\ clock'[r] = files'[conn'[r]].meta
  BY DEF RequestOK, Kept
<1>4. clock'[r] # NoPack => seen'[r] \subseteq {clock'[r]}
  BY DEF RequestOK
<1>5. QED
  BY <1>1, <1>2, <1>3, <1>4 DEF RequestOK

LEMMA AcknowledgedKept ==
    ASSUME NEW r \in Requests, AcknowledgedOK(r), Acknowledged(r)' => Acknowledged(r),
           path # 0 => path \in DOMAIN files, \A f \in DOMAIN files : Kept(f),
           ~replaced' => ~replaced /\ (path \in DOMAIN files => path' = path)
    PROVE  AcknowledgedOK(r)'
<1> SUFFICES ASSUME Acknowledged(r)' PROVE path' # 0 /\ r \in files'[path'].actions
  BY DEF AcknowledgedOK
<1>1. path # 0 /\ r \in files[path].actions /\ ~replaced'
  BY DEF AcknowledgedOK, Acknowledged
<1>2. path' = path /\ Kept(path)
  BY <1>1
<1>3. QED
  BY <1>1, <1>2 DEF Kept

LEMMA SameFiles ==
    ASSUME DatasetInv, UNCHANGED files
    PROVE  FilesKept
BY DEF DatasetInv, FilesKept, Kept, FileOK

LEMMA MoreFiles ==
    ASSUME DatasetInv,
           \A f \in DOMAIN files : f \in DOMAIN files' /\ files'[f] = files[f],
           \A f \in DOMAIN files' : f \in DOMAIN files \/ files'[f] = EmptyFile
    PROVE  FilesKept
BY DEF DatasetInv, FilesKept, Kept, FileOK, EmptyFile

LEMMA OneFile ==
    ASSUME DatasetInv, NEW k \in DOMAIN files, NEW file \in File,
           files' = [files EXCEPT ![k] = file],
           files[k].tables \subseteq file.tables, files[k].actions \subseteq file.actions,
           files[k].meta # NoPack => file.meta = files[k].meta,
           file.data = file.meta,
           file.meta # NoPack => file.tables = Schema /\ file.meta \in SoundPacks
    PROVE  FilesKept /\ files' \in Seq(File) /\ Len(files') = Len(files)
<1>1. files \in Seq(File)
  BY DEF DatasetInv, TypeOK
<1>2. /\ files' \in Seq(File) /\ Len(files') = Len(files) /\ DOMAIN files' = DOMAIN files
      /\ files'[k] = file /\ \A f \in DOMAIN files \ {k} : files'[f] = files[f]
  BY <1>1, UpdateFile
<1>3. QED
  BY <1>2 DEF DatasetInv, FilesKept, Kept, FileOK

-----------------------------------------------------------------------------
(* Steps *)

Actor == Ingestions \cup Requests
OthersStay(x) == \A y \in Actor \ {x} : pc'[y] = pc[y] /\ conn'[y] = conn[y]

Ingests(i) == Check(i) \/ Ingest(i) \/ IngestFails(i)
Asks(r) == Ask(r) \/ Handle(r) \/ Fault(r)

LEMMA DatasetInit == Init => DatasetInv
<1> SUFFICES ASSUME Init PROVE DatasetInv
  OBVIOUS
<1>1. \A p \in Prebuilt : p \in SoundPacks /\ p \in Packs /\ p # NoPack
  BY PacksOK, DatasetConstants DEF SoundPacks, PassesChecks
<1>2. /\ files \in Seq(File) /\ path \in 0..Len(files) /\ Len(files) \in Nat
      /\ \A f \in DOMAIN files : FileOK(f)
  <2>1. CASE path = 0 /\ files = <<>>
    BY <2>1 DEF FileOK
  <2>2. ASSUME NEW p \in Prebuilt, path = 1, files = <<Database(p)>> PROVE <1>2!:
    <3>1. Database(p) \in File
      BY <1>1 DEF Database, File
    <3>2. QED
      BY <1>1, <2>2, <3>1 DEF FileOK, Database
  <2>3. QED
    BY <2>1, <2>2 DEF Init
<1>3. TypeOK
  <2>1. /\ server \in {"down", "decoding", "up"} /\ decoded \in 0..Len(files)
        /\ secret \in Packs \cup {NoPack}
        /\ starts \in 0..MaxStarts /\ faults \in 0..MaxFaults /\ replaced \in BOOLEAN
    <3>1. server = "down" /\ decoded = 0 /\ starts = 0 /\ faults = 0 /\ replaced = FALSE
      BY DEF Init
    <3>2. secret \in Prebuilt \cup {NoPack}
      BY DEF Init
    <3>3. secret \in Packs \cup {NoPack}
      BY <1>1, <3>2
    <3>4. MaxStarts \in Nat /\ MaxFaults \in Nat
      BY DatasetConstants
    <3>5. starts \in 0..MaxStarts /\ faults \in 0..MaxFaults /\ decoded \in 0..Len(files)
      BY <1>2, <3>1, <3>4
    <3>6. QED
      BY <3>1, <3>3, <3>5
  <2>2. /\ given \in [Ingestions -> Offered] /\ kind \in [Requests -> {"ready", "act"}]
        /\ clock \in [Requests -> Packs \cup {NoPack}]
        /\ seen \in [Requests -> SUBSET (Packs \cup {NoPack})]
        /\ status \in [Requests -> {0, 200, 500, 503}]
    BY DEF Init
  <2>3. conn \in [Ingestions \cup Requests -> 0..Len(files)]
    BY <1>2 DEF Init
  <2>4. QED
    BY <1>2, <2>1, <2>2, <2>3 DEF Init, TypeOK
<1>4. \A i \in Ingestions : IngestionOK(i) /\ AloneOK(i)
  BY DEF Init, IngestionOK, AloneOK, Schema
<1>5. \A r \in Requests : RequestOK(r) /\ AcknowledgedOK(r)
  BY DEF Init, RequestOK, AcknowledgedOK, Acknowledged
<1>6. ServerOK /\ ReplacedOK
  BY <1>1 DEF Init, ServerOK, ReplacedOK, Asking
<1>7. QED
  BY <1>2, <1>3, <1>4, <1>5, <1>6 DEF DatasetInv

\* Where ingestions and requests may stand.
Places ==
    Working \cup Asking \cup {"idle", "refused", "failed", "broken", "complete", "done", "gone"}

LEMMA Moving ==
    ASSUME TypeOK, NEW x \in Actor, NEW at \in Places
    PROVE  /\ Goto(x, at) => /\ pc' \in [Actor -> Places] /\ pc'[x] = at
                             /\ \A y \in Actor \ {x} : pc'[y] = pc[y]
           /\ End(x, at) => /\ pc' \in [Actor -> Places] /\ pc'[x] = at /\ OthersStay(x)
                            /\ conn' \in [Actor -> 0..Len(files)] /\ conn'[x] = 0
<1>1. pc \in [Actor -> Places]
  BY DEF TypeOK, Actor, Places
<1>2. conn \in [Actor -> 0..Len(files)] /\ 0 \in 0..Len(files)
  BY LenProperties DEF TypeOK, Actor
<1>3. Goto(x, at) => /\ pc' \in [Actor -> Places] /\ pc'[x] = at
                     /\ \A y \in Actor \ {x} : pc'[y] = pc[y]
  BY <1>1 DEF Goto
<1>4. QED
  BY <1>2, <1>3 DEF End, OthersStay

LEMMA Moves ==
    ASSUME TypeOK, NEW x \in Actor, NEW at \in Places,
           \/ Goto(x, at) /\ conn' = conn
           \/ End(x, at)
    PROVE  /\ OthersStay(x) /\ pc'[x] = at
           /\ pc' \in [Actor -> Places] /\ conn' \in [Actor -> 0..Len(files)]
<1>1. conn \in [Actor -> 0..Len(files)]
  BY DEF TypeOK, Actor
<1>2. CASE Goto(x, at) /\ conn' = conn
  BY <1>1, <1>2, Moving DEF OthersStay
<1>3. CASE End(x, at)
  BY <1>3, Moving
<1>4. QED
  BY <1>2, <1>3

\* What an ingestion's step leaves to everyone else.
IngestFrame(i) ==
    /\ OthersStay(i) /\ pc' \in [Actor -> Places] /\ conn' \in [Actor -> 0..Len(files')]
    /\ files' \in Seq(File) /\ path' \in 0..Len(files') /\ Len(files) <= Len(files')
    /\ FilesKept
    /\ UNCHANGED <<serving, chosen, asking>>
    /\ starts' \in 0..MaxStarts /\ faults' \in 0..MaxFaults /\ replaced' \in BOOLEAN
    /\ ~replaced' => ~replaced /\ (path # 0 => path' = path)
    /\ path' = path \/ pc[i] \in {"unlink", "open"}

\* Steps of an ingestion that leave the files and the path alone.
LEMMA QuietIngest ==
    ASSUME DatasetInv, NEW i \in Ingestions, NEW at \in Places,
           \/ Goto(i, at) /\ conn' = conn
           \/ End(i, at),
           UNCHANGED <<path, files, serving, chosen, asking, replaced>>,
           starts' \in 0..MaxStarts, faults' \in 0..MaxFaults
    PROVE  IngestFrame(i)
<1>1. TypeOK /\ i \in Actor
  BY DEF DatasetInv, Actor
<1>2. OthersStay(i) /\ pc' \in [Actor -> Places] /\ conn' \in [Actor -> 0..Len(files)]
  BY <1>1, Moves
<1>3. Len(files) \in Nat
  BY <1>1, LenProperties DEF TypeOK
<1>4. QED
  BY <1>1, <1>2, <1>3, SameFiles DEF IngestFrame, TypeOK

LEMMA IngestFacts ==
    ASSUME DatasetInv, NEW i \in Ingestions, Ingests(i)
    PROVE  IngestFrame(i)
<1>0. TypeOK /\ i \in Actor /\ IngestionOK(i) /\ Len(files) \in Nat /\ DOMAIN files = 1..Len(files)
  BY LenProperties DEF DatasetInv, TypeOK, Actor
<1>1. starts \in 0..MaxStarts /\ faults \in 0..MaxFaults /\ MaxStarts \in Nat /\ MaxFaults \in Nat
  BY <1>0, DatasetConstants DEF TypeOK
<1>2. CASE Check(i)
  <2>1. starts' \in 0..MaxStarts
    BY <1>1, <1>2 DEF Check
  <2>2. PICK at \in {"look", "refused"} : Goto(i, at)
    BY <1>2 DEF Check
  <2>3. QED
    BY <1>1, <1>2, <2>1, <2>2, QuietIngest DEF Check, Places, Working
<1>3. CASE LookForFile(i)
  <2>1. PICK at \in {"unlink", "open"} : Goto(i, at)
    BY <1>3 DEF LookForFile
  <2>2. QED
    BY <1>1, <1>3, <2>1, QuietIngest DEF LookForFile, Places, Working, history
<1>4. CASE Unlink(i)
  <2>1. PICK at \in {"open", "failed"} : Goto(i, at)
    BY <1>4 DEF Unlink
  <2>2. OthersStay(i) /\ pc' \in [Actor -> Places]
    BY <1>0, <1>4, <2>1, Moving DEF Unlink, OthersStay, Places, Working
  <2>3. FilesKept
    BY <1>4, SameFiles DEF Unlink
  <2>4. replaced' \in BOOLEAN /\ (~replaced' => ~replaced /\ path = 0)
    BY <1>4 DEF Unlink
  <2>5. conn' \in [Actor -> 0..Len(files')] /\ files' \in Seq(File)
    BY <1>0, <1>4 DEF Unlink, TypeOK, Actor
  <2>6. QED
    BY <1>0, <1>1, <1>4, <2>2, <2>3, <2>4, <2>5 DEF IngestFrame, Unlink
<1>5. CASE OpenNew(i)
  <2>1. connect(i) /\ Goto(i, "meta")
    BY <1>5 DEF OpenNew
  <2>2. pc' \in [Actor -> Places] /\ \A y \in Actor \ {i} : pc'[y] = pc[y]
    BY <1>0, <2>1, Moving DEF Places, Working, Schema
  <2>3. FilesKept
    BY <1>0, <2>1, ConnectFacts, MoreFiles
  <2>4. files' \in Seq(File) /\ path' \in 0..Len(files') /\ Len(files) <= Len(files')
    BY <1>0, <2>1, ConnectFacts, LenProperties
  <2>5. conn' \in [Actor -> 0..Len(files')] /\ OthersStay(i)
    BY <1>0, <2>1, <2>2, ConnectFacts DEF OthersStay, Actor
  <2>6. (path # 0 => path' = path) /\ (path' = path \/ pc[i] = "open") /\ replaced' = replaced
    BY <1>0, <1>5, <2>1, ConnectFacts DEF OpenNew, history
  <2>7. QED
    BY <1>0, <1>1, <1>5, <2>2, <2>3, <2>4, <2>5, <2>6 DEF IngestFrame, OpenNew, history, TypeOK
<1>6. CASE CreateTable(i)
  <2>1. CASE pc[i] \in files[conn[i]].tables
    BY <1>1, <1>6, <2>1, QuietIngest DEF CreateTable, Places, history
  <2>2. CASE pc[i] \notin files[conn[i]].tables
    <3>1. conn[i] \in DOMAIN files /\ files[conn[i]] \in File /\ FileOK(conn[i]) /\ pc[i] \in Schema
      BY <1>0, <1>6, ElementOfSeq DEF CreateTable, IngestionOK, DatasetInv, TypeOK
    <3> DEFINE file == [files[conn[i]] EXCEPT !.tables = @ \cup {pc[i]}]
    <3>2. /\ file \in File /\ files' = [files EXCEPT ![conn[i]] = file]
          /\ file.tables = files[conn[i]].tables \cup {pc[i]} /\ file.actions = files[conn[i]].actions
          /\ file.meta = files[conn[i]].meta /\ file.data = files[conn[i]].data
      BY <1>6, <2>2, <3>1 DEF CreateTable, File
    <3> HIDE DEF file
    <3>3. file.meta # NoPack => file.tables = Schema /\ file.meta \in SoundPacks
      BY <3>1, <3>2 DEF FileOK
    <3>4. file.data = file.meta
      BY <3>1, <3>2 DEF FileOK
    <3>5. FilesKept /\ files' \in Seq(File) /\ Len(files') = Len(files)
      BY <3>1, <3>2, <3>3, <3>4, OneFile
    <3>6. after[pc[i]] \in {"rest", "insert"} /\ Goto(i, after[pc[i]]) /\ conn' = conn
      BY <1>6, <2>2, <3>1 DEF CreateTable, Schema, after
    <3>7. OthersStay(i) /\ pc' \in [Actor -> Places]
      BY <1>0, <3>6, Moving DEF OthersStay, Places, Working, Schema
    <3>8. conn' \in [Actor -> 0..Len(files')] /\ path' \in 0..Len(files') /\ path' = path
      BY <1>0, <1>6, <3>5, <3>6 DEF TypeOK, Actor, CreateTable
    <3>9. QED
      BY <1>0, <1>1, <1>6, <3>5, <3>7, <3>8 DEF IngestFrame, CreateTable, history, TypeOK
  <2>3. QED
    BY <2>1, <2>2
<1>7. CASE WriteDb(i)
  <2> DEFINE Fits == files[conn[i]].data = NoPack /\ given[i] \in FitsSchema
  <2>1. CASE ~Fits
    BY <1>1, <1>7, <2>1, QuietIngest DEF WriteDb, Places, history
  <2>2. CASE Fits
    <3>1. conn[i] \in DOMAIN files /\ files[conn[i]] \in File /\ FileOK(conn[i])
            /\ files[conn[i]].tables = Schema /\ given[i] \in SoundPacks /\ given[i] \in Packs
      BY <1>0, <1>7, <2>2, ElementOfSeq
      DEF WriteDb, IngestionOK, DatasetInv, TypeOK, SoundPacks, PassesChecks
    <3> DEFINE file == [files[conn[i]] EXCEPT !.meta = given[i], !.data = given[i]]
    <3>2. /\ file \in File /\ files' = [files EXCEPT ![conn[i]] = file]
          /\ file.tables = files[conn[i]].tables /\ file.actions = files[conn[i]].actions
          /\ file.meta = given[i] /\ file.data = given[i]
      BY <1>7, <2>2, <3>1 DEF WriteDb, File
    <3> HIDE DEF file
    <3>3. files[conn[i]].meta = NoPack
      BY <2>2, <3>1 DEF FileOK
    <3>4. FilesKept /\ files' \in Seq(File) /\ Len(files') = Len(files)
      BY <3>1, <3>2, <3>3, OneFile
    <3>5. End(i, "complete")
      BY <1>7, <2>2 DEF WriteDb
    <3>6. OthersStay(i) /\ pc' \in [Actor -> Places] /\ conn' \in [Actor -> 0..Len(files)]
      BY <1>0, <3>5, Moving DEF Places
    <3>7. QED
      BY <1>0, <1>1, <1>7, <3>4, <3>6 DEF IngestFrame, WriteDb, history, TypeOK
  <2>3. QED
    BY <2>1, <2>2
<1>8. CASE IngestFails(i)
  <2>1. faults' \in 0..MaxFaults
    BY <1>1, <1>8 DEF IngestFails
  <2>2. QED
    BY <1>1, <1>8, <2>1, QuietIngest DEF IngestFails, Places
<1>9. QED
  BY <1>2, <1>3, <1>4, <1>5, <1>6, <1>7, <1>8 DEF Ingests, Ingest

\* A request reads and answers for itself.
ReplyFrame(r) ==
    /\ clock' \in [Requests -> Packs \cup {NoPack}]
    /\ seen' \in [Requests -> SUBSET (Packs \cup {NoPack})]
    /\ status' \in [Requests -> {0, 200, 500, 503}]
    /\ \A q \in Requests \ {r} :
          clock'[q] = clock[q] /\ seen'[q] = seen[q] /\ status'[q] = status[q]

\* A request changes at most its own place in a table of the replies.
Sets(f, g, r, T) == g \in [Requests -> T] /\ \A q \in Requests \ {r} : g[q] = f[q]
ClockSet(r) == Sets(clock, clock', r, Packs \cup {NoPack})
SeenSet(r) == Sets(seen, seen', r, SUBSET (Packs \cup {NoPack}))
StatusSet(r) == Sets(status, status', r, {0, 200, 500, 503})

LEMMA Replies ==
    ASSUME NEW r \in Requests, ClockSet(r), SeenSet(r), StatusSet(r)
    PROVE  ReplyFrame(r)
BY DEF ClockSet, SeenSet, StatusSet, Sets, ReplyFrame

LEMMA NothingSet ==
    ASSUME TypeOK, NEW r \in Requests
    PROVE  /\ clock' = clock => ClockSet(r)
           /\ seen' = seen => SeenSet(r)
           /\ status' = status => StatusSet(r)
<1>1. clock' = clock => ClockSet(r)
  BY DEF TypeOK, ClockSet, Sets
<1>2. seen' = seen => SeenSet(r)
  BY DEF TypeOK, SeenSet, Sets
<1>3. status' = status => StatusSet(r)
  BY DEF TypeOK, StatusSet, Sets
<1>4. QED
  BY <1>1, <1>2, <1>3

LEMMA Adds ==
    ASSUME TypeOK, NEW r \in Requests, NEW d \in Packs \cup {NoPack},
           seen' = [seen EXCEPT ![r] = @ \cup {d}]
    PROVE  SeenSet(r) /\ seen'[r] = seen[r] \cup {d}
<1>1. seen \in [Requests -> SUBSET (Packs \cup {NoPack})]
  BY DEF TypeOK
<1>2. seen[r] \cup {d} \in SUBSET (Packs \cup {NoPack})
  BY <1>1
<1>3. QED
  BY <1>1, <1>2 DEF SeenSet, Sets

LEMMA Replied ==
    ASSUME TypeOK, NEW r \in Requests, NEW code \in {200, 500, 503}, Answer(r, code)
    PROVE  StatusSet(r)
<1>1. status \in [Requests -> {0, 200, 500, 503}] /\ status' = [status EXCEPT ![r] = code]
  BY DEF TypeOK, Answer
<1>2. QED
  BY <1>1 DEF StatusSet, Sets

\* What a request's step leaves to everyone else.
RequestFrame(r) ==
    /\ OthersStay(r) /\ pc' \in [Actor -> Places] /\ conn' \in [Actor -> 0..Len(files')]
    /\ files' \in Seq(File) /\ path' \in 0..Len(files') /\ Len(files) <= Len(files')
    /\ FilesKept /\ ReplyFrame(r)
    /\ UNCHANGED <<serving, chosen, starts, replaced>> /\ faults' \in 0..MaxFaults
    /\ path # 0 => path' = path

\* Steps of a request that leave the files and the path alone.
LEMMA QuietRequest ==
    ASSUME DatasetInv, NEW r \in Requests, ReplyFrame(r), NEW at \in Places,
           \/ Goto(r, at) /\ conn' = conn
           \/ End(r, at),
           UNCHANGED <<path, files, serving, chosen, starts, replaced>>,
           faults' \in 0..MaxFaults
    PROVE  RequestFrame(r)
<1>1. TypeOK /\ r \in Actor
  BY DEF DatasetInv, Actor
<1>2. OthersStay(r) /\ pc' \in [Actor -> Places] /\ conn' \in [Actor -> 0..Len(files)]
  BY <1>1, Moves
<1>3. Len(files) \in Nat
  BY <1>1, LenProperties DEF TypeOK
<1>4. FilesKept
  BY SameFiles
<1>5. QED
  BY <1>1, <1>2, <1>3, <1>4 DEF RequestFrame, TypeOK

\* Where a request stands with its answer.
LEMMA Answering ==
    ASSUME TypeOK, NEW r \in Requests, NEW code \in {200, 500, 503}, Answer(r, code)
    PROVE  End(r, "done") /\ status'[r] = code /\ pc'[r] = "done"
BY Moving DEF Answer, TypeOK, Actor, Places

\* A request reads, and answers or goes on.
Reads(r, at) ==
    /\ \/ Goto(r, at) /\ status' = status /\ conn' = conn
       \/ at = "done" /\ \E code \in {200, 500, 503} : Answer(r, code)
    /\ ClockSet(r) /\ SeenSet(r)
    /\ UNCHANGED <<path, files, serving, chosen, starts, replaced>>

LEMMA ReadingStep ==
    ASSUME DatasetInv, NEW r \in Requests, NEW at \in Places, Reads(r, at), faults' \in 0..MaxFaults
    PROVE  RequestFrame(r) /\ pc'[r] = at
<1>1. TypeOK /\ r \in Actor
  BY DEF DatasetInv, Actor
<1>2. (Goto(r, at) /\ conn' = conn) \/ End(r, at)
  BY DEF Reads, Answer
<1>3. StatusSet(r)
  BY <1>1, NothingSet, Replied DEF Reads
<1>4. ReplyFrame(r)
  BY <1>3, Replies DEF Reads
<1>5. RequestFrame(r)
  BY <1>2, <1>4, QuietRequest DEF Reads
<1>6. QED
  BY <1>1, <1>2, <1>5, Moves

LEMMA RequestFacts ==
    ASSUME DatasetInv, NEW r \in Requests, Asks(r)
    PROVE  RequestFrame(r) /\ RequestOK(r)' /\ AcknowledgedOK(r)'
<1>0. /\ TypeOK /\ r \in Actor /\ RequestOK(r) /\ AcknowledgedOK(r) /\ ServerOK
      /\ Len(files) \in Nat /\ DOMAIN files = 1..Len(files) /\ path \in 0..Len(files)
  BY LenProperties DEF DatasetInv, TypeOK, Actor
<1>1. faults \in 0..MaxFaults /\ MaxFaults \in Nat
  BY <1>0, DatasetConstants DEF TypeOK
<1>a. /\ clock[r] \in Packs \cup {NoPack} /\ seen[r] \in SUBSET (Packs \cup {NoPack})
      /\ status[r] \in {0, 200, 500, 503}
  BY <1>0 DEF TypeOK
<1>b. \A f \in DOMAIN files :
          /\ files[f] \in File /\ FileOK(f)
          /\ files[f].meta \in Packs \cup {NoPack} /\ files[f].data \in Packs \cup {NoPack}
  <2>1. \A f \in DOMAIN files : files[f] \in File
    BY <1>0, ElementOfSeq DEF TypeOK
  <2>2. QED
    BY <2>1 DEF DatasetInv, File
<1>2. CASE Ask(r)
  <2>1. CASE path = 0
    <3>1. Answer(r, 503) /\ End(r, "done") /\ status'[r] = 503 /\ pc'[r] = "done"
      BY <1>0, <1>2, <2>1, Answering DEF Ask
    <3>2. RequestFrame(r)
      <4>1. /\ "done" \in Places /\ 503 \in {0, 200, 500, 503}
            /\ status' = [status EXCEPT ![r] = 503] /\ clock' = clock /\ seen' = seen
            /\ UNCHANGED <<path, files, serving, chosen, starts, replaced>> /\ faults' \in 0..MaxFaults
        BY <1>1, <1>2, <3>1 DEF Ask, Answer, Places, history
      <4>2. ReplyFrame(r)
        <5>1. ClockSet(r) /\ SeenSet(r)
          BY <1>0, <4>1, NothingSet
        <5>2. StatusSet(r)
          BY <1>0, <3>1, Replied
        <5>3. QED
          BY <5>1, <5>2, Replies
      <4>3. QED
        BY <3>1, <4>1, <4>2, QuietRequest
    <3>3. QED
      BY <1>0, <1>2, <3>1, <3>2 DEF Ask, RequestOK, AcknowledgedOK, Acknowledged, chosen
  <2>2. CASE path # 0
    <3>1. Goto(r, "connect") /\ pc'[r] = "connect" /\ conn' = conn /\ status' = status
      BY <1>0, <1>2, <2>2, Moving DEF Ask, Places, Asking
    <3>2. RequestFrame(r)
      <4>1. /\ "connect" \in Places /\ clock' = clock /\ seen' = seen
            /\ UNCHANGED <<path, files, serving, chosen, starts, replaced>> /\ faults' \in 0..MaxFaults
        BY <1>1, <1>2 DEF Ask, Places, Asking, history
      <4>2. ReplyFrame(r)
        BY <1>0, <3>1, <4>1, NothingSet, Replies
      <4>3. QED
        BY <3>1, <4>1, <4>2, QuietRequest
    <3>3. QED
      BY <1>0, <1>2, <3>1, <3>2 DEF Ask, RequestOK, AcknowledgedOK, Acknowledged, chosen, history
  <2>3. QED
    BY <2>1, <2>2
<1>3. CASE Connect(r)
  <2>1. connect(r) /\ Goto(r, "clock") /\ clock' = clock /\ seen' = seen /\ status' = status
    BY <1>3 DEF Connect, asking
  <2>2. /\ pc' \in [Actor -> Places] /\ pc'[r] = "clock"
        /\ \A y \in Actor \ {r} : pc'[y] = pc[y]
    BY <1>0, <2>1, Moving DEF Places, Asking
  <2>3. FilesKept
    BY <1>0, <2>1, ConnectFacts, MoreFiles
  <2>4. /\ files' \in Seq(File) /\ path' \in 0..Len(files') /\ Len(files) <= Len(files')
        /\ conn'[r] = path' /\ path' \in DOMAIN files' /\ (path # 0 => path' = path)
    BY <1>0, <2>1, ConnectFacts, LenProperties
  <2>5. conn' \in [Actor -> 0..Len(files')] /\ OthersStay(r)
    BY <1>0, <2>1, <2>2, ConnectFacts DEF OthersStay, Actor
  <2>6. ReplyFrame(r)
    BY <1>0, <2>1, NothingSet, Replies
  <2>7. RequestFrame(r)
    BY <1>1, <1>3, <2>2, <2>3, <2>4, <2>5, <2>6 DEF RequestFrame, Connect, history
  <2>8. RequestOK(r)'
    BY <1>0, <1>3, <2>1, <2>2, <2>4 DEF RequestOK, Connect
  <2>9. AcknowledgedOK(r)'
    BY <1>0, <1>3, <2>1, <2>3, <2>4
    DEF AcknowledgedOK, Acknowledged, Connect, chosen, history, FilesKept, Kept
  <2>10. QED
    BY <2>7, <2>8, <2>9
<1>4. CASE get_clock(r)
  <2>1. conn[r] \in DOMAIN files /\ files[conn[r]].meta \in Packs \cup {NoPack}
    BY <1>0, <1>4, <1>b DEF get_clock, RequestOK
  <2>2. /\ clock' = [clock EXCEPT ![r] = files[conn[r]].meta] /\ seen' = seen
        /\ clock'[r] = files[conn[r]].meta /\ seen'[r] = {} /\ files' = files
    BY <1>0, <1>4 DEF get_clock, RequestOK, TypeOK
  <2>3. CASE HasSnapshot(conn[r])
    <3>1. Reads(r, "query") /\ conn' = conn /\ status' = status /\ faults' = faults
      <4>1. clock \in [Requests -> Packs \cup {NoPack}]
        BY <1>0 DEF TypeOK
      <4>2. ClockSet(r)
        BY <2>1, <2>2, <4>1 DEF ClockSet, Sets
      <4>3. SeenSet(r)
        BY <1>0, <2>2, NothingSet
      <4>4. QED
        BY <1>4, <2>3, <4>2, <4>3 DEF get_clock, Reads, history
    <3>2. RequestFrame(r) /\ pc'[r] = "query"
      BY <1>1, <3>1, ReadingStep DEF Places, Asking
    <3>3. RequestOK(r)' /\ AcknowledgedOK(r)'
      BY <1>0, <1>4, <2>1, <2>2, <2>3, <3>1, <3>2
      DEF RequestOK, AcknowledgedOK, Acknowledged, HasSnapshot, RequestFrame, chosen, get_clock
    <3>4. QED
      BY <3>2, <3>3
  <2>4. CASE ~HasSnapshot(conn[r])
    <3>1. PICK code \in {500, 503} : Answer(r, code)
      BY <1>4, <2>4 DEF get_clock
    <3>a. status'[r] = code
      BY <1>0, <3>1, Answering
    <3>b. ClockSet(r) /\ SeenSet(r)
      <4>1. clock \in [Requests -> Packs \cup {NoPack}]
        BY <1>0 DEF TypeOK
      <4>2. ClockSet(r)
        BY <2>1, <2>2, <4>1 DEF ClockSet, Sets
      <4>3. QED
        BY <1>0, <2>2, <4>2, NothingSet
    <3>2. Reads(r, "done") /\ faults' = faults
      BY <1>4, <3>1, <3>b DEF get_clock, Reads, history
    <3>3. RequestFrame(r) /\ pc'[r] = "done"
      BY <1>1, <3>2, ReadingStep DEF Places
    <3>4. RequestOK(r)' /\ AcknowledgedOK(r)'
      BY <2>2, <3>1, <3>a, <3>3 DEF RequestOK, AcknowledgedOK, Acknowledged
    <3>5. QED
      BY <3>3, <3>4
  <2>5. QED
    BY <2>3, <2>4
<1>5. CASE ready(r)
  <2>1. conn[r] \in DOMAIN files /\ files[conn[r]].meta \in Packs \cup {NoPack}
    BY <1>0, <1>5, <1>b DEF ready, RequestOK
  <2>2. /\ clock' = [clock EXCEPT ![r] = files[conn[r]].meta] /\ seen' = seen /\ seen'[r] = {}
    BY <1>0, <1>5 DEF ready, RequestOK
  <2>3. PICK code \in {200, 503} : Answer(r, code)
    BY <1>5 DEF ready
  <2>4. Reads(r, "done") /\ faults' = faults
    <3>1. ClockSet(r)
      <4>1. clock \in [Requests -> Packs \cup {NoPack}]
        BY <1>0 DEF TypeOK
      <4>2. QED
        BY <2>1, <2>2, <4>1 DEF ClockSet, Sets
    <3>2. SeenSet(r)
      BY <1>0, <2>2, NothingSet
    <3>3. QED
      BY <1>5, <2>3, <3>1, <3>2 DEF ready, Reads, history
  <2>5. RequestFrame(r) /\ pc'[r] = "done"
    BY <1>1, <2>4, ReadingStep DEF Places
  <2>6. kind'[r] = "ready" /\ "ready" # "act"
    BY <1>5 DEF ready, chosen
  <2>7. RequestOK(r)' /\ AcknowledgedOK(r)'
    BY <2>2, <2>5, <2>6 DEF RequestOK, AcknowledgedOK, Acknowledged
  <2>8. QED
    BY <2>5, <2>7
<1>6. CASE Query(r)
  <2>1. /\ conn[r] \in DOMAIN files /\ clock[r] = files[conn[r]].data
        /\ files[conn[r]].data \in Packs \cup {NoPack}
    BY <1>0, <1>6, <1>b DEF Query, RequestOK, FileOK
  <2>2. /\ clock' = clock /\ seen'[r] = seen[r] \cup {files[conn[r]].data}
        /\ SeenSet(r)
    <3>1. seen' = [seen EXCEPT ![r] = @ \cup {files[conn[r]].data}] /\ clock' = clock
      BY <1>6 DEF Query
    <3>2. QED
      BY <1>0, <2>1, <3>1, Adds
  <2>3. seen'[r] \subseteq {clock'[r]} /\ clock'[r] # NoPack /\ clock'[r] = files[conn[r]].meta
    BY <1>0, <1>6, <2>1, <2>2 DEF Query, RequestOK
  <2>4. files[conn[r]].tables = Schema
    BY <1>b, <2>1, <2>3, <2>2 DEF FileOK
  <2>5. Goto(r, "query2") /\ conn' = conn /\ status' = status
    BY <1>6, <2>4 DEF Query, Schema
  <2>6. Reads(r, "query2") /\ faults' = faults
    BY <1>0, <1>6, <2>2, <2>5, NothingSet DEF Query, Reads, history
  <2>7. RequestFrame(r) /\ pc'[r] = "query2"
    BY <1>1, <2>6, ReadingStep DEF Places, Asking
  <2>8. RequestOK(r)' /\ AcknowledgedOK(r)'
    BY <1>0, <1>6, <2>1, <2>3, <2>5, <2>7
    DEF RequestOK, AcknowledgedOK, Acknowledged, Query, chosen, history
  <2>9. QED
    BY <2>7, <2>8
<1>7. CASE QueryAgain(r)
  <2>1. /\ conn[r] \in DOMAIN files /\ clock[r] = files[conn[r]].data
        /\ files[conn[r]].data \in Packs \cup {NoPack}
    BY <1>0, <1>7, <1>b DEF QueryAgain, RequestOK, FileOK
  <2>2. /\ clock' = clock /\ seen'[r] = seen[r] \cup {files[conn[r]].data}
        /\ SeenSet(r)
    <3>1. seen' = [seen EXCEPT ![r] = @ \cup {files[conn[r]].data}] /\ clock' = clock
      BY <1>7 DEF QueryAgain
    <3>2. QED
      BY <1>0, <2>1, <3>1, Adds
  <2>3. seen'[r] \subseteq {clock'[r]} /\ clock'[r] # NoPack /\ clock'[r] = files[conn[r]].meta
    BY <1>0, <1>7, <2>1, <2>2 DEF QueryAgain, RequestOK
  <2>4. Reads(r, "write") /\ faults' = faults
    BY <1>0, <1>7, <2>2, NothingSet DEF QueryAgain, Reads, history
  <2>5. RequestFrame(r) /\ pc'[r] = "write"
    BY <1>1, <2>4, ReadingStep DEF Places, Asking
  <2>6. RequestOK(r)' /\ AcknowledgedOK(r)'
    BY <1>0, <1>7, <2>1, <2>3, <2>5
    DEF RequestOK, AcknowledgedOK, Acknowledged, QueryAgain, chosen, history
  <2>7. QED
    BY <2>5, <2>6
<1>8. CASE WriteAction(r)
  <2>1. conn[r] \in DOMAIN files /\ files[conn[r]] \in File /\ FileOK(conn[r])
    BY <1>0, <1>8, <1>b DEF WriteAction, RequestOK
  <2> DEFINE file == [files[conn[r]] EXCEPT !.actions = @ \cup {r}]
  <2>2. /\ file \in File /\ files' = [files EXCEPT ![conn[r]] = file]
        /\ file.tables = files[conn[r]].tables /\ file.actions = files[conn[r]].actions \cup {r}
        /\ file.meta = files[conn[r]].meta /\ file.data = files[conn[r]].data
    BY <1>8, <2>1 DEF WriteAction, File
  <2> HIDE DEF file
  <2>3. /\ file.meta # NoPack => file.tables = Schema /\ file.meta \in SoundPacks
        /\ file.data = file.meta
    BY <2>1, <2>2 DEF FileOK
  <2>4. FilesKept /\ files' \in Seq(File) /\ Len(files') = Len(files)
    BY <2>1, <2>2, <2>3, OneFile
  <2>5. files'[conn[r]] = file
    BY <1>0, <2>1, <2>2, UpdateFile DEF TypeOK
  <2>6. Answer(r, 200) /\ End(r, "done") /\ pc'[r] = "done"
    BY <1>0, <1>8, Answering DEF WriteAction
  <2>7. OthersStay(r) /\ pc' \in [Actor -> Places] /\ conn' \in [Actor -> 0..Len(files)]
    BY <1>0, <2>6, Moves DEF Places
  <2>8. ReplyFrame(r)
    <3>1. StatusSet(r)
      BY <1>0, <2>6, Replied
    <3>2. ClockSet(r) /\ SeenSet(r)
      BY <1>0, <1>8, NothingSet DEF WriteAction
    <3>3. QED
      BY <1>0, <3>1, <3>2, Replies
  <2>9. RequestFrame(r)
    BY <1>0, <1>1, <1>8, <2>4, <2>7, <2>8 DEF RequestFrame, WriteAction, history
  <2>10. RequestOK(r)'
    BY <1>0, <1>8, <2>6 DEF RequestOK, WriteAction
  <2>11. ~replaced => path = conn[r] /\ path # 0
    BY <1>0, <1>8, <2>1 DEF RequestOK, WriteAction
  <2>12. AcknowledgedOK(r)'
    BY <1>8, <2>2, <2>5, <2>11 DEF AcknowledgedOK, Acknowledged, WriteAction, history
  <2>13. QED
    BY <2>9, <2>10, <2>12
<1>9. CASE Fault(r)
  <2>1. PICK code \in {500, 503} : Answer(r, code)
    BY <1>9 DEF Fault
  <2>2. Reads(r, "done") /\ faults' \in 0..MaxFaults
    BY <1>0, <1>1, <1>9, <2>1, NothingSet DEF Fault, Reads
  <2>3. RequestFrame(r) /\ pc'[r] = "done"
    BY <2>2, ReadingStep DEF Places
  <2>4. status'[r] = code
    BY <1>0, <2>1, Answering
  <2>5. RequestOK(r)' /\ AcknowledgedOK(r)'
    BY <1>0, <1>9, <2>3, <2>4 DEF RequestOK, AcknowledgedOK, Acknowledged, Fault
  <2>6. QED
    BY <2>3, <2>5
<1>10. QED
  BY <1>2, <1>3, <1>4, <1>5, <1>6, <1>7, <1>8, <1>9 DEF Asks, Handle

\* What an ingestion's step makes of itself.
LEMMA IngestsItself ==
    ASSUME DatasetInv, NEW i \in Ingestions, Ingests(i)
    PROVE  /\ IngestionOK(i)' /\ AloneOK(i)'
           /\ pc'[i] \in {"idle", "refused"} => UNCHANGED <<path, files>> /\ pc[i] \in {"idle", "refused"}
           /\ server = "decoding" => pc'[i] \notin Working
           /\ replaced' => replaced \/ given[i] \in PassesChecks
<1>0. /\ TypeOK /\ i \in Actor /\ IngestionOK(i) /\ AloneOK(i) /\ ServerOK
      /\ Len(files) \in Nat /\ DOMAIN files = 1..Len(files)
  BY LenProperties DEF DatasetInv, TypeOK, Actor
<1>1. IngestFrame(i) /\ given' = given /\ server' = server /\ (Alone(i)' => Alone(i))
  BY IngestFacts DEF IngestFrame, OthersStay, Alone, Actor, serving, chosen
<1>2. CASE Check(i)
  <2>1. /\ pc'[i] = IF given[i] \in PassesChecks THEN "look" ELSE "refused"
        /\ pc[i] \in {"idle", "failed", "broken"} /\ server # "decoding"
        /\ UNCHANGED <<path, files, replaced>>
    BY <1>0, <1>2 DEF Check, Goto, TypeOK, Actor
  <2>2. pc'[i] = "refused" => pc[i] = "idle"
    BY <1>0, <2>1 DEF IngestionOK
  <2>3. IngestionOK(i)' /\ AloneOK(i)'
    BY <1>1, <2>1 DEF IngestionOK, AloneOK, Schema, PassesChecks
  <2>4. QED
    BY <2>1, <2>2, <2>3
<1>3. CASE LookForFile(i)
  <2>1. /\ pc[i] = "look" /\ pc'[i] \in {"unlink", "open"}
        /\ UNCHANGED <<path, files, replaced>>
    BY <1>0, <1>3 DEF LookForFile, Goto, TypeOK, Actor, history
  <2>2. IngestionOK(i)' /\ AloneOK(i)'
    BY <1>0, <1>1, <2>1 DEF IngestionOK, AloneOK, Schema, PassesChecks
  <2>3. QED
    BY <1>0, <2>1, <2>2 DEF ServerOK, Working
<1>4. CASE Unlink(i)
  <2>1. pc[i] = "unlink" /\ pc'[i] \in {"open", "failed"}
    BY <1>0, <1>4 DEF Unlink, Goto, TypeOK, Actor
  <2>2. IngestionOK(i)' /\ AloneOK(i)'
    BY <1>0, <1>1, <2>1 DEF IngestionOK, AloneOK, Schema, PassesChecks
  <2>3. given[i] \in PassesChecks
    BY <1>0, <2>1 DEF IngestionOK
  <2>4. QED
    BY <1>0, <2>1, <2>2, <2>3 DEF ServerOK, Working
<1>5. CASE OpenNew(i)
  <2>1. pc[i] = "open" /\ pc'[i] = "meta" /\ replaced' = replaced /\ connect(i)
    BY <1>0, <1>5 DEF OpenNew, Goto, TypeOK, Actor, history
  <2>2. conn'[i] = path' /\ path' \in DOMAIN files'
    BY <1>0, <2>1, ConnectFacts DEF Actor
  <2>3. IngestionOK(i)' /\ AloneOK(i)'
    BY <1>0, <1>1, <2>1, <2>2 DEF IngestionOK, AloneOK, Schema, PassesChecks
  <2>4. QED
    BY <1>0, <2>1, <2>3 DEF ServerOK, Working
<1>6. CASE CreateTable(i)
  <2>1. /\ pc[i] \in Schema /\ conn[i] \in DOMAIN files /\ given[i] \in PassesChecks
        /\ path' = path /\ replaced' = replaced
    BY <1>0, <1>6 DEF CreateTable, IngestionOK, history, Schema
  <2>2. CASE pc[i] \in files[conn[i]].tables
    <3>1. pc'[i] = "failed"
      BY <1>0, <1>6, <2>2, Moving DEF CreateTable, Places
    <3>2. IngestionOK(i)' /\ AloneOK(i)'
      BY <1>1, <2>1, <3>1 DEF IngestionOK, AloneOK, Schema, PassesChecks
    <3>3. QED
      BY <2>1, <3>1, <3>2 DEF Working, Schema
  <2>3. CASE pc[i] \notin files[conn[i]].tables
    <3> DEFINE file == [files[conn[i]] EXCEPT !.tables = @ \cup {pc[i]}]
    <3>1. files[conn[i]] \in File
      BY <1>0, <2>1, ElementOfSeq DEF TypeOK
    <3>2. /\ file \in File /\ files' = [files EXCEPT ![conn[i]] = file]
          /\ file.tables = files[conn[i]].tables \cup {pc[i]}
      BY <1>6, <2>1, <2>3, <3>1 DEF CreateTable, File
    <3> HIDE DEF file
    <3>3. files'[conn[i]] = file /\ conn[i] \in DOMAIN files'
      BY <1>0, <2>1, <3>2, UpdateFile DEF TypeOK
    <3>4. /\ pc'[i] = after[pc[i]] /\ conn' = conn
          /\ (pc[i] = "meta" /\ pc'[i] = "rest") \/ (pc[i] = "rest" /\ pc'[i] = "insert")
      BY <1>0, <1>6, <2>1, <2>3 DEF CreateTable, Goto, TypeOK, Actor, Schema, after
    <3>5. pc'[i] = "insert" => file.tables = Schema
      BY <1>0, <3>1, <3>2, <3>4 DEF IngestionOK, File, Schema
    <3>6. pc'[i] = "rest" => "meta" \in file.tables
      BY <3>2, <3>4
    <3>7. IngestionOK(i)'
      BY <1>1, <2>1, <3>3, <3>4, <3>5, <3>6 DEF IngestionOK, PassesChecks
    <3>8. AloneOK(i)'
      BY <1>0, <1>1, <2>1, <3>4 DEF AloneOK, Schema
    <3>9. QED
      BY <1>0, <2>1, <3>4, <3>7, <3>8 DEF ServerOK, Working, Schema
  <2>4. QED
    BY <2>2, <2>3
<1>7. CASE WriteDb(i)
  <2> DEFINE Fits == files[conn[i]].data = NoPack /\ given[i] \in FitsSchema
  <2>1. /\ pc[i] = "insert" /\ conn[i] \in DOMAIN files /\ given[i] \in PassesChecks
        /\ path' = path /\ replaced' = replaced
    BY <1>0, <1>7 DEF WriteDb, IngestionOK, history
  <2>2. CASE ~Fits
    <3>1. pc'[i] = "failed"
      BY <1>0, <1>7, <2>2, Moving DEF WriteDb, Places
    <3>2. IngestionOK(i)' /\ AloneOK(i)'
      BY <1>1, <2>1, <3>1 DEF IngestionOK, AloneOK, Schema, PassesChecks
    <3>3. QED
      BY <2>1, <3>1, <3>2 DEF Working, Schema
  <2>3. CASE Fits
    <3> DEFINE file == [files[conn[i]] EXCEPT !.meta = given[i], !.data = given[i]]
    <3>1. files[conn[i]] \in File /\ given[i] \in Packs
      BY <1>0, <2>1, ElementOfSeq DEF TypeOK, PassesChecks
    <3>2. file \in File /\ files' = [files EXCEPT ![conn[i]] = file] /\ file.data = given[i]
      BY <1>7, <2>3, <3>1 DEF WriteDb, File
    <3> HIDE DEF file
    <3>3. files'[conn[i]] = file
      BY <1>0, <2>1, <3>2, UpdateFile DEF TypeOK
    <3>4. pc'[i] = "complete"
      BY <1>0, <1>7, <2>3, Moving DEF WriteDb, Places
    <3>5. IngestionOK(i)'
      BY <1>1, <2>1, <3>4 DEF IngestionOK, Schema, PassesChecks
    <3>6. server # "decoding"
      BY <1>0, <2>1 DEF ServerOK, Working
    <3>7. AloneOK(i)'
      BY <1>0, <1>1, <2>1, <3>2, <3>3, <3>4, <3>6 DEF AloneOK, Schema
    <3>8. QED
      BY <2>1, <3>4, <3>5, <3>6, <3>7 DEF Working, Schema
  <2>4. QED
    BY <2>2, <2>3
<1>8. CASE IngestFails(i)
  <2>1. /\ pc[i] \in Working /\ pc'[i] = "broken"
        /\ UNCHANGED <<path, files, replaced>>
    BY <1>0, <1>8, Moving DEF IngestFails, Places
  <2>2. given[i] \in PassesChecks
    BY <1>0, <2>1 DEF IngestionOK, Working, Schema
  <2>3. IngestionOK(i)' /\ AloneOK(i)'
    BY <1>1, <2>1, <2>2 DEF IngestionOK, AloneOK, Schema, PassesChecks
  <2>4. QED
    BY <2>1, <2>3 DEF Working, Schema
<1>9. QED
  BY <1>2, <1>3, <1>4, <1>5, <1>6, <1>7, <1>8 DEF Ingests, Ingest

\* An ingestion whose file others write to loses nothing it built.
LEMMA IngestionKept ==
    ASSUME DatasetInv, NEW j \in Ingestions, files' \in Seq(File), FilesKept,
           pc'[j] = pc[j], conn'[j] = conn[j], given' = given
    PROVE  IngestionOK(j)'
<1>1. IngestionOK(j)
  BY DEF DatasetInv
<1>2. \A f \in DOMAIN files' : files'[f] \in File
  BY ElementOfSeq, LenProperties
<1>3. \A f \in DOMAIN files' : files'[f].tables \subseteq Schema
  BY <1>2 DEF File
<1>4. \A f \in DOMAIN files : f \in DOMAIN files' /\ files[f].tables \subseteq files'[f].tables
  BY DEF FilesKept, Kept
<1>5. pc[j] \in Schema \cup {"insert"} => conn[j] \in DOMAIN files /\ conn[j] \in DOMAIN files'
  BY <1>1, <1>4 DEF IngestionOK
<1>6. pc[j] = "rest" => "meta" \in files'[conn[j]].tables
  BY <1>1, <1>4, <1>5 DEF IngestionOK, Schema
<1>7. pc[j] = "insert" => files'[conn[j]].tables = Schema
  BY <1>1, <1>3, <1>4, <1>5 DEF IngestionOK
<1>8. QED
  BY <1>1, <1>5, <1>6, <1>7 DEF IngestionOK

LEMMA IngestStep ==
    ASSUME DatasetInv, NEW i \in Ingestions, Ingests(i)
    PROVE  DatasetInv'
<1>0. /\ TypeOK /\ ServerOK /\ ReplacedOK
      /\ Len(files) \in Nat /\ DOMAIN files = 1..Len(files) /\ Ingestions \cap Requests = {}
  BY LenProperties, DatasetConstants DEF DatasetInv, TypeOK
<1>1. IngestFrame(i)
  BY IngestFacts
<1>2. /\ IngestionOK(i)' /\ AloneOK(i)'
      /\ pc'[i] \in {"idle", "refused"} => UNCHANGED <<path, files>> /\ pc[i] \in {"idle", "refused"}
      /\ server = "decoding" => pc'[i] \notin Working
      /\ replaced' => replaced \/ given[i] \in PassesChecks
  BY IngestsItself
<1>3. /\ \A j \in Ingestions \ {i} : pc'[j] = pc[j] /\ conn'[j] = conn[j]
      /\ \A r \in Requests : pc'[r] = pc[r] /\ conn'[r] = conn[r]
  BY <1>0, <1>1 DEF IngestFrame, OthersStay, Actor
<1>4. /\ UNCHANGED <<server, secret, decoded, given, kind, clock, seen, status>>
      /\ files' \in Seq(File) /\ path' \in 0..Len(files') /\ Len(files) <= Len(files')
      /\ Len(files') \in Nat /\ DOMAIN files' = 1..Len(files')
  BY <1>1, LenProperties DEF IngestFrame, serving, chosen, asking
<1>5. TypeOK'
  <2>1. decoded' \in 0..Len(files')
    BY <1>0, <1>4 DEF TypeOK
  <2>2. QED
    <3>1. /\ pc' \in [Actor -> Places] /\ conn' \in [Actor -> 0..Len(files')]
          /\ starts' \in 0..MaxStarts /\ faults' \in 0..MaxFaults /\ replaced' \in BOOLEAN
      BY <1>1 DEF IngestFrame
    <3>2. QED
      BY <1>0, <1>4, <2>1, <3>1 DEF TypeOK, Actor, Places
<1>6. \A f \in DOMAIN files' : FileOK(f)'
  BY <1>1 DEF IngestFrame, FilesKept
<1>7. ASSUME NEW j \in Ingestions PROVE IngestionOK(j)' /\ AloneOK(j)'
  <2>1. CASE j = i
    BY <1>2, <2>1
  <2>2. CASE j # i
    <3>1. IngestionOK(j) /\ AloneOK(j)
      BY DEF DatasetInv
    <3>2. IngestionOK(j)'
      BY <1>1, <1>3, <1>4, <2>2, IngestionKept DEF IngestFrame
    <3>3. AloneOK(j)'
      BY <1>2, <1>3, <1>4, <2>2, <3>1 DEF AloneOK, Alone
    <3>4. QED
      BY <3>2, <3>3
  <2>3. QED
    BY <2>1, <2>2
<1>8. ASSUME NEW r \in Requests PROVE RequestOK(r)' /\ AcknowledgedOK(r)'
  <2>1. RequestOK(r) /\ AcknowledgedOK(r)
    BY DEF DatasetInv
  <2>2. ~replaced' => ~replaced /\ (path # 0 => path' = path)
    BY <1>1 DEF IngestFrame
  <2>a. /\ \A f \in DOMAIN files : Kept(f)
        /\ path # 0 <=> path \in DOMAIN files
    BY <1>0, <1>1 DEF IngestFrame, FilesKept, TypeOK
  <2>3. RequestOK(r)'
    BY <1>0, <1>3, <1>4, <2>1, <2>2, <2>a, RequestKept
  <2>4. AcknowledgedOK(r)'
    <3>1. Acknowledged(r)' => Acknowledged(r)
      BY <1>4, <2>2 DEF Acknowledged
    <3>2. QED
      BY <2>1, <2>2, <2>a, <3>1, AcknowledgedKept
  <2>5. QED
    BY <2>3, <2>4
<1>9. ServerOK'
  <2>1. ~replaced' => ~replaced
    BY <1>1 DEF IngestFrame
  <2>2. QED
    BY <1>0, <1>2, <1>3, <1>4, <2>1 DEF ServerOK, Acknowledged
<1>10. ReplacedOK'
  BY <1>0, <1>2, <1>4 DEF ReplacedOK
<1>11. QED
  BY <1>5, <1>6, <1>7, <1>8, <1>9, <1>10 DEF DatasetInv

LEMMA RequestStep ==
    ASSUME DatasetInv, NEW r \in Requests, Asks(r)
    PROVE  DatasetInv'
<1>0. /\ TypeOK /\ ServerOK /\ ReplacedOK
      /\ Len(files) \in Nat /\ DOMAIN files = 1..Len(files) /\ Ingestions \cap Requests = {}
  BY LenProperties, DatasetConstants DEF DatasetInv, TypeOK
<1>1. RequestFrame(r) /\ RequestOK(r)' /\ AcknowledgedOK(r)'
  BY RequestFacts
<1>2. server = "up"
  BY <1>0 DEF ServerOK, Asks, Ask, Handle, Connect, get_clock, ready, Query, QueryAgain, WriteAction,
     Fault, Asking
<1>3. /\ \A j \in Ingestions : pc'[j] = pc[j] /\ conn'[j] = conn[j]
      /\ \A q \in Requests \ {r} :
            /\ pc'[q] = pc[q] /\ conn'[q] = conn[q]
            /\ clock'[q] = clock[q] /\ seen'[q] = seen[q] /\ status'[q] = status[q]
  BY <1>0, <1>1 DEF RequestFrame, ReplyFrame, OthersStay, Actor
<1>4. /\ UNCHANGED <<server, secret, decoded, given, kind, starts, replaced>>
      /\ files' \in Seq(File) /\ path' \in 0..Len(files') /\ Len(files) <= Len(files')
      /\ Len(files') \in Nat /\ DOMAIN files' = 1..Len(files') /\ (path # 0 => path' = path)
  BY <1>1, LenProperties DEF RequestFrame, serving, chosen
<1>5. TypeOK'
  <2>1. decoded' \in 0..Len(files')
    BY <1>0, <1>4 DEF TypeOK
  <2>2. QED
    BY <1>0, <1>1, <1>4, <2>1 DEF TypeOK, RequestFrame, ReplyFrame, Actor, Places
<1>6. \A f \in DOMAIN files' : FileOK(f)'
  BY <1>1 DEF RequestFrame, FilesKept
<1>7. ASSUME NEW j \in Ingestions PROVE IngestionOK(j)' /\ AloneOK(j)'
  <2>1. IngestionOK(j) /\ AloneOK(j)
    BY DEF DatasetInv
  <2>2. IngestionOK(j)'
    BY <1>1, <1>3, <1>4, IngestionKept DEF RequestFrame
  <2>3. Alone(j)' => Alone(j)
    BY <1>3 DEF Alone
  <2>4. pc[j] \in Schema \cup {"insert"} => conn[j] # 0
    BY <1>0, <2>1 DEF IngestionOK
  <2>5. given[j] \in Packs /\ given[j] # NoPack
    BY <1>0, DatasetConstants DEF TypeOK
  <2>6. path # 0 /\ files[path].data = given[j] => files'[path'].data = given[j]
    <3> SUFFICES ASSUME path # 0, files[path].data = given[j] PROVE files'[path'].data = given[j]
      OBVIOUS
    <3>1. path \in DOMAIN files /\ path' = path
      BY <1>0, <1>4 DEF TypeOK
    <3>2. FileOK(path) /\ Kept(path)
      BY <1>1, <3>1 DEF RequestFrame, FilesKept, DatasetInv
    <3>3. path \in DOMAIN files' /\ files'[path].meta = given[j]
      BY <2>5, <3>2 DEF FileOK, Kept
    <3>4. QED
      BY <1>6, <3>1, <3>3 DEF FileOK
  <2>7. AloneOK(j)'
    BY <1>2, <1>3, <1>4, <2>1, <2>3, <2>4, <2>6 DEF AloneOK
  <2>8. QED
    BY <2>2, <2>7
<1>8. ASSUME NEW q \in Requests PROVE RequestOK(q)' /\ AcknowledgedOK(q)'
  <2>1. CASE q = r
    BY <1>1, <2>1
  <2>2. CASE q # r
    <3>1. RequestOK(q) /\ AcknowledgedOK(q)
      BY DEF DatasetInv
    <3>2. /\ \A f \in DOMAIN files : Kept(f)
          /\ path # 0 <=> path \in DOMAIN files
      BY <1>0, <1>1 DEF RequestFrame, FilesKept, TypeOK
    <3>3. RequestOK(q)'
      BY <1>3, <1>4, <2>2, <3>1, <3>2, RequestKept
    <3>a. Acknowledged(q)' => Acknowledged(q)
      BY <1>3, <1>4, <2>2 DEF Acknowledged
    <3>b. AcknowledgedOK(q)'
      BY <1>4, <3>1, <3>2, <3>a, AcknowledgedKept
    <3>4. QED
      BY <3>3, <3>b
  <2>3. QED
    BY <2>1, <2>2
<1>9. ServerOK' /\ ReplacedOK'
  BY <1>0, <1>2, <1>4 DEF ServerOK, ReplacedOK
<1>10. QED
  BY <1>5, <1>6, <1>7, <1>8, <1>9 DEF DatasetInv

\* The container: nobody is reading or building when it makes its own database.
LEMMA ServerStep ==
    ASSUME DatasetInv, Boot \/ Decoded \/ DecodeFails \/ Stop
    PROVE  DatasetInv'
<1>0. /\ TypeOK /\ ServerOK /\ ReplacedOK
      /\ Len(files) \in Nat /\ DOMAIN files = 1..Len(files) /\ path \in 0..Len(files)
      /\ faults \in 0..MaxFaults /\ MaxFaults \in Nat
  BY LenProperties, DatasetConstants DEF DatasetInv, TypeOK
<1>1. CASE Boot
  <2>0. /\ server = "down" /\ UNCHANGED <<secret, given, kind, pc, conn, clock, seen, status,
                                           starts, faults, replaced>>
        /\ \A r \in Requests : pc[r] \notin Asking
    BY <1>0, <1>1 DEF Boot, chosen, asking, history, ServerOK
  <2>1. CASE path = 0 /\ secret # NoPack
    <3>1. /\ \A i \in Ingestions : pc[i] \notin Working
          /\ server' = "decoding" /\ files' = Append(files, EmptyFile)
          /\ path' = Len(files) + 1 /\ decoded' = Len(files) + 1
      BY <1>1, <2>1 DEF Boot
    <3>2. /\ files' \in Seq(File) /\ Len(files') = Len(files) + 1 /\ path' \in DOMAIN files'
          /\ FilesKept
      BY <1>0, <3>1, AppendFile, MoreFiles DEF TypeOK
    <3>3. TypeOK'
      BY <1>0, <2>0, <3>1, <3>2 DEF TypeOK
    <3>4. \A f \in DOMAIN files' : FileOK(f)'
      BY <3>2 DEF FilesKept
    <3>5. ASSUME NEW i \in Ingestions PROVE IngestionOK(i)' /\ AloneOK(i)'
      BY <2>0, <2>1, <3>1, <3>2, IngestionKept
      DEF DatasetInv, AloneOK, Alone, Working
    <3>6. \A r \in Requests : ~Acknowledged(r)
      BY <2>1 DEF DatasetInv, AcknowledgedOK
    <3>7. ASSUME NEW r \in Requests PROVE RequestOK(r)' /\ AcknowledgedOK(r)'
      BY <2>0, <3>6 DEF DatasetInv, RequestOK, AcknowledgedOK, Acknowledged, Asking
    <3>8. ServerOK'
      BY <1>0, <2>0, <2>1, <3>1, <3>2, <3>6 DEF ServerOK, Acknowledged
    <3>9. QED
      BY <1>0, <2>0, <3>3, <3>4, <3>5, <3>7, <3>8 DEF DatasetInv, ReplacedOK
  <2>2. CASE ~(path = 0 /\ secret # NoPack)
    <3>1. server' = "up" /\ UNCHANGED <<path, files, decoded>>
      BY <1>1, <2>2 DEF Boot
    <3>2. TypeOK'
      BY <1>0, <2>0, <3>1 DEF TypeOK
    <3>3. ServerOK' /\ ReplacedOK'
      BY <1>0, <2>0, <3>1 DEF ServerOK, ReplacedOK
    <3>4. QED
      BY <2>0, <3>1, <3>2, <3>3
      DEF DatasetInv, FileOK, IngestionOK, AloneOK, Alone, RequestOK, AcknowledgedOK, Acknowledged
  <2>3. QED
    BY <2>1, <2>2
<1>2. CASE Decoded
  <2>1. /\ server = "decoding" /\ decoded \in DOMAIN files /\ secret \in SoundPacks /\ secret \in Packs
        /\ \A i \in Ingestions : pc[i] \notin Working
        /\ \A r \in Requests : pc[r] \notin Asking /\ ~Acknowledged(r)
    BY <1>0, <1>2 DEF Decoded, ServerOK, SoundPacks, PassesChecks
  <2>2. /\ files' = [files EXCEPT ![decoded] = Database(secret)] /\ server' = "up" /\ decoded' = 0
        /\ UNCHANGED <<path, secret, given, kind, pc, conn, clock, seen, status, starts, faults, replaced>>
    BY <1>2 DEF Decoded, chosen, asking, history
  <2>3. Database(secret) \in File
    BY <2>1 DEF Database, File
  <2>4. /\ files' \in Seq(File) /\ Len(files') = Len(files) /\ DOMAIN files' = DOMAIN files
        /\ files'[decoded] = Database(secret) /\ \A f \in DOMAIN files \ {decoded} : files'[f] = files[f]
    BY <1>0, <2>1, <2>2, <2>3, UpdateFile DEF TypeOK
  <2>5. TypeOK'
    BY <1>0, <2>2, <2>4 DEF TypeOK
  <2>6. \A f \in DOMAIN files' : FileOK(f)'
    BY <2>1, <2>4 DEF DatasetInv, FileOK, Database
  <2>7. ASSUME NEW i \in Ingestions PROVE IngestionOK(i)' /\ AloneOK(i)'
    BY <2>1, <2>2 DEF DatasetInv, IngestionOK, AloneOK, Alone, Working
  <2>8. ASSUME NEW r \in Requests PROVE RequestOK(r)' /\ AcknowledgedOK(r)'
    BY <2>1, <2>2 DEF DatasetInv, RequestOK, AcknowledgedOK, Acknowledged, Asking
  <2>9. ServerOK' /\ ReplacedOK'
    BY <1>0, <2>2 DEF ServerOK, ReplacedOK
  <2>10. QED
    BY <2>5, <2>6, <2>7, <2>8, <2>9 DEF DatasetInv
<1>3. CASE DecodeFails
  <2>1. /\ server = "decoding"
        /\ \A i \in Ingestions : pc[i] \notin Working
        /\ \A r \in Requests : pc[r] \notin Asking /\ ~Acknowledged(r)
    BY <1>0, <1>3 DEF DecodeFails, ServerOK
  <2>2. /\ path' = 0 /\ server' = "up" /\ decoded' = 0 /\ faults' \in 0..MaxFaults
        /\ UNCHANGED <<files, secret, given, kind, pc, conn, clock, seen, status, starts, replaced>>
    BY <1>0, <1>3 DEF DecodeFails, chosen, asking
  <2>3. TypeOK'
    BY <1>0, <2>2 DEF TypeOK
  <2>4. \A f \in DOMAIN files' : FileOK(f)'
    BY <2>2 DEF DatasetInv, FileOK
  <2>5. ASSUME NEW i \in Ingestions PROVE IngestionOK(i)' /\ AloneOK(i)'
    BY <2>1, <2>2 DEF DatasetInv, IngestionOK, AloneOK, Alone, Working
  <2>6. ASSUME NEW r \in Requests PROVE RequestOK(r)' /\ AcknowledgedOK(r)'
    BY <2>1, <2>2 DEF DatasetInv, RequestOK, AcknowledgedOK, Acknowledged, Asking
  <2>7. ServerOK' /\ ReplacedOK'
    BY <1>0, <2>2 DEF ServerOK, ReplacedOK
  <2>8. QED
    BY <2>3, <2>4, <2>5, <2>6, <2>7 DEF DatasetInv
<1>4. CASE Stop
  <2> DEFINE dying == {r \in Requests : pc[r] \in Asking}
  <2>1. /\ server' = "down" /\ decoded' = 0 /\ faults' \in 0..MaxFaults
        /\ UNCHANGED <<path, files, secret, given, kind, clock, seen, status, starts, replaced>>
        /\ pc' = [x \in DOMAIN pc |-> IF x \in dying THEN "gone" ELSE pc[x]]
        /\ conn' = [x \in DOMAIN pc |-> IF x \in dying THEN 0 ELSE conn[x]]
    BY <1>0, <1>4 DEF Stop, chosen, asking
  <2>2. pc \in [Actor -> Places] /\ conn \in [Actor -> 0..Len(files)] /\ Ingestions \cap Requests = {}
    BY <1>0, DatasetConstants DEF TypeOK, Actor, Places
  <2>3. /\ \A i \in Ingestions : pc'[i] = pc[i] /\ conn'[i] = conn[i]
        /\ \A r \in Requests \ dying : pc'[r] = pc[r] /\ conn'[r] = conn[r]
        /\ \A r \in dying : pc'[r] = "gone"
    BY <2>1, <2>2 DEF Actor
  <2>4. pc' \in [Actor -> Places] /\ conn' \in [Actor -> 0..Len(files)]
    BY <1>0, <2>1, <2>2 DEF Places
  <2>5. TypeOK'
    BY <1>0, <2>1, <2>4 DEF TypeOK, Actor, Places
  <2>6. \A f \in DOMAIN files' : FileOK(f)'
    BY <2>1 DEF DatasetInv, FileOK
  <2>7. ASSUME NEW i \in Ingestions PROVE IngestionOK(i)' /\ AloneOK(i)'
    BY <2>1, <2>3 DEF DatasetInv, IngestionOK, AloneOK, Alone
  <2>8. ASSUME NEW r \in Requests PROVE RequestOK(r)' /\ AcknowledgedOK(r)'
    BY <2>1, <2>3 DEF DatasetInv, RequestOK, AcknowledgedOK, Acknowledged, Asking
  <2>9. ServerOK'
    <3>1. \A r \in Requests : pc'[r] \notin Asking
      BY <2>3 DEF Asking
    <3>2. QED
      BY <1>0, <2>1, <3>1 DEF ServerOK
  <2>10. QED
    BY <1>0, <2>1, <2>5, <2>6, <2>7, <2>8, <2>9 DEF DatasetInv, ReplacedOK
<1>5. QED
  BY <1>1, <1>2, <1>3, <1>4

\* DatasetInv is inductive.
LEMMA DatasetStep == DatasetInv /\ [Next]_vars => DatasetInv'
<1> SUFFICES ASSUME DatasetInv, [Next]_vars PROVE DatasetInv'
  OBVIOUS
<1>1. ASSUME NEW i \in Ingestions, Ingests(i) PROVE DatasetInv'
  BY <1>1, IngestStep
<1>2. ASSUME NEW r \in Requests, Asks(r) PROVE DatasetInv'
  BY <1>2, RequestStep
<1>3. CASE Boot \/ Decoded \/ DecodeFails \/ Stop
  BY <1>3, ServerStep
<1>4. CASE UNCHANGED vars
  <2>1. UNCHANGED <<path, files, server, secret, decoded, given, kind, pc, conn, clock, seen, status,
                    starts, faults, replaced>>
    BY <1>4 DEF vars, serving, chosen, asking, history
  <2>2. TypeOK'
    BY <2>1 DEF DatasetInv, TypeOK
  <2>3. QED
    BY <2>1, <2>2 DEF DatasetInv, FileOK, IngestionOK, AloneOK, Alone, RequestOK, AcknowledgedOK,
       Acknowledged, ServerOK, ReplacedOK
<1>5. QED
  BY <1>1, <1>2, <1>3, <1>4 DEF Next, Ingests, Asks

LEMMA DatasetInvariant == Spec => []DatasetInv
BY DatasetInit, DatasetStep, PTL DEF Spec

-----------------------------------------------------------------------------
(* What the checks of a source pack establish *)

Less == {pair \in Nat \X Nat : pair[1] < pair[2]}

LEMMA Least ==
    ASSUME NEW T, T \subseteq Nat, T # {}
    PROVE  \E x \in T : \A y \in T : x <= y
<1>1. IsWellFoundedOn(Less, Nat)
  BY NatLessThanWellFounded DEF Less, OpToRel
<1>2. PICK x \in T : \A y \in T : ~(<<y, x>> \in Less)
  BY <1>1, WFMin
<1>3. ASSUME NEW y \in T PROVE x <= y
  <2>1. x \in Nat /\ y \in Nat
    OBVIOUS
  <2>2. ~(y < x)
    BY <1>2, <2>1 DEF Less
  <2>3. QED
    BY <2>1, <2>2
<1>4. QED
  BY <1>3

\* The last of several positions in a list is one of them.
LEMMA LastIsOne ==
    ASSUME NEW n \in Nat, NEW T, T \subseteq 1..n, T # {}
    PROVE  Max(T) \in T
<1>0. \A y \in T : y \in Nat /\ y <= n /\ n - y \in Nat
  OBVIOUS
<1> DEFINE U == {n - x : x \in T}
<1>1. PICK u \in U : \A v \in U : u <= v
  <2>1. U \subseteq Nat
    BY <1>0
  <2>2. U # {}
    OBVIOUS
  <2>3. QED
    BY <2>1, <2>2, Least
<1>2. PICK x \in T : u = n - x
  OBVIOUS
<1>3. ASSUME NEW y \in T PROVE x >= y
  <2>1. n - x <= n - y
    BY <1>1, <1>2
  <2>2. x \in Nat /\ y \in Nat
    BY <1>0
  <2>3. QED
    BY <2>1, <2>2
<1>4. QED
  BY <1>3 DEF Max

\* A supersession that passed the check leads to a document of the version meant.
LEMMA ReferencesLead ==
    ASSUME NEW p \in Packs, resolve_supersession(Content[p].pdfs),
           NEW i \in DOMAIN Content[p].pdfs, NEW link \in {"supersedes", "superseded_by"},
           Content[p].pdfs[i].entry[link] # NoValue
    PROVE  \E other \in Range(Content[p].pdfs) :
              /\ other.id = Content[p].pdfs[i].entry[link]
              /\ other.page.version = Content[p].pdfs[i].page[link]
<1> DEFINE pdfs == Content[p].pdfs
           version == pdfs[i].page[link]
           named == {j \in DOMAIN pdfs : pdfs[j].page.version = version}
<1>1. /\ version # NoValue => named # {}
      /\ pdfs[i].entry[link] = resolve_reference(pdfs, version)
  <2>1. resolve_supersession(pdfs) /\ i \in DOMAIN pdfs
    OBVIOUS
  <2> HIDE DEF pdfs
  <2>2. /\ version # NoValue => \E j \in DOMAIN pdfs : pdfs[j].page.version = version
        /\ pdfs[i].entry[link] = resolve_reference(pdfs, version)
    BY <2>1, Zenon DEF resolve_supersession
  <2>3. QED
    BY <2>2, Zenon
<1>2. version # NoValue
  BY <1>1, Zenon DEF resolve_reference
<1>3. Max(named) \in named
  BY <1>1, <1>2, LastIsOne, PacksOK, Zenon
<1>4. pdfs[i].entry[link] = pdfs[Max(named)].id
  BY <1>1, <1>2, Zenon DEF resolve_reference
<1>5. QED
  BY <1>3, <1>4, Zenon DEF Range

LEMMA ChecksMakeTruthful == PassesChecks \subseteq TruthfulPacks
<1> SUFFICES ASSUME NEW p \in PassesChecks PROVE p \in TruthfulPacks
  OBVIOUS
<1>1. p \in Packs /\ Accepted(Content[p])
  BY DEF PassesChecks
<1>2. ASSUME NEW pdf \in Range(Content[p].pdfs)
      PROVE  pdf.page.expiry = pdf.entry.expiry /\ pdf.page.status = pdf.entry.status
  BY <1>1 DEF Accepted, build_source_document
<1>3. ASSUME NEW pdf \in Range(Content[p].pdfs), NEW link \in {"supersedes", "superseded_by"},
             pdf.entry[link] # NoValue
      PROVE  \E other \in Range(Content[p].pdfs) :
                other.id = pdf.entry[link] /\ other.page.version = pdf.page[link]
  <2>1. PICK i \in DOMAIN Content[p].pdfs : pdf = Content[p].pdfs[i]
    BY DEF Range
  <2>2. QED
    BY <1>1, <1>3, <2>1, ReferencesLead DEF Accepted
<1>4. ASSUME NEW row \in Range(Content[p].orders) \cup Range(Content[p].tickets)
      PROVE  \E n \in DOMAIN Content[p].accounts : Content[p].accounts[n] = row[2]
  BY <1>1 DEF Accepted, load_workbook, Range
<1>5. QED
  BY <1>1, <1>2, <1>3, <1>4 DEF TruthfulPacks, Truthful

LEMMA SoundIsCoherent == SoundPacks \subseteq TruthfulPacks \cap UnambiguousPacks
BY ChecksMakeTruthful DEF SoundPacks, FitsSchema, InsertsPass, UnambiguousPacks, Unambiguous

-----------------------------------------------------------------------------
(* The theorems *)

\* Every variable keeps its type.
THEOREM DatasetTypes == Spec => []TypeOK
BY DatasetInvariant, PTL DEF DatasetInv

\* No request of any number computes from two datasets, however often and by however many
\* ingestions the database is replaced meanwhile (get_conn, init_db).
THEOREM RequestsKeepOneDataset == Spec => []OneDatasetPerRequest
<1>1. DatasetInv => OneDatasetPerRequest
  BY DEF DatasetInv, RequestOK, OneDatasetPerRequest
<1>2. QED
  BY <1>1, DatasetInvariant, PTL

\* In every file that ever existed, a snapshot_time means that all the rest is there (_write_db).
THEOREM SnapshotComesLast == Spec => []SnapshotMeansWhole
<1>1. DatasetInv => SnapshotMeansWhole
  BY DEF DatasetInv, FileOK, SnapshotMeansWhole
<1>2. QED
  BY <1>1, DatasetInvariant, PTL

\* Whatever packs are offered, only coherent ones are served, and a pack that the checks
\* refuse costs nothing (ingest, before init_db).
THEOREM OnlyCoherentServed == Spec => []ServedIsCoherent
<1>1. ASSUME DatasetInv PROVE ServedIsCoherent
  <2>1. Served => files[path].data \in SoundPacks
    <3> SUFFICES ASSUME Served PROVE files[path].data \in SoundPacks
      OBVIOUS
    <3>1. path \in DOMAIN files
      BY <1>1, LenProperties DEF Served, DatasetInv, TypeOK
    <3>2. files[path].meta # NoPack /\ files[path].data = files[path].meta
      BY DatasetConstants DEF Served
    <3>3. QED
      BY <1>1, <3>1, <3>2 DEF DatasetInv, FileOK
  <2>2. replaced => Range(given) \cap TruthfulPacks # {}
    <3> SUFFICES ASSUME replaced PROVE Range(given) \cap TruthfulPacks # {}
      OBVIOUS
    <3>1. PICK i \in Ingestions : given[i] \in PassesChecks
      BY <1>1 DEF DatasetInv, ReplacedOK
    <3>2. given[i] \in Range(given)
      BY <1>1 DEF DatasetInv, TypeOK, Range
    <3>3. QED
      BY <3>1, <3>2, ChecksMakeTruthful
  <2>3. QED
    BY <2>1, <2>2, SoundIsCoherent DEF ServedIsCoherent
<1>2. QED
  BY <1>1, DatasetInvariant, PTL

\* An ingestion that nobody interfered with and that reports success is served (connect opens
\* the file a request may have recreated at the path).
THEOREM SuccessServes == Spec => []SuccessIsServed
<1>1. DatasetInv => SuccessIsServed
  BY DEF DatasetInv, AloneOK, Alone, SuccessIsServed
<1>2. QED
  BY <1>1, DatasetInvariant, PTL

\* Acknowledged actions outlive any number of faults and restarts; only an ingestion's
\* unlink takes them (docker-entrypoint.sh decodes only when there is no file).
THEOREM AcknowledgedStays == Spec => []AcknowledgedSurvives
<1>1. DatasetInv => AcknowledgedSurvives
  BY DEF DatasetInv, AcknowledgedOK, Acknowledged, AcknowledgedSurvives
<1>2. QED
  BY <1>1, DatasetInvariant, PTL

=============================================================================
