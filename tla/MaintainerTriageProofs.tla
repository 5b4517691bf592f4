----------------------- MODULE MaintainerTriageProofs -----------------------
(***************************************************************************)
(* Theorems about the files of the maintainer's module, for every set of   *)
(* items, pages and temporary names and through any number of crashes.     *)
(***************************************************************************)
EXTENDS MaintainerTriage, TLAPS

Stages == {"idle", "fetching", "read", "queued", "writing", "written", "purging"}

\* The part of TypeOK that the files depend on.
FilesTyped ==
    /\ vetted \in SUBSET Items
    /\ stage \in [RefreshJobs -> Stages]
    /\ fetched \in [RefreshJobs -> SUBSET Items]
    /\ cacheQ \in Seq(RefreshJobs) /\ slungQ \in Seq(Ops)
    /\ tmp \in [TmpNames -> {Missing, Torn} \cup SUBSET Items]
    /\ tmpOf \in [RefreshJobs -> TmpNames \cup {NoTmp}]
    /\ slungFile \in SUBSET Items /\ misread \in BOOLEAN

\* One job writes at a time, the head of the chain.
WriterIsHead ==
    \A j \in RefreshJobs : stage[j] \in {"writing", "written"} =>
        cacheQ # <<>> /\ j = Head(cacheQ) /\ tmpOf[j] \in TmpNames

\* What it has written is whole.
WrittenIsWhole == \A j \in RefreshJobs : stage[j] = "written" => tmp[tmpOf[j]] # Torn

\* No envelope says of an item that it is vetted before it is.
FetchedIsVetted == \A j \in RefreshJobs : fetched[j] \subseteq vetted

\* The operation at the head of its chain has read the file as it is, those
\* behind it nothing yet, and a purge is of items that are vetted.
OperationsFit ==
    \A k \in 1 .. Len(slungQ) :
        /\ k > 1 => slungQ[k].base = Unread
        /\ slungQ[k].base # Unread => misread \/ slungQ[k].base = slungFile
        /\ slungQ[k].kind = "purge" => slungQ[k].items \subseteq vetted

\* The inductive invariant: a reader finds no torn file because writers take
\* turns on the chain, and no sling is lost because operations do.
IInv ==
    /\ FilesTyped
    /\ WriterIsHead
    /\ WrittenIsWhole
    /\ CacheIsWhole
    /\ FetchedIsVetted
    /\ OperationsFit
\* A purge is queued while the worker purges, and once.
OnePurge ==
    \A k \in 1 .. Len(slungQ) : slungQ[k].kind = "purge" =>
        /\ stage[Worker] = "purging"
        /\ \A l \in 1 .. Len(slungQ) : slungQ[l].kind = "purge" => l = k

\* The part of TypeOK that the pages depend on.
PagesTyped ==
    /\ open \in SUBSET Pages /\ event \in SUBSET open
    /\ get \in [Pages -> {"none", "sent", "half"}]
    /\ half \in [Pages -> SUBSET Items]
    /\ shown \in [Pages -> Views]
    /\ failed \in SUBSET Pages /\ missed \in SUBSET Pages

\* The jobs on the chain, each there once.
OnChain == {"queued", "writing", "written"}
ChainFits ==
    /\ \A j \in RefreshJobs : (\E k \in 1 .. Len(cacheQ) : cacheQ[k] = j) <=> stage[j] \in OnChain
    /\ \A a, b \in 1 .. Len(cacheQ) : cacheQ[a] = cacheQ[b] => a = b

TypeIInv == cacheFile \in {Missing, Torn} \cup SUBSET Items /\ PagesTyped /\ ChainFits /\ OnePurge

\* A page that has read the cache, and will hear of no change, read the one
\* there is.
HalfIsCurrent ==
    \A p \in Pages :
        get[p] = "half" =>
            /\ cacheFile # Missing
            /\ p \notin event /\ p \notin missed /\ stage[Worker] # "purging" => half[p] = cacheFile

\* That a page shows what is served holds of every step because a change is
\* announced or the page has a read due, and a read that began before it is
\* superseded.
CurrentIInv == HalfIsCurrent /\ ShownIsCurrent

FullIInv == IInv /\ TypeIInv /\ CurrentIInv
-----------------------------------------------------------------------------
\* What leaves a chain leaves a chain.
LEMMA RemoveAtType ==
    ASSUME NEW S, NEW q \in Seq(S), NEW k \in 1 .. Len(q)
    PROVE  RemoveAt(q, k) \in Seq(S)
  BY DEF RemoveAt

\* Its head leaves the tail.
LEMMA RemoveHead == ASSUME NEW S, NEW q \in Seq(S), q # <<>> PROVE RemoveAt(q, 1) = Tail(q)
  BY DEF RemoveAt

\* No file was written.
LEMMA InitIInv == ASSUME Assumptions, Init PROVE IInv
  <1>1. FilesTyped
    <2>1. cacheQ \in Seq(RefreshJobs) /\ slungQ \in Seq(Ops)
      BY DEF Init
    <2>2. stage \in [RefreshJobs -> Stages] /\ fetched \in [RefreshJobs -> SUBSET Items]
      BY DEF Init, Stages
    <2>3. /\ tmp \in [TmpNames -> {Missing, Torn} \cup SUBSET Items]
          /\ tmpOf \in [RefreshJobs -> TmpNames \cup {NoTmp}]
      BY DEF Init
    <2> QED
      BY <2>1, <2>2, <2>3 DEF Init, FilesTyped
  <1>2. WriterIsHead /\ WrittenIsWhole /\ FetchedIsVetted
    BY DEF Init, WriterIsHead, WrittenIsWhole, FetchedIsVetted
  <1>3. CacheIsWhole /\ OperationsFit
    BY DEF Assumptions, Init, CacheIsWhole, OperationsFit
  <1> QED
    BY <1>1, <1>2, <1>3 DEF IInv

\* An operation that joins the chain of the slung state.
LEMMA Joins ==
    ASSUME Assumptions, IInv, NEW kind \in {"sling", "purge"}, NEW items \in SUBSET Items,
           kind = "purge" => items \subseteq vetted,
           slungQ' = Append(slungQ, [kind |-> kind, items |-> items, base |-> Unread]),
           UNCHANGED <<slungFile, misread, vetted>>
    PROVE  slungQ' \in Seq(Ops) /\ OperationsFit'
  <1> DEFINE op == [kind |-> kind, items |-> items, base |-> Unread]
  <1>1. op \in Ops /\ op.base = Unread /\ op.kind = kind /\ op.items = items
    BY DEF Ops
  <1> HIDE DEF op
  <1>2. slungQ \in Seq(Ops) /\ slungQ' = Append(slungQ, op)
    BY DEF IInv, FilesTyped, op
  <1>3. /\ slungQ' \in Seq(Ops) /\ Len(slungQ') = Len(slungQ) + 1
        /\ \A k \in 1 .. Len(slungQ') : slungQ'[k] = IF k <= Len(slungQ) THEN slungQ[k] ELSE op
    BY <1>1, <1>2
  <1>4. \A k \in 1 .. Len(slungQ') : k <= Len(slungQ) => k \in 1 .. Len(slungQ)
    BY <1>2
  <1> QED
    BY <1>1, <1>3, <1>4 DEF IInv, OperationsFit

\* A refresh that is not writing yet.
LEMMA EarlyIInv ==
    ASSUME Assumptions, IInv, NEW j \in RefreshJobs,
           Trigger(j) \/ Fetched(j) \/ WriteCache(j) \/ FetchFails(j)
    PROVE  IInv'
  <1> USE DEF files, FilesTyped, Stages
  <1>1. /\ stage[j] \notin {"writing", "written"}
        /\ \E s \in Stages \ {"writing", "written"} : stage' = [stage EXCEPT ![j] = s]
        /\ \E e \in SUBSET vetted : fetched' = [fetched EXCEPT ![j] = e]
        /\ cacheQ' = cacheQ \/ cacheQ' = Append(cacheQ, j)
        /\ UNCHANGED <<vetted, files>>
    BY DEF IInv, FetchedIsVetted, Trigger, Fetched, WriteCache, FetchFails
  <1>2. FilesTyped'
    <2>1. stage' \in [RefreshJobs -> Stages]
      BY <1>1 DEF IInv
    <2>2. fetched' \in [RefreshJobs -> SUBSET Items]
      <3>1. fetched \in [RefreshJobs -> SUBSET Items] /\ vetted \subseteq Items
        BY DEF IInv
      <3> QED
        BY <1>1, <3>1
    <2>3. cacheQ' \in Seq(RefreshJobs)
      BY <1>1 DEF IInv
    <2> QED
      BY <1>1, <2>1, <2>2, <2>3 DEF IInv
  <1>3. cacheQ # <<>> => cacheQ' # <<>> /\ Head(cacheQ') = Head(cacheQ)
    BY <1>1 DEF IInv
  <1>4. WriterIsHead' /\ WrittenIsWhole'
    BY <1>1, <1>3 DEF IInv, WriterIsHead, WrittenIsWhole
  <1>5. CacheIsWhole' /\ FetchedIsVetted' /\ OperationsFit'
    BY <1>1 DEF IInv, CacheIsWhole, FetchedIsVetted, OperationsFit
  <1> QED
    BY <1>2, <1>4, <1>5 DEF IInv

\* The head of the chain creates its file: nobody else has one that counts.
LEMMA CreateIInv == ASSUME Assumptions, IInv, NEW j \in RefreshJobs, CreateTmp(j) PROVE IInv'
  <1> USE DEF CreateTmp, FilesTyped, Stages
  <1>1. cacheQ # <<>> /\ j = Head(cacheQ) /\ stage[j] = "queued"
    BY DEF MayWrite
  <1>2. \A i \in RefreshJobs : stage[i] \notin {"writing", "written"}
    BY <1>1 DEF IInv, WriterIsHead
  <1>3. FilesTyped'
    BY DEF IInv
  <1>4. WriterIsHead' /\ WrittenIsWhole'
    BY <1>1, <1>2 DEF IInv, WriterIsHead, WrittenIsWhole
  <1>5. CacheIsWhole' /\ FetchedIsVetted' /\ OperationsFit'
    BY DEF IInv, CacheIsWhole, FetchedIsVetted, OperationsFit
  <1> QED
    BY <1>3, <1>4, <1>5 DEF IInv

\* The writer fills its file.
LEMMA FillIInv == ASSUME Assumptions, IInv, NEW j \in RefreshJobs, FillTmp(j) PROVE IInv'
  <1> USE DEF FillTmp, FilesTyped, Stages
  <1>1. tmpOf[j] \in TmpNames /\ fetched[j] \in SUBSET Items /\ fetched[j] # Torn
    BY DEF IInv, WriterIsHead, Assumptions
  <1>2. FilesTyped'
    BY <1>1 DEF IInv
  <1>3. WriterIsHead' /\ WrittenIsWhole'
    BY <1>1 DEF IInv, WriterIsHead, WrittenIsWhole
  <1>4. CacheIsWhole' /\ FetchedIsVetted' /\ OperationsFit'
    BY DEF IInv, CacheIsWhole, FetchedIsVetted, OperationsFit
  <1> QED
    BY <1>2, <1>3, <1>4 DEF IInv

\* A writer leaves the chain, and nobody writes.
LEMMA WriterLeaves ==
    ASSUME IInv, NEW j \in RefreshJobs, stage[j] \in {"writing", "written"}
    PROVE  /\ AfterWrite(j) \in Seq(RefreshJobs)
           /\ \A i \in RefreshJobs \ {j} : stage[i] \notin {"writing", "written"}
           /\ tmpOf[j] \in TmpNames
  <1>1. cacheQ \in Seq(RefreshJobs) /\ cacheQ # <<>> /\ cacheQ[1] = j /\ tmpOf[j] \in TmpNames
    BY DEF IInv, FilesTyped, WriterIsHead
  <1>2. 1 \in DOMAIN cacheQ /\ DOMAIN cacheQ = 1 .. Len(cacheQ)
    BY <1>1
  <1>3. (CHOOSE k \in DOMAIN cacheQ : cacheQ[k] = j) \in 1 .. Len(cacheQ)
    BY <1>1, <1>2
  <1>4. AfterWrite(j) \in Seq(RefreshJobs)
    BY <1>1, <1>3, RemoveAtType DEF AfterWrite
  <1> QED
    BY <1>1, <1>4 DEF IInv, WriterIsHead

\* The rename, with what it starts.
LEMMA RenameIInv == ASSUME Assumptions, IInv, NEW j \in RefreshJobs, RenameTmp(j) PROVE IInv'
  <1> USE DEF FilesTyped, Stages
  <1>1. /\ stage[j] = "written" /\ cacheFile' = tmp[tmpOf[j]]
        /\ tmp' = [tmp EXCEPT ![tmpOf[j]] = Missing]
        /\ cacheQ' = AfterWrite(j)
        /\ stage' = [stage EXCEPT ![j] = IF Purges(j) THEN "purging" ELSE "idle"]
        /\ fetched' = [fetched EXCEPT ![j] = {}]
        /\ tmpOf' = [tmpOf EXCEPT ![j] = NoTmp]
        /\ UNCHANGED <<vetted, slungFile, misread>>
    BY DEF RenameTmp
  <1>2. slungQ' \in Seq(Ops) /\ OperationsFit'
    <2>1. CASE Purges(j)
      BY <1>1, <2>1, Joins DEF RenameTmp, IInv, FetchedIsVetted
    <2>2. CASE ~Purges(j)
      BY <1>1, <2>2 DEF RenameTmp, IInv, OperationsFit
    <2> QED
      BY <2>1, <2>2
  <1>3. FilesTyped'
    BY <1>1, <1>2, WriterLeaves DEF IInv
  <1>4. \A i \in RefreshJobs : stage'[i] \notin {"writing", "written"}
    BY <1>1, WriterLeaves DEF IInv
  <1>5. WriterIsHead' /\ WrittenIsWhole'
    BY <1>4 DEF WriterIsHead, WrittenIsWhole
  <1>6. CacheIsWhole' /\ FetchedIsVetted'
    BY <1>1 DEF IInv, WrittenIsWhole, CacheIsWhole, FetchedIsVetted
  <1> QED
    BY <1>2, <1>3, <1>5, <1>6 DEF IInv

\* A write fails, and the chain goes on.
LEMMA WriteFailsIInv == ASSUME Assumptions, IInv, NEW j \in RefreshJobs, WriteFails(j) PROVE IInv'
  <1> USE DEF WriteFails, FilesTyped, Stages
  <1>1. FilesTyped'
    BY WriterLeaves DEF IInv
  <1>2. \A i \in RefreshJobs : stage'[i] \notin {"writing", "written"}
    BY WriterLeaves DEF IInv
  <1>3. WriterIsHead' /\ WrittenIsWhole'
    BY <1>2 DEF WriterIsHead, WrittenIsWhole
  <1>4. CacheIsWhole' /\ FetchedIsVetted' /\ OperationsFit'
    BY DEF IInv, CacheIsWhole, FetchedIsVetted, OperationsFit
  <1> QED
    BY <1>1, <1>3, <1>4 DEF IInv

\* An operation on the slung state is queued, or an item is vetted.
LEMMA SlingIInv ==
    ASSUME Assumptions, IInv, NEW i \in Items, SlingRecord(i) \/ Vet(i) PROVE IInv'
  <1> USE DEF FilesTyped
  <1>1. CASE SlingRecord(i)
    <2>1. slungQ' \in Seq(Ops) /\ OperationsFit'
      BY <1>1, Joins DEF SlingRecord
    <2> QED
      BY <1>1, <2>1 DEF SlingRecord, jobs, IInv, WriterIsHead, WrittenIsWhole, CacheIsWhole,
        FetchedIsVetted
  <1>2. CASE Vet(i)
    BY <1>2 DEF Vet, jobs, files, IInv, WriterIsHead, WrittenIsWhole, CacheIsWhole,
      FetchedIsVetted, OperationsFit
  <1> QED
    BY <1>1, <1>2

\* The head of that chain reads the file.
LEMMA ReadIInv ==
    ASSUME Assumptions, IInv, NEW k \in DOMAIN slungQ, ReadSlungState(k) PROVE IInv'
  <1> USE DEF FilesTyped
  <1>1. k = 1 /\ slungQ \in Seq(Ops) /\ 1 \in 1 .. Len(slungQ) /\ slungFile \subseteq Items
    BY DEF ReadSlungState, MayRun, IInv
  <1>2. PICK ok \in BOOLEAN :
          /\ slungQ' = [slungQ EXCEPT ![1].base = IF ok THEN slungFile ELSE {}]
          /\ misread' = (misread \/ (~ok /\ slungFile # {}))
    BY <1>1 DEF ReadSlungState
  <1> DEFINE base == IF ok THEN slungFile ELSE {}
             op == [slungQ[1] EXCEPT !.base = base]
  <1>3. op \in Ops /\ op.base = base /\ op.kind = slungQ[1].kind /\ op.items = slungQ[1].items
    <2>1. slungQ[1] \in Ops /\ base \in {Unread} \cup SUBSET Items
      BY <1>1
    <2> HIDE DEF base
    <2> QED
      BY <2>1 DEF Ops
  <1>4. misread' \/ base = slungFile
    BY <1>2
  <1>5. misread' \in BOOLEAN /\ UNCHANGED <<vetted, jobs, tmp, tmpOf, cacheFile, slungFile>>
    BY <1>2 DEF ReadSlungState, IInv
  <1> HIDE DEF op, base
  <1>6. slungQ' = [slungQ EXCEPT ![1] = op]
    BY <1>2 DEF op, base
  <1>7. slungQ' \in Seq(Ops) /\ Len(slungQ') = Len(slungQ)
        /\ \A n \in 1 .. Len(slungQ) : slungQ'[n] = IF n = 1 THEN op ELSE slungQ[n]
    BY <1>1, <1>3, <1>6
  <1>8. OperationsFit'
    BY <1>1, <1>3, <1>4, <1>5, <1>7 DEF IInv, OperationsFit
  <1> QED
    BY <1>5, <1>7, <1>8 DEF jobs, IInv, WriterIsHead, WrittenIsWhole, CacheIsWhole, FetchedIsVetted

\* The head of that chain ends; what it makes of the file.
LEMMA DoneIInv ==
    ASSUME Assumptions, IInv, NEW k \in DOMAIN slungQ, NEW written \in BOOLEAN,
           SlungDone(k, written)
    PROVE  IInv' /\ KeepsSlings
  <1> USE DEF FilesTyped
  <1>1. /\ k = 1 /\ slungQ \in Seq(Ops) /\ slungQ # <<>> /\ slungQ[1] \in Ops
        /\ slungQ[1].base # Unread
    BY DEF SlungDone, MayRun, IInv
  <1>2. /\ slungFile' = (IF written THEN NextState(slungQ[1]) ELSE slungFile)
        /\ slungQ' = Tail(slungQ)
        /\ stage' = (IF slungQ[1].kind = "purge" THEN [stage EXCEPT ![Worker] = "idle"] ELSE stage)
        /\ UNCHANGED <<vetted, fetched, cacheQ, tmp, tmpOf, cacheFile, misread>>
    BY <1>1, RemoveHead DEF SlungDone
  <1>3. misread \/ slungQ[1].base = slungFile
    BY <1>1 DEF IInv, OperationsFit
  <1>4. slungQ[1].kind = "purge" => slungQ[1].items \subseteq vetted
    BY <1>1 DEF IInv, OperationsFit
  <1>5. KeepsSlings
    BY <1>1, <1>2, <1>3, <1>4 DEF KeepsSlings, NextState, Ops
  <1>6. slungQ' \in Seq(Ops) /\ Len(slungQ') = Len(slungQ) - 1
        /\ \A n \in 1 .. Len(slungQ') : slungQ'[n] = slungQ[n + 1] /\ n + 1 \in 1 .. Len(slungQ) /\ n + 1 > 1
    BY <1>1, <1>2
  <1>7. OperationsFit'
    BY <1>2, <1>6 DEF IInv, OperationsFit
  <1>8. slungFile' \in SUBSET Items
    BY <1>1, <1>2 DEF IInv, NextState, Ops
  <1>9. stage' \in [RefreshJobs -> Stages]
        /\ \A j \in RefreshJobs : stage'[j] = stage[j] \/ stage'[j] = "idle"
    BY <1>2 DEF IInv, Stages
  <1> QED
    BY <1>2, <1>5, <1>6, <1>7, <1>8, <1>9 DEF IInv, WriterIsHead, WrittenIsWhole, CacheIsWhole, FetchedIsVetted

\* The process dies: the files are all that survives.
LEMMA CrashIInv == ASSUME Assumptions, IInv, Crash PROVE IInv'
  BY DEF Assumptions, Crash, FilesTyped, Stages, IInv, WriterIsHead, WrittenIsWhole, CacheIsWhole,
    FetchedIsVetted, OperationsFit

\* The pages read the files, and may misread one.
LEMMA PagesIInv ==
    ASSUME Assumptions, IInv, NextPages \/ UNCHANGED vars PROVE IInv' /\ slungFile' = slungFile
  <1>1. /\ UNCHANGED <<vetted, jobs, tmp, tmpOf, cacheFile, slungFile, slungQ>>
        /\ misread' \in BOOLEAN /\ (misread => misread')
    BY DEF NextPages, GetReadsCache, GetReadsSlung, GetFails, Connect, Disconnect, Refreshed, vars,
      files, IInv, FilesTyped
  <1> QED
    BY <1>1 DEF jobs, IInv, FilesTyped, WriterIsHead, WrittenIsWhole, CacheIsWhole, FetchedIsVetted,
      OperationsFit

\* No step breaks it, or loses a sling.
LEMMA NextIInv == ASSUME Assumptions, IInv, [Next]_vars PROVE IInv' /\ KeepsSlings
  <1>1. ASSUME NEW j \in RefreshJobs, Trigger(j) \/ RefreshStep(j) PROVE IInv' /\ slungFile' = slungFile
    BY <1>1, EarlyIInv, CreateIInv, FillIInv, RenameIInv, WriteFailsIInv
    DEF RefreshStep, Trigger, Fetched, WriteCache, FetchFails, CreateTmp, FillTmp, RenameTmp,
      WriteFails, files
  <1>2. ASSUME NEW i \in Items, SlingRecord(i) \/ Vet(i) PROVE IInv' /\ slungFile' = slungFile
    BY <1>2, SlingIInv DEF SlingRecord, Vet, files
  <1>3. ASSUME SlungStep PROVE IInv' /\ KeepsSlings
    <2>1. ASSUME NEW k \in DOMAIN slungQ, ReadSlungState(k) PROVE IInv' /\ KeepsSlings
      BY <2>1, ReadIInv DEF ReadSlungState, KeepsSlings
    <2> QED
      BY <1>3, <2>1, DoneIInv DEF SlungStep
  <1>4. CASE Crash
    BY <1>4, CrashIInv DEF Crash, KeepsSlings
  <1>5. CASE NextPages \/ UNCHANGED vars
    BY <1>5, PagesIInv DEF KeepsSlings
  <1> QED
    BY <1>1, <1>2, <1>3, <1>4, <1>5 DEF Next, NextJobs, KeepsSlings

-----------------------------------------------------------------------------
\* Who writes is the head, and leaves the chain as its tail.
LEMMA AfterWriteIs ==
    ASSUME IInv, ChainFits, NEW j \in RefreshJobs, stage[j] \in {"writing", "written"}
    PROVE  /\ cacheQ # <<>> /\ cacheQ \in Seq(RefreshJobs) /\ cacheQ[1] = j
           /\ AfterWrite(j) = Tail(cacheQ)
  <1>1. cacheQ \in Seq(RefreshJobs) /\ cacheQ # <<>> /\ cacheQ[1] = j
    BY DEF IInv, FilesTyped, WriterIsHead
  <1>2. 1 \in 1 .. Len(cacheQ) /\ DOMAIN cacheQ = 1 .. Len(cacheQ)
    BY <1>1
  <1>3. (CHOOSE k \in DOMAIN cacheQ : cacheQ[k] = j) = 1
    BY <1>1, <1>2 DEF ChainFits
  <1> QED
    BY <1>1, <1>3, RemoveHead DEF AfterWrite

\* A job joins the chain, or leaves it from its head.
LEMMA ChainStep ==
    ASSUME Assumptions, IInv, ChainFits, stage' \in [RefreshJobs -> Stages], NEW j \in RefreshJobs,
           \A i \in RefreshJobs \ {j} : stage'[i] = stage[i],
           \/ cacheQ' = cacheQ /\ (stage'[j] \in OnChain <=> stage[j] \in OnChain)
           \/ cacheQ' = Append(cacheQ, j) /\ stage[j] \notin OnChain /\ stage'[j] \in OnChain
           \/ /\ cacheQ # <<>> /\ cacheQ[1] = j /\ cacheQ' = Tail(cacheQ) /\ stage'[j] \notin OnChain
    PROVE  ChainFits'
  <1>1. cacheQ \in Seq(RefreshJobs)
    BY DEF IInv, FilesTyped
  <1>2. CASE cacheQ' = cacheQ /\ (stage'[j] \in OnChain <=> stage[j] \in OnChain)
    BY <1>2 DEF ChainFits
  <1>3. CASE cacheQ' = Append(cacheQ, j) /\ stage[j] \notin OnChain /\ stage'[j] \in OnChain
    <2>1. Len(cacheQ') = Len(cacheQ) + 1
          /\ \A k \in 1 .. Len(cacheQ') : cacheQ'[k] = IF k <= Len(cacheQ) THEN cacheQ[k] ELSE j
      BY <1>1, <1>3
    <2>2. \A k \in 1 .. Len(cacheQ) : cacheQ[k] # j
      BY <1>3 DEF ChainFits
    <2>3. \A k \in 1 .. Len(cacheQ') : k \in 1 .. Len(cacheQ) \/ k = Len(cacheQ) + 1
      BY <1>1, <2>1
    <2>4. \A k \in 1 .. Len(cacheQ) : k \in 1 .. Len(cacheQ') /\ cacheQ'[k] = cacheQ[k] /\ k # Len(cacheQ) + 1
      BY <1>1, <2>1
    <2>5. Len(cacheQ) + 1 \in 1 .. Len(cacheQ') /\ cacheQ'[Len(cacheQ) + 1] = j
      BY <1>1, <2>1
    <2> QED
      BY <1>3, <2>2, <2>3, <2>4, <2>5 DEF ChainFits
  <1>4. CASE cacheQ # <<>> /\ cacheQ[1] = j /\ cacheQ' = Tail(cacheQ) /\ stage'[j] \notin OnChain
    <2>1. Len(cacheQ') = Len(cacheQ) - 1
          /\ \A k \in 1 .. Len(cacheQ') : cacheQ'[k] = cacheQ[k + 1] /\ k + 1 \in 1 .. Len(cacheQ) /\ k + 1 # 1
      BY <1>1, <1>4
    <2>2. 1 \in 1 .. Len(cacheQ)
      BY <1>1, <1>4
    <2>3. ASSUME NEW k \in 1 .. Len(cacheQ), k # 1
          PROVE  k - 1 \in 1 .. Len(cacheQ') /\ cacheQ'[k - 1] = cacheQ[k]
      <3>1. Len(cacheQ) \in Nat /\ k - 1 + 1 = k
        BY <1>1
      <3>2. k - 1 \in 1 .. Len(cacheQ')
        BY <2>1, <2>3, <3>1
      <3> QED
        BY <2>1, <3>1, <3>2
    <2>4. \A a, b \in 1 .. Len(cacheQ') : a + 1 = b + 1 => a = b
      OBVIOUS
    <2>5. \A a, b \in 1 .. Len(cacheQ') : cacheQ'[a] = cacheQ'[b] => a = b
      BY <2>1, <2>4 DEF ChainFits
    <2>6. ASSUME NEW k \in 1 .. Len(cacheQ') PROVE cacheQ'[k] # j
      <3>1. k + 1 \in 1 .. Len(cacheQ) /\ k + 1 # 1 /\ cacheQ'[k] = cacheQ[k + 1]
        BY <2>1
      <3> QED
        BY <1>4, <2>2, <3>1 DEF ChainFits
    <2>7. ASSUME NEW i \in RefreshJobs \ {j}, NEW k \in 1 .. Len(cacheQ'), cacheQ'[k] = i
          PROVE  stage[i] \in OnChain
      <3>1. k + 1 \in 1 .. Len(cacheQ) /\ cacheQ[k + 1] = i
        BY <2>1, <2>7
      <3> QED
        BY <3>1 DEF ChainFits
    <2>8. ASSUME NEW i \in RefreshJobs \ {j}, stage[i] \in OnChain
          PROVE  \E k \in 1 .. Len(cacheQ') : cacheQ'[k] = i
      <3>1. PICK k \in 1 .. Len(cacheQ) : cacheQ[k] = i
        BY <2>8 DEF ChainFits
      <3>2. k - 1 \in 1 .. Len(cacheQ') /\ cacheQ'[k - 1] = i
        BY <1>4, <2>3, <3>1
      <3> QED
        BY <3>2
    <2> QED
      BY <1>4, <2>5, <2>6, <2>7, <2>8 DEF ChainFits
  <1> QED
    BY <1>2, <1>3, <1>4

\* A page's variables, with what StartGet and Notify make of them.
LEMMA StartGetIs ==
    ASSUME PagesTyped, NEW ps \in SUBSET Pages, StartGet(ps)
    PROVE  /\ get' \in [Pages -> {"none", "sent", "half"}] /\ half' \in [Pages -> SUBSET Items]
           /\ failed' \in SUBSET Pages
           /\ \A p \in ps : get'[p] = "sent"
           /\ \A p \in Pages \ ps : get'[p] = get[p] /\ half'[p] = half[p] /\ (p \in failed' <=> p \in failed)
  BY DEF PagesTyped, StartGet

\* A step of a refresh keeps the types.
LEMMA RefreshType ==
    ASSUME Assumptions, IInv, TypeIInv, NEW j \in RefreshJobs, Trigger(j) \/ RefreshStep(j)
    PROVE  TypeIInv'
  <1> USE DEF IInv, TypeIInv
  <1>1. stage' \in [RefreshJobs -> Stages] /\ \A i \in RefreshJobs \ {j} : stage'[i] = stage[i]
    BY DEF FilesTyped, Stages, Trigger, RefreshStep, Fetched, WriteCache, FetchFails, CreateTmp, FillTmp,
      RenameTmp, WriteFails
  <1>2. /\ stage[j] # "purging"
        /\ \/ cacheQ' = cacheQ /\ (stage'[j] \in OnChain <=> stage[j] \in OnChain)
           \/ cacheQ' = Append(cacheQ, j) /\ stage[j] \notin OnChain /\ stage'[j] \in OnChain
           \/ cacheQ # <<>> /\ cacheQ[1] = j /\ cacheQ' = Tail(cacheQ) /\ stage'[j] \notin OnChain
    <2>1. CASE Trigger(j)
      BY <2>1 DEF Trigger, OnChain, FilesTyped
    <2>2. CASE Fetched(j)
      BY <2>2 DEF Fetched, OnChain, FilesTyped
    <2>3. CASE WriteCache(j)
      BY <2>3 DEF WriteCache, OnChain, FilesTyped
    <2>4. CASE FetchFails(j)
      BY <2>4 DEF FetchFails, OnChain, FilesTyped
    <2>5. CASE CreateTmp(j)
      BY <2>5 DEF CreateTmp, OnChain, FilesTyped
    <2>6. CASE FillTmp(j)
      BY <2>6 DEF FillTmp, OnChain, FilesTyped
    <2>7. CASE RenameTmp(j)
      BY <2>7, AfterWriteIs DEF RenameTmp, OnChain, FilesTyped
    <2>8. CASE WriteFails(j)
      BY <2>8, AfterWriteIs DEF WriteFails, OnChain, FilesTyped
    <2> QED
      BY <2>1, <2>2, <2>3, <2>4, <2>5, <2>6, <2>7, <2>8 DEF RefreshStep
  <1>3. ChainFits' /\ (stage[Worker] = "purging" => stage'[Worker] = "purging")
    BY <1>1, <1>2, ChainStep DEF RefreshJobs
  <1>4. CASE RenameTmp(j)
    <2>1. stage[j] = "written" /\ tmpOf[j] \in TmpNames
      BY <1>4 DEF RenameTmp, WriterIsHead
    <2>2. cacheFile' \in {Missing, Torn} \cup SUBSET Items
      BY <1>4, <2>1 DEF RenameTmp, FilesTyped
    <2>3. PagesTyped'
      <3>1. StartGet(Pages \cap {j}) /\ Notify(~Purges(j), Pages \cap {j}) /\ open' = open /\ shown' = shown
        BY <1>4 DEF RenameTmp
      <3> QED
        BY <3>1, StartGetIs DEF PagesTyped, Notify
    <2>4. OnePurge'
      <3>1. CASE Purges(j)
        <4> DEFINE op == [kind |-> "purge", items |-> fetched[j], base |-> Unread]
        <4>1. j = Worker /\ slungQ' = Append(slungQ, op) /\ stage'[Worker] = "purging"
          BY <1>4, <3>1 DEF RenameTmp, Purges, FilesTyped
        <4>2. op \in Ops
          BY DEF Ops, FilesTyped
        <4> HIDE DEF op
        <4>3. /\ Len(slungQ) \in Nat /\ Len(slungQ') = Len(slungQ) + 1
              /\ \A k \in 1 .. Len(slungQ) : slungQ'[k] = slungQ[k]
          BY <4>1, <4>2 DEF FilesTyped
        <4>4. \A k \in 1 .. Len(slungQ') : slungQ'[k].kind = "purge" => k = Len(slungQ) + 1
          BY <2>1, <4>1, <4>3 DEF OnePurge
        <4> QED
          BY <4>1, <4>4 DEF OnePurge
      <3>2. CASE ~Purges(j)
        <4>1. slungQ' = slungQ
          BY <1>4, <3>2 DEF RenameTmp
        <4> QED
          BY <1>3, <4>1 DEF OnePurge
      <3> QED
        BY <3>1, <3>2
    <2> QED
      BY <1>3, <2>2, <2>3, <2>4
  <1>5. CASE ~RenameTmp(j)
    <2>1. UNCHANGED <<cacheFile, slungQ, pages>>
      BY <1>5 DEF Trigger, RefreshStep, Fetched, WriteCache, FetchFails, CreateTmp, FillTmp, WriteFails, files
    <2> QED
      BY <1>3, <2>1 DEF pages, PagesTyped, OnePurge
  <1> QED
    BY <1>4, <1>5

\* A step of the slung state keeps them.
LEMMA SlungType ==
    ASSUME Assumptions, IInv, TypeIInv, (\E i \in Items : SlingRecord(i) \/ Vet(i)) \/ SlungStep
    PROVE  TypeIInv'
  <1> USE DEF IInv, TypeIInv
  <1>0. slungQ \in Seq(Ops) /\ Len(slungQ) \in Nat
    BY DEF FilesTyped
  <1>1. ASSUME NEW i \in Items, SlingRecord(i) PROVE TypeIInv'
    <2> DEFINE op == [kind |-> "sling", items |-> {i}, base |-> Unread]
    <2>1. op \in Ops /\ op.kind = "sling" /\ slungQ' = Append(slungQ, op)
      BY <1>1 DEF Ops, SlingRecord
    <2> HIDE DEF op
    <2>2. \A k \in 1 .. Len(slungQ') :
            slungQ'[k].kind = "purge" => k \in 1 .. Len(slungQ) /\ slungQ[k].kind = "purge"
      BY <1>0, <2>1
    <2>3. UNCHANGED <<stage, cacheQ, cacheFile, pages>>
      BY <1>1 DEF SlingRecord, jobs
    <2> QED
      BY <2>2, <2>3 DEF pages, PagesTyped, ChainFits, OnePurge
  <1>2. ASSUME NEW i \in Items, Vet(i) PROVE TypeIInv'
    BY <1>2 DEF Vet, jobs, files, pages, PagesTyped, ChainFits, OnePurge
  <1>3. ASSUME NEW k \in DOMAIN slungQ, ReadSlungState(k) PROVE TypeIInv'
    <2>1. /\ Len(slungQ') = Len(slungQ)
          /\ \A n \in 1 .. Len(slungQ) : slungQ'[n].kind = slungQ[n].kind
      BY <1>0, <1>3 DEF ReadSlungState, Ops
    <2>2. UNCHANGED <<stage, cacheQ, cacheFile, pages>>
      BY <1>3 DEF ReadSlungState, jobs
    <2> QED
      BY <2>1, <2>2 DEF pages, PagesTyped, ChainFits, OnePurge
  <1>4. ASSUME NEW k \in DOMAIN slungQ, NEW written \in BOOLEAN, SlungDone(k, written) PROVE TypeIInv'
    <2>1. k = 1 /\ slungQ # <<>> /\ slungQ' = Tail(slungQ)
      BY <1>0, <1>4, RemoveHead DEF SlungDone, MayRun
    <2>2. 1 \in 1 .. Len(slungQ)
      BY <1>0, <2>1
    <2>3. \A n \in 1 .. Len(slungQ') : slungQ'[n] = slungQ[n + 1] /\ n + 1 \in 1 .. Len(slungQ) /\ n + 1 # 1
      BY <1>0, <2>1
    <2>4. \A m, n \in 1 .. Len(slungQ') : m + 1 = n + 1 => m = n
      OBVIOUS
    <2>5. /\ stage' = IF slungQ[1].kind = "purge" THEN [stage EXCEPT ![Worker] = "idle"] ELSE stage
          /\ Notify(Announced(slungQ[1]), {})
          /\ UNCHANGED <<cacheQ, cacheFile, open, get, half, shown, failed>>
      BY <1>4, <2>1 DEF SlungDone
    <2>6. PagesTyped'
      BY <2>5 DEF Notify, PagesTyped
    <2>7. ChainFits'
      <3>1. slungQ[1].kind = "purge" => stage[Worker] = "purging"
        BY <2>2 DEF OnePurge
      <3> QED
        BY <2>5, <3>1 DEF ChainFits, OnChain, FilesTyped
    <2>8. OnePurge'
      <3>1. CASE slungQ[1].kind = "purge"
        <4>1. \A n \in 1 .. Len(slungQ') : slungQ'[n].kind # "purge"
          BY <2>2, <2>3, <3>1 DEF OnePurge
        <4> QED
          BY <4>1 DEF OnePurge
      <3>2. CASE slungQ[1].kind # "purge"
        BY <2>3, <2>4, <2>5, <3>2 DEF OnePurge
      <3> QED
        BY <3>1, <3>2
    <2> QED
      BY <2>5, <2>6, <2>7, <2>8
  <1> QED
    BY <1>1, <1>2, <1>3, <1>4 DEF SlungStep

\* A step of a page, or a crash, keeps them.
LEMMA PageType ==
    ASSUME Assumptions, IInv, TypeIInv, NextPages \/ Crash \/ UNCHANGED vars PROVE TypeIInv'
  <1> USE DEF IInv, TypeIInv
  <1>1. CASE Crash
    BY <1>1 DEF Crash, PagesTyped, ChainFits, OnChain, OnePurge
  <1>2. CASE NextPages \/ UNCHANGED vars
    <2>1. UNCHANGED <<stage, cacheQ, slungQ, cacheFile>>
      BY <1>2 DEF NextPages, GetReadsCache, GetReadsSlung, GetFails, Connect, Disconnect, Refreshed, vars,
        jobs, files
    <2>2. PagesTyped'
      <3>1. ASSUME NEW p \in Pages, GetReadsCache(p) PROVE PagesTyped'
        <4>1. cacheFile # Missing => cacheFile \in SUBSET Items
          BY DEF CacheIsWhole
        <4>2. EmptyEnvelope \in Views
          BY DEF EmptyEnvelope, Overlay, Views
        <4> QED
          BY <3>1, <4>1, <4>2 DEF GetReadsCache, PagesTyped
      <3>2. ASSUME NEW p \in Pages, GetReadsSlung(p) PROVE PagesTyped'
        <4>1. \A env, slung \in SUBSET Items : Overlay(env, slung) \in Views
          BY DEF Overlay, Views
        <4> QED
          BY <3>2, <4>1 DEF GetReadsSlung, PagesTyped, FilesTyped
      <3>3. ASSUME NEW p \in Pages, GetFails(p) \/ Connect(p) \/ Disconnect(p) PROVE PagesTyped'
        BY <3>3 DEF GetFails, Connect, Disconnect, PagesTyped
      <3>4. ASSUME NEW p \in Pages, Refreshed(p) PROVE PagesTyped'
        BY <3>4, StartGetIs DEF Refreshed, PagesTyped
      <3>5. CASE UNCHANGED vars
        BY <3>5 DEF vars, pages, PagesTyped
      <3> QED
        BY <1>2, <3>1, <3>2, <3>3, <3>4, <3>5 DEF NextPages
    <2> QED
      BY <2>1, <2>2 DEF ChainFits, OnePurge
  <1> QED
    BY <1>1, <1>2

\* Nothing was read or shown.
LEMMA InitTypeIInv == ASSUME Assumptions, Init PROVE TypeIInv
  BY DEF Init, TypeIInv, PagesTyped, ChainFits, OnChain, OnePurge, Nothing, Views

\* No step breaks them.
LEMMA NextTypeIInv == ASSUME Assumptions, IInv, TypeIInv, [Next]_vars PROVE TypeIInv'
  BY RefreshType, SlungType, PageType DEF Next, NextJobs

\* They are what TypeOK says.
LEMMA TypeIs == ASSUME IInv, TypeIInv PROVE TypeOK
  <1>1. cacheQ \in Seq(RefreshJobs) /\ DOMAIN cacheQ = 1 .. Len(cacheQ)
    BY DEF IInv, FilesTyped
  <1>2. \A j \in RefreshJobs : j \in ToSet(cacheQ) <=> stage[j] \in {"queued", "writing", "written"}
    BY <1>1 DEF TypeIInv, ChainFits, OnChain, ToSet
  <1>3. IsInjective(cacheQ)
    BY <1>1 DEF TypeIInv, ChainFits, IsInjective
  <1> QED
    BY <1>2, <1>3 DEF IInv, TypeIInv, FilesTyped, Stages, PagesTyped, TypeOK

\* A step that leaves what is served, or announces what it made of it.
LEMMA ServedStep ==
    ASSUME TypeIInv, CurrentIInv,
           cacheFile' # Missing \/ cacheFile' = cacheFile,
           NEW ps \in SUBSET Pages, StartGet(ps), misread \in BOOLEAN, misread' = misread, shown' = shown,
           \/ stage'[Worker] = "purging"
           \/ \A p \in Pages \ ps : p \in event' \/ p \in missed'
           \/ /\ UNCHANGED <<cacheFile, slungFile>>
              /\ stage[Worker] # "purging"
              /\ \A p \in Pages \ ps : (p \in event => p \in event' \/ p \in missed') /\ (p \in missed => p \in missed')
    PROVE  CurrentIInv'
  <1> USE DEF TypeIInv, CurrentIInv
  <1>1. /\ \A p \in ps : get'[p] = "sent"
        /\ \A p \in Pages \ ps : get'[p] = get[p] /\ half'[p] = half[p] /\ (p \in failed' <=> p \in failed)
    BY StartGetIs
  <1>2. \A p \in Pages : p \in ps \/ p \in Pages \ ps
    OBVIOUS
  <1>3. HalfIsCurrent'
    BY <1>1, <1>2 DEF HalfIsCurrent
  <1>4. ShownIsCurrent'
    BY <1>1, <1>2 DEF ShownIsCurrent, Settled, Served
  <1> QED
    BY <1>3, <1>4

\* A job's step: only its rename changes what is served.
LEMMA JobsCurrent ==
    ASSUME Assumptions, IInv, TypeIInv, CurrentIInv, NEW j \in RefreshJobs, Trigger(j) \/ RefreshStep(j)
    PROVE  CurrentIInv'
  <1> USE DEF IInv, FilesTyped
  <1>0. StartGet({}) <=> (UNCHANGED <<get, half, failed>>)
    BY DEF StartGet, TypeIInv, PagesTyped
  <1>1. stage[j] # "purging"
    BY DEF Trigger, RefreshStep, Fetched, WriteCache, FetchFails, CreateTmp, FillTmp, RenameTmp, WriteFails
  <1>2. stage[Worker] = "purging" <=> stage'[Worker] = "purging" /\ ~(RenameTmp(j) /\ Purges(j))
    BY <1>1 DEF Trigger, RefreshStep, Fetched, WriteCache, FetchFails, CreateTmp, FillTmp, RenameTmp,
      WriteFails, RefreshJobs, Purges
  <1>3. CASE RenameTmp(j)
    <2>1. cacheFile' # Missing /\ StartGet(Pages \cap {j}) /\ misread' = misread /\ shown' = shown
      BY <1>3 DEF RenameTmp
    <2>2. CASE Purges(j)
      <3>1. stage'[Worker] = "purging"
        BY <1>3, <2>2 DEF RenameTmp, Purges
      <3> QED
        BY <2>1, <3>1, ServedStep
    <2>3. CASE ~Purges(j)
      <3>1. \A p \in Pages \ {j} : p \in event' \/ p \in missed'
        BY <1>3, <2>3 DEF RenameTmp, Notify
      <3> QED
        BY <2>1, <3>1, ServedStep
    <2> QED
      BY <2>2, <2>3
  <1>4. CASE ~RenameTmp(j)
    <2>1. UNCHANGED <<cacheFile, slungFile, misread, event, missed, shown, get, half, failed>>
      BY <1>4 DEF Trigger, RefreshStep, Fetched, WriteCache, FetchFails, CreateTmp, FillTmp, WriteFails,
        files, pages
    <2> QED
      BY <1>0, <1>2, <1>4, <2>1, ServedStep
  <1> QED
    BY <1>3, <1>4

\* The slung state: the end of an operation is announced, done or not.
LEMMA SlungCurrent ==
    ASSUME Assumptions, IInv, TypeIInv, CurrentIInv, (\E i \in Items : SlingRecord(i) \/ Vet(i)) \/ SlungStep
    PROVE  CurrentIInv'
  <1> USE DEF IInv, FilesTyped
  <1>0. StartGet({}) <=> (UNCHANGED <<get, half, failed>>)
    BY DEF StartGet, TypeIInv, PagesTyped
  <1>1. ASSUME NEW i \in Items, SlingRecord(i) \/ Vet(i) PROVE CurrentIInv'
    BY <1>1 DEF SlingRecord, Vet, jobs, files, pages, CurrentIInv, HalfIsCurrent, ShownIsCurrent, Settled, Served
  <1>2. ASSUME NEW k \in DOMAIN slungQ, ReadSlungState(k) PROVE CurrentIInv'
    BY <1>2 DEF ReadSlungState, jobs, pages, CurrentIInv, HalfIsCurrent, ShownIsCurrent, Settled, Served
  <1>3. ASSUME NEW k \in DOMAIN slungQ, NEW written \in BOOLEAN, SlungDone(k, written) PROVE CurrentIInv'
    <2>1. Announced(slungQ[k])
      <3>1. slungQ[k] \in Ops
        OBVIOUS
      <3> QED
        BY <3>1 DEF Announced, Ops
    <2>2. \A p \in Pages : p \in event' \/ p \in missed'
      BY <1>3, <2>1 DEF SlungDone, Notify
    <2> QED
      BY <1>0, <1>3, <2>2, ServedStep DEF SlungDone
  <1> QED
    BY <1>1, <1>2, <1>3 DEF SlungStep

\* A page's step, and a crash.
LEMMA PagesCurrent ==
    ASSUME Assumptions, IInv, TypeIInv, CurrentIInv, NextPages \/ Crash \/ UNCHANGED vars PROVE CurrentIInv'
  <1> USE DEF TypeIInv, PagesTyped, CurrentIInv, HalfIsCurrent, ShownIsCurrent, Settled, Served
  <1>1. CASE Crash
    BY <1>1 DEF Crash
  <1>2. CASE UNCHANGED vars
    BY <1>2 DEF vars, files, jobs, pages
  <1>3. ASSUME NEW p \in Pages, GetReadsCache(p) PROVE CurrentIInv'
    BY <1>3 DEF GetReadsCache, jobs, files
  <1>4. ASSUME NEW p \in Pages, GetReadsSlung(p) PROVE CurrentIInv'
    BY <1>4 DEF GetReadsSlung, jobs, IInv, FilesTyped
  <1>5. ASSUME NEW p \in Pages, GetFails(p) \/ Connect(p) \/ Disconnect(p) PROVE CurrentIInv'
    BY <1>5 DEF GetFails, Connect, Disconnect, jobs, files
  <1>6. ASSUME NEW p \in Pages, Refreshed(p) PROVE CurrentIInv'
    BY <1>6 DEF Refreshed, StartGet, jobs, files
  <1> QED
    BY <1>1, <1>2, <1>3, <1>4, <1>5, <1>6 DEF NextPages

\* Nothing was read or shown.
LEMMA InitFullIInv == ASSUME Assumptions, Init PROVE FullIInv
  <1>1. CurrentIInv
    BY DEF Init, CurrentIInv, HalfIsCurrent, ShownIsCurrent, Settled
  <1> QED
    BY <1>1, InitIInv, InitTypeIInv DEF FullIInv

\* No step breaks it, or loses a sling.
LEMMA NextFullIInv == ASSUME Assumptions, FullIInv, [Next]_vars PROVE FullIInv' /\ KeepsSlings
  <1> USE DEF FullIInv
  <1>1. IInv' /\ KeepsSlings /\ TypeIInv'
    BY NextIInv, NextTypeIInv
  <1>2. CurrentIInv'
    BY JobsCurrent, SlungCurrent, PagesCurrent DEF Next, NextJobs
  <1> QED
    BY <1>1, <1>2

\* The invariant holds of every behaviour.
LEMMA Invariant == ASSUME Assumptions PROVE Spec => []FullIInv
  <1>1. Init => FullIInv
    BY InitFullIInv
  <1>2. FullIInv /\ [Next]_vars => FullIInv'
    BY NextFullIInv
  <1> QED
    BY <1>1, <1>2, PTL DEF Spec
-----------------------------------------------------------------------------
\* No reader, not even after a crash, finds half a cache file, whichever
\* temporary names the writers pick (storage.ts, persistAtomic).
THEOREM CacheStaysWhole == ASSUME Assumptions PROVE Spec => []CacheIsWhole
  <1>1. FullIInv => CacheIsWhole
    BY DEF FullIInv, IInv
  <1> QED
    BY <1>1, Invariant, PTL

\* An entry leaves the slung file only for an item that was vetted, unless a
\* read error hid the file from a writer (slung-state.ts).
THEOREM SlingsStay == ASSUME Assumptions PROVE Spec => NoSlingIsLost
  <1>1. ASSUME Assumptions PROVE FullIInv /\ [Next]_vars => [KeepsSlings]_vars
    BY <1>1, NextFullIInv
  <1> QED
    BY <1>1, Invariant, PTL DEF Spec, NoSlingIsLost

\* Every variable keeps its type, and the chain of the cache holds the jobs
\* past their fetch, once each (storage.ts).
THEOREM TypeCorrect == ASSUME Assumptions PROVE Spec => []TypeOK
  <1>1. FullIInv => TypeOK
    BY TypeIs DEF FullIInv
  <1> QED
    BY <1>1, Invariant, PTL

\* A page that lost no event and has nothing under way shows what the server
\* would serve it (worker.ts, triage.ts, sse.ts, Maintainer.tsx).
THEOREM PagesAreCurrent == ASSUME Assumptions PROVE Spec => []ShownIsCurrent
  <1>1. FullIInv => ShownIsCurrent
    BY DEF FullIInv, CurrentIInv
  <1> QED
    BY <1>1, Invariant, PTL
=============================================================================
