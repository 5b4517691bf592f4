-------------------------- MODULE MaintainerTriage --------------------------
(***************************************************************************)
(* The maintainer module of a city runtime                                 *)
(* (backend/src/views/modules/maintainer): the triage cache file and the   *)
(* slung-state file, the background worker and the POST /refresh handlers  *)
(* that rewrite them, POST /sling-record, and the Triage pages that follow *)
(* the cache through the /events stream                                    *)
(* (frontend/src/views/modules/maintainer/Maintainer.tsx).                 *)
(*                                                                         *)
(* An envelope is represented by the set of items it says are vetted.  An  *)
(* await that is resumed by a finished disk operation runs before any      *)
(* other I/O event, so a write and the statements that follow it up to the *)
(* next await are one action.                                              *)
(***************************************************************************)
EXTENDS Integers, Sequences, FiniteSets, SequencesExt

CONSTANTS
    Items,       \* the open issues and pull requests
    Pages,       \* open Triage pages; each has one Refresh button
    TmpNames,    \* temporary file names, pid and millisecond
    MaxOps,      \* bound on the slung-state operations queued at once
    Missing,     \* a file that does not exist
    Torn,        \* a file being written
    Unread       \* the map of an operation that has not read it yet

\* What the constants are to be; an instance for TLC assumes it.
Assumptions ==
  /\ "worker" \notin Pages
  /\ \A S \in SUBSET Items : S # Missing /\ S # Torn /\ S # Unread
  /\ Missing # Torn

VARIABLES
    vetted,      \* upstream: the items an agent has assessed
    stage,       \* job -> how far its refresh is
    fetched,     \* job -> the envelope its fetch returned
    cacheQ,      \* storage.ts writeChain
    tmp,         \* temporary name -> contents
    tmpOf,       \* job -> the name it writes to
    cacheFile,   \* contents of maintainer-cache.json
    slungFile,   \* the items in slung-state.json
    slungQ,      \* slung-state.ts writeChain
    misread,     \* history: readSlungState hid a read error from a writer
    open,        \* the pages registered in sse.ts
    event,       \* the pages with a 'refreshed' event under way
    get,         \* page -> progress of its latest GET /triage
    half,        \* page -> the envelope that GET has read
    shown,       \* page -> what it renders
    failed,      \* the pages whose latest GET failed
    missed       \* history: the pages an event was lost for since their GET

files == <<tmp, tmpOf, cacheFile, slungFile, slungQ, misread>>
jobs == <<stage, fetched, cacheQ>>
pages == <<open, event, get, half, shown, failed, missed>>
vars == <<vetted, jobs, files, pages>>

Worker == "worker"
RefreshJobs == {Worker} \cup Pages
NoTmp == "none"
Nothing == [vetted |-> {}, slung |-> {}, rendered |-> FALSE]

Init ==
    /\ vetted = {}
    /\ stage = [j \in RefreshJobs |-> "idle"]
    /\ fetched = [j \in RefreshJobs |-> {}]
    /\ cacheQ = <<>>
    /\ tmp = [n \in TmpNames |-> Missing]
    /\ tmpOf = [j \in RefreshJobs |-> NoTmp]
    /\ cacheFile = Missing
    /\ slungFile = {}
    /\ slungQ = <<>>
    /\ misread = FALSE
    /\ open = {} /\ event = {}
    /\ get = [p \in Pages |-> "sent"]
    /\ half = [p \in Pages |-> {}]
    /\ shown = [p \in Pages |-> Nothing]
    /\ failed = {} /\ missed = {}

\* Definitions ending in _Fault are plausible bugs in the definition they
\* precede; each is what some property below must notice.

\* applySlungOverlay: a vetted item is not in flight whatever the file says.
Overlay(env, slung) == [vetted |-> env, slung |-> slung \ env, rendered |-> TRUE]
EmptyEnvelope == Overlay({}, {})
Served == IF cacheFile = Missing THEN EmptyEnvelope ELSE Overlay(cacheFile, slungFile)

\* A page sends GET /triage: whatever it missed before, it reads now.
StartGet(ps) ==
    /\ get' = [p \in Pages |-> IF p \in ps THEN "sent" ELSE get[p]]
    /\ half' = [p \in Pages |-> IF p \in ps THEN {} ELSE half[p]]
    /\ failed' = failed \ ps

\* notifyRefresh writes to every registered response; a page that is not
\* registered, and does not start a GET, will not hear of it.
Notify(on, reading) ==
    /\ event' = IF on THEN open ELSE event
    /\ missed' = (IF on THEN missed \cup (Pages \ open) ELSE missed) \ reading

-----------------------------------------------------------------------------
(* Refreshes: the worker's runRefresh and the POST /refresh of a page.      *)

\* triggerRefresh skips a tick while a run is active; the button of a page
\* is disabled while its POST is.
Trigger(j) ==
    /\ stage[j] = "idle"
    /\ stage' = [stage EXCEPT ![j] = "fetching"]
    /\ UNCHANGED <<vetted, fetched, cacheQ, files, pages>>

\* fetchTriage reads upstream, then writeCache joins the chain.
Fetched(j) ==
    /\ stage[j] = "fetching"
    /\ stage' = [stage EXCEPT ![j] = "read"]
    /\ fetched' = [fetched EXCEPT ![j] = vetted]
    /\ UNCHANGED <<vetted, cacheQ, files, pages>>

WriteCache(j) ==
    /\ stage[j] = "read"
    /\ stage' = [stage EXCEPT ![j] = "queued"]
    /\ cacheQ' = Append(cacheQ, j)
    /\ UNCHANGED <<vetted, fetched, files, pages>>

FetchFails(j) ==
    /\ stage[j] \in {"fetching", "read"}
    /\ stage' = [stage EXCEPT ![j] = "idle"]
    /\ fetched' = [fetched EXCEPT ![j] = {}]
    /\ UNCHANGED <<vetted, cacheQ, files, pages>>

MayWrite_Fault(j) == j \in ToSet(cacheQ)
LastFirst_Fault(j) == cacheQ # <<>> /\ j = Last(cacheQ)
MayWrite(j) == cacheQ # <<>> /\ j = Head(cacheQ)

\* persistAtomic: the temporary file is created, filled and renamed.
CreateTmp(j) ==
    /\ stage[j] = "queued"
    /\ MayWrite(j)
    /\ \E n \in TmpNames :
        /\ tmp' = [tmp EXCEPT ![n] = Torn]
        /\ tmpOf' = [tmpOf EXCEPT ![j] = n]
    /\ stage' = [stage EXCEPT ![j] = "writing"]
    /\ UNCHANGED <<vetted, fetched, cacheQ, cacheFile, slungFile, slungQ, misread, pages>>

FillTmp(j) ==
    /\ stage[j] = "writing"
    /\ stage' = [stage EXCEPT ![j] = "written"]
    /\ tmp' = [tmp EXCEPT ![tmpOf[j]] = fetched[j]]
    /\ UNCHANGED <<vetted, fetched, cacheQ, tmpOf, cacheFile, slungFile, slungQ,
                   misread, pages>>

\* A write leaves the chain when it ends.
AfterWrite(j) == RemoveAt(cacheQ, CHOOSE k \in DOMAIN cacheQ : cacheQ[k] = j)

\* What the worker purges once its envelope is on disk.
Purges(j) == j = Worker /\ fetched[j] # {}

\* The rename, then for a POST the notification and, once it answers, the
\* page's own GET; the worker purges first when it has something to purge.
RenameTmp(j) ==
    /\ stage[j] = "written"
    /\ tmp[tmpOf[j]] # Missing
    /\ cacheFile' = tmp[tmpOf[j]]
    /\ tmp' = [tmp EXCEPT ![tmpOf[j]] = Missing]
    /\ tmpOf' = [tmpOf EXCEPT ![j] = NoTmp]
    /\ cacheQ' = AfterWrite(j)
    /\ stage' = [stage EXCEPT ![j] = IF Purges(j) THEN "purging" ELSE "idle"]
    /\ fetched' = [fetched EXCEPT ![j] = {}]
    /\ slungQ' = IF Purges(j)
                 THEN Append(slungQ, [kind |-> "purge", items |-> fetched[j], base |-> Unread])
                 ELSE slungQ
    /\ Notify(~Purges(j), Pages \cap {j})
    /\ StartGet(Pages \cap {j})
    /\ UNCHANGED <<vetted, slungFile, misread, open, shown>>

\* A failed write keeps the chain alive, and the job reports and ends.  The
\* file it leaves behind is never read: its name is created anew before use.
WriteFails(j) ==
    /\ stage[j] \in {"writing", "written"}
    /\ cacheQ' = AfterWrite(j)
    /\ tmp' = [tmp EXCEPT ![tmpOf[j]] = Missing]
    /\ tmpOf' = [tmpOf EXCEPT ![j] = NoTmp]
    /\ stage' = [stage EXCEPT ![j] = "idle"]
    /\ fetched' = [fetched EXCEPT ![j] = {}]
    /\ UNCHANGED <<vetted, cacheFile, slungFile, slungQ, misread, pages>>

-----------------------------------------------------------------------------
(* The slung state: writeSlungEntry and purgeSlungKeys.                     *)

SlingRecord(i) ==
    /\ Len(slungQ) < MaxOps
    /\ slungQ' = Append(slungQ, [kind |-> "sling", items |-> {i}, base |-> Unread])
    /\ UNCHANGED <<vetted, jobs, tmp, tmpOf, cacheFile, slungFile, misread, pages>>

MayRun_Fault(k) == k \in DOMAIN slungQ
MayRun(k) == k \in DOMAIN slungQ /\ k = 1

\* readSlungState: an unreadable file reads as the empty map.
ReadSlungState(k) ==
    /\ MayRun(k)
    /\ slungQ[k].base = Unread
    /\ \E ok \in BOOLEAN :
        /\ slungQ' = [slungQ EXCEPT ![k].base = IF ok THEN slungFile ELSE {}]
        /\ misread' = (misread \/ (~ok /\ slungFile # {}))
    /\ UNCHANGED <<vetted, jobs, tmp, tmpOf, cacheFile, slungFile, pages>>

NextState(op) ==
    IF op.kind = "sling" THEN op.base \cup op.items ELSE op.base \ op.items

Announced_Fault(op) == op.kind = "sling"
Announced(op) == op.kind \in {"sling", "purge"}

\* The end of an operation, written or failed: the sling handler and the
\* worker both swallow the error and notify.
SlungDone(k, written) ==
    /\ MayRun(k)
    /\ slungQ[k].base # Unread
    /\ slungFile' = IF written THEN NextState(slungQ[k]) ELSE slungFile
    /\ slungQ' = RemoveAt(slungQ, k)
    /\ stage' = IF slungQ[k].kind = "purge" THEN [stage EXCEPT ![Worker] = "idle"]
                ELSE stage
    /\ Notify(Announced(slungQ[k]), {})
    /\ UNCHANGED <<vetted, fetched, cacheQ, tmp, tmpOf, cacheFile, misread, open, get,
                   half, shown, failed>>

-----------------------------------------------------------------------------
(* The pages: GET /triage and the /events stream.                           *)

\* readCache, then, after an await, readSlungState.
GetReadsCache(p) ==
    /\ get[p] = "sent"
    /\ cacheFile # Torn
    /\ get' = [get EXCEPT ![p] = IF cacheFile = Missing THEN "none" ELSE "half"]
    /\ half' = IF cacheFile = Missing THEN half ELSE [half EXCEPT ![p] = cacheFile]
    /\ shown' = IF cacheFile = Missing THEN [shown EXCEPT ![p] = EmptyEnvelope] ELSE shown
    /\ UNCHANGED <<vetted, jobs, files, open, event, failed, missed>>

GetReadsSlung(p) ==
    /\ get[p] = "half"
    /\ get' = [get EXCEPT ![p] = "none"]
    /\ half' = [half EXCEPT ![p] = {}]
    /\ \E ok \in BOOLEAN :
        /\ shown' = [shown EXCEPT ![p] = Overlay(half[p], IF ok THEN slungFile ELSE {})]
        /\ misread' = (misread \/ (~ok /\ slungFile # {}))
    /\ UNCHANGED <<vetted, jobs, tmp, tmpOf, cacheFile, slungFile, slungQ, open, event,
                   failed, missed>>

GetFails(p) ==
    /\ get[p] # "none"
    /\ get' = [get EXCEPT ![p] = "none"]
    /\ half' = [half EXCEPT ![p] = {}]
    /\ failed' = failed \cup {p}
    /\ UNCHANGED <<vetted, jobs, files, open, event, shown, missed>>

\* The EventSource of a page connects; the browser reconnects it when it drops.
Connect(p) ==
    /\ open' = open \cup {p}
    /\ UNCHANGED <<vetted, jobs, files, event, get, half, shown, failed, missed>>

Disconnect(p) ==
    /\ p \in open
    /\ open' = open \ {p}
    /\ event' = event \ {p}
    /\ missed' = missed \cup (event \cap {p})
    /\ UNCHANGED <<vetted, jobs, files, get, half, shown, failed>>

\* onRefresh: a new GET supersedes the one in flight.
Refreshed(p) ==
    /\ p \in event
    /\ event' = event \ {p}
    /\ missed' = missed \ {p}
    /\ StartGet({p})
    /\ UNCHANGED <<vetted, jobs, files, open, shown>>

-----------------------------------------------------------------------------
\* An agent posts its assessment upstream.
Vet(i) ==
    /\ vetted' = vetted \cup {i}
    /\ UNCHANGED <<jobs, files, pages>>

\* The process dies and is started again: the files are all that survives.
Crash ==
    /\ stage' = [j \in RefreshJobs |-> "idle"]
    /\ fetched' = [j \in RefreshJobs |-> {}]
    /\ cacheQ' = <<>> /\ slungQ' = <<>>
    /\ tmp' = [n \in TmpNames |-> Missing]
    /\ tmpOf' = [j \in RefreshJobs |-> NoTmp]
    /\ open' = {} /\ event' = {}
    /\ missed' = missed \cup (IF stage[Worker] = "purging" THEN Pages ELSE event)
    /\ get' = [p \in Pages |-> "none"]
    /\ half' = [p \in Pages |-> {}]
    /\ failed' = failed \cup {p \in Pages : get[p] # "none"}
    /\ UNCHANGED <<vetted, cacheFile, slungFile, misread, shown>>

RefreshStep(j) ==
    \/ Fetched(j) \/ WriteCache(j) \/ FetchFails(j)
    \/ CreateTmp(j) \/ FillTmp(j) \/ RenameTmp(j) \/ WriteFails(j)

SlungStep ==
    \E k \in DOMAIN slungQ :
        ReadSlungState(k) \/ \E written \in BOOLEAN : SlungDone(k, written)

\* The refreshes and the slung state alone: no step of a page changes them.
NextJobs ==
    \/ \E j \in RefreshJobs : Trigger(j) \/ RefreshStep(j)
    \/ \E i \in Items : SlingRecord(i) \/ Vet(i)
    \/ SlungStep
    \/ Crash

NextPages ==
    \E p \in Pages :
        \/ GetReadsCache(p) \/ GetReadsSlung(p) \/ GetFails(p)
        \/ Connect(p) \/ Disconnect(p) \/ Refreshed(p)

Next == NextJobs \/ NextPages

\* Disk operations and the bounded gh commands of a fetch come to an end.
Fairness == (\A j \in RefreshJobs : WF_vars(RefreshStep(j))) /\ WF_vars(SlungStep)

Spec == Init /\ [][Next]_vars
FairSpec == Spec /\ Fairness
-----------------------------------------------------------------------------
Views == [vetted : SUBSET Items, slung : SUBSET Items, rendered : BOOLEAN]
Ops == [kind : {"sling", "purge"}, items : SUBSET Items,
        base : {Unread} \cup SUBSET Items]

\* Every variable stays in its domain, and the jobs past their fetch, and only
\* they, are on the write chain, once each.
TypeOK ==
    /\ vetted \in SUBSET Items
    /\ stage \in [RefreshJobs -> {"idle", "fetching", "read", "queued", "writing", "written",
                           "purging"}]
    /\ fetched \in [RefreshJobs -> SUBSET Items]
    /\ cacheQ \in Seq(RefreshJobs) /\ slungQ \in Seq(Ops)
    /\ tmp \in [TmpNames -> {Missing, Torn} \cup SUBSET Items]
    /\ tmpOf \in [RefreshJobs -> TmpNames \cup {NoTmp}]
    /\ cacheFile \in {Missing, Torn} \cup SUBSET Items
    /\ slungFile \in SUBSET Items
    /\ misread \in BOOLEAN
    /\ open \in SUBSET Pages /\ event \in SUBSET open
    /\ get \in [Pages -> {"none", "sent", "half"}]
    /\ half \in [Pages -> SUBSET Items]
    /\ shown \in [Pages -> Views]
    /\ failed \in SUBSET Pages /\ missed \in SUBSET Pages
    /\ \A j \in RefreshJobs : j \in ToSet(cacheQ) <=> stage[j] \in {"queued", "writing", "written"}
    /\ IsInjective(cacheQ)

\* No process, not even the one started after a crash, finds a half-written
\* cache, although two writers may pick the same temporary name
\* (storage.ts:10-12 and 50-55).
CacheIsWhole == cacheFile # Torn

\* Concurrent slings and purges lose no sling: an entry leaves the file only
\* for an item that was vetted upstream, unless a read error hid the file
\* from a writer (slung-state.ts:14-18).
KeepsSlings == misread' \/ slungFile \ slungFile' \subseteq vetted
NoSlingIsLost == [][KeepsSlings]_vars

\* A page that lost no event and has nothing under way shows what the server
\* would serve it: every change of the two files is announced after it is
\* durable, and announced again when a later step changes it.
Settled(p) ==
    get[p] = "none" /\ p \notin event /\ p \notin failed /\ stage[Worker] # "purging"
ShownIsCurrent ==
    \A p \in Pages :
        Settled(p) /\ p \notin missed /\ ~misread => shown[p] = Served

\* The purge "is purely on-disk hygiene" (worker.ts:180-181): it does not
\* change what /triage serves.
PurgeIsHygiene ==
    [][slungQ # <<>> /\ Head(slungQ).kind = "purge" /\ Len(slungQ') < Len(slungQ)
       /\ ~misread => Served' = Served \/ cacheFile' # cacheFile]_vars

\* Every refresh ends, whatever the one before it on the chain met.
Refreshing(j) == stage[j] # "idle"
RefreshesEnd == \A j \in RefreshJobs : Refreshing(j) ~> ~Refreshing(j)
=============================================================================
