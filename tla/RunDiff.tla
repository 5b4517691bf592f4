------------------------------- MODULE RunDiff -------------------------------
(***************************************************************************)
(* One answer of the route that shows what a run has changed               *)
(* (backend/src/runs/diff.ts, the git views of backend/src/exec.ts): three *)
(* reads of git at once, then two, then one per untracked file while the   *)
(* budget of the patch lasts, over a working tree that an agent may be     *)
(* changing.                                                               *)
(*                                                                         *)
(* A file has a size in the patch, a list is as long as it has names.  A   *)
(* name cut in the middle and a rename are left out.                       *)
(***************************************************************************)
EXTENDS Naturals, FiniteSets, FiniteSetsExt

CONSTANTS Files,
          Control,    \* CONTROL_PLANE_PATH_PREFIXES: the files below them
          Rank,       \* Rank[f]: where compareUntrackedPaths sorts f
          Bytes,      \* Bytes[files]: how long the patch of the files is
          Budget,     \* MAX_RUN_DIFF_BYTES
          FileCap,    \* MAX_UNTRACKED_FILE_DIFF_BYTES
          MaxFiles,   \* MAX_UNTRACKED_PATCH_FILES
          ListCap,    \* MAX_BYTES: the names that a list holds
          MaxMoves,   \* bound: the changes of the tree during the answer
          None

\* What the constants are to be; an instance for TLC assumes it.
Assumptions ==
  /\ IsFiniteSet(Files) /\ Control \subseteq Files
  /\ Rank \in [Files -> Nat] /\ \A f, g \in Files : Rank[f] = Rank[g] => f = g
  /\ Bytes \in [SUBSET Files -> Nat] /\ Bytes[{}] = 0
  /\ \A files \in SUBSET Files : \A f \in Files \ files :
       Bytes[files \cup {f}] = Bytes[files] + Bytes[{f}]
  /\ Budget \in Nat \ {0} /\ FileCap \in Nat \ {0} /\ MaxFiles \in Nat \ {0}
  /\ ListCap \in Nat \ {0} /\ MaxMoves \in Nat
  /\ None \notin {"upstream", "head"} \cup [files : SUBSET Files, bytes : 0 .. Budget]
  /\ \A files \in SUBSET Files : files # None

VARIABLES
  tree,       \* what git would say of each file
  status,     \* the answers of the three first reads, or None
  untracked,
  comparison,
  tracked,    \* trackedPatch: the files it has whole, and its length
  names,      \* trackedChangedFiles
  queue,      \* orderedPaths that are left, or None before the loop
  parts,      \* the untracked files that are in the patch whole
  remaining,  \* what is left of the budget
  truncated,  \* what the flag of the answer will be
  response,   \* the answer, or None
  moves, quiet
  \* history: changes of the tree, and whether a read failed or came short
  \* with nothing but a line in the log

vars == <<tree, status, untracked, comparison, tracked, names, queue, parts,
          remaining, truncated, response, moves, quiet>>
reads == <<status, untracked, comparison>>
patches == <<tracked, names>>
loop == <<queue, parts, remaining>>

Reviewable == Files \ Control
New == {f \in Files : tree[f] = "new"}
Tracked(base) ==
  {f \in Reviewable : tree[f] = "edited" \/ (base = "upstream" /\ tree[f] = "committed")}

\* What a list of names may come to: all of them, or what fits.
Listing(files) ==
  IF Cardinality(files) <= ListCap THEN {[files |-> files, cut |-> FALSE]}
  ELSE {[files |-> some, cut |-> TRUE] : some \in kSubset(ListCap, files)}

Init ==
  /\ tree \in [Files -> {"clean", "committed", "edited", "new"}]
  /\ status = None /\ untracked = None /\ comparison = None
  /\ tracked = None /\ names = None
  /\ queue = None /\ parts = {} /\ remaining = 0
  /\ truncated = FALSE /\ response = None /\ moves = 0 /\ quiet = FALSE

Answers(r) ==
  /\ response' = r
  /\ UNCHANGED <<tree, reads, patches, loop, truncated, moves, quiet>>

\* The path of the run is not known, its root is not that of a repository, or
\* a read fails that the answer cannot do without.
Refuses ==
  /\ response = None /\ status = None /\ untracked = None /\ comparison = None
  /\ \E kind \in {"path_unknown", "not_git"} : Answers([kind |-> kind])
Fails == response = None /\ Answers([kind |-> "error"])

\* The three first reads, each at its own time.
ReadStatus ==
  /\ response = None /\ status = None
  /\ \E list \in Listing({f \in Reviewable : tree[f] \in {"edited", "new"}}) :
       status' = list.files /\ truncated' = (truncated \/ list.cut)
  /\ UNCHANGED <<tree, untracked, comparison, patches, loop, response, moves, quiet>>

ReadUntracked ==
  /\ response = None /\ untracked = None
  /\ \E list \in Listing(New) :
       untracked' = list.files \ Control /\ truncated' = (truncated \/ list.cut)
  /\ UNCHANGED <<tree, status, comparison, patches, loop, response, moves, quiet>>

ResolveComparison ==
  /\ response = None /\ comparison = None
  /\ comparison' \in {"upstream", "head"}
  /\ UNCHANGED <<tree, status, untracked, patches, loop, truncated, response, moves, quiet>>

\* The two that need the comparison, once all three are there.
Compared == response = None /\ status # None /\ untracked # None /\ comparison # None

ReadPatch ==
  /\ Compared /\ tracked = None
  /\ LET files == Tracked(comparison)
     IN  IF Bytes[files] <= Budget
         THEN tracked' = [files |-> files, bytes |-> Bytes[files]] /\ UNCHANGED truncated
         ELSE /\ \E whole \in {some \in SUBSET files : Bytes[some] <= Budget} :
                   tracked' = [files |-> whole, bytes |-> Budget]
              /\ truncated' = TRUE
  /\ UNCHANGED <<tree, reads, names, loop, response, moves, quiet>>

\* Without an upstream a patch that fails is an empty one.
PatchFails ==
  /\ Compared /\ tracked = None /\ comparison = "head"
  /\ tracked' = [files |-> {}, bytes |-> 0] /\ quiet' = TRUE
  /\ UNCHANGED <<tree, reads, names, loop, truncated, response, moves>>

ReadNames ==
  /\ Compared /\ names = None
  /\ \E list \in Listing(Tracked(comparison)) \cup {[files |-> {}, cut |-> TRUE]} :
       names' = list.files /\ quiet' = (quiet \/ list.cut)
  /\ UNCHANGED <<tree, reads, tracked, loop, truncated, response, moves>>

\* readUntrackedPatch.  (An operator ending in _Fault is a plausible bug in the
\* one below it.)
TooMany_Fault(paths) == Cardinality(paths) > MaxFiles + 1
TooMany(paths) == Cardinality(paths) > MaxFiles

Before(f, paths) == {g \in paths : Rank[g] < Rank[f]}
FirstOf(n, paths) == {f \in paths : Cardinality(Before(f, paths)) < n}

StartLoop ==
  /\ Compared /\ tracked # None /\ names # None /\ queue = None
  /\ queue' = FirstOf(MaxFiles, untracked)
  /\ remaining' = IF tracked.bytes > Budget THEN 0 ELSE Budget - tracked.bytes
  /\ truncated' = (truncated \/ TooMany(untracked) \/ tracked.bytes > Budget)
  /\ UNCHANGED <<tree, reads, patches, parts, response, moves, quiet>>

Looping == response = None /\ queue # None /\ queue # {}

Exhausted ==
  /\ Looping /\ remaining = 0
  /\ truncated' = TRUE /\ queue' = {}
  /\ UNCHANGED <<tree, reads, patches, parts, remaining, response, moves, quiet>>

\* A file larger than what it may take is cut, and the last one.
ReadFile ==
  /\ Looping /\ remaining > 0
  /\ \E f \in queue :
       LET limit == IF remaining < FileCap THEN remaining ELSE FileCap
       IN  /\ Before(f, queue) = {}
           /\ IF Bytes[{f}] <= limit
              THEN /\ parts' = parts \cup {f} /\ remaining' = remaining - Bytes[{f}]
                   /\ queue' = queue \ {f} /\ UNCHANGED truncated
              ELSE /\ remaining' = remaining - limit /\ truncated' = TRUE
                   /\ queue' = {} /\ UNCHANGED parts
  /\ UNCHANGED <<tree, reads, patches, response, moves, quiet>>

FileFails ==
  /\ Looping /\ remaining > 0
  /\ \E f \in queue : Before(f, queue) = {} /\ queue' = queue \ {f}
  /\ quiet' = TRUE
  /\ UNCHANGED <<tree, reads, patches, parts, remaining, truncated, response, moves>>

Answer ==
  /\ response = None /\ queue = {}
  /\ Answers([kind |-> "ok", base |-> comparison, status |-> status,
              changed |-> names \cup untracked, patch |-> tracked.files \cup parts,
              truncated |-> truncated])

\* The agent of the run goes on working.
Move ==
  /\ response = None /\ moves < MaxMoves /\ moves' = moves + 1
  /\ \E f \in Files, s \in {"clean", "committed", "edited", "new"} : tree' = [tree EXCEPT ![f] = s]
  /\ UNCHANGED <<reads, patches, loop, truncated, response, quiet>>

Next ==
  \/ Refuses \/ Fails
  \/ ReadStatus \/ ReadUntracked \/ ResolveComparison
  \/ ReadPatch \/ PatchFails \/ ReadNames
  \/ StartLoop \/ Exhausted \/ ReadFile \/ FileFails \/ Answer
  \/ Move

----------------------------------------------------------------------------
\* The types.
TypeOK ==
  /\ tree \in [Files -> {"clean", "committed", "edited", "new"}]
  /\ {status, untracked, names} \subseteq (SUBSET Reviewable) \cup {None}
  /\ comparison \in {"upstream", "head", None}
  /\ parts \subseteq Reviewable /\ remaining \in 0 .. Budget
  /\ queue \in (SUBSET Files) \cup {None}
  /\ tracked \in [files : SUBSET Files, bytes : 0 .. Budget] \cup {None}
  /\ truncated \in BOOLEAN /\ quiet \in BOOLEAN /\ moves \in 0 .. MaxMoves

\* The answer is what the tree was: when the agent rested and no read failed
\* in silence, an answer that is not called truncated lists and shows exactly
\* the files that differ from what it says it compares with, and a truncated
\* one nothing else; a file of the control plane is never in it, and the patch
\* keeps its budget, whatever moved or failed.
DiffIsHonest ==
  (response # None /\ response.kind = "ok") =>
    LET truth == Tracked(response.base) \cup (New \cap Reviewable)
    IN  /\ (moves = 0 /\ ~quiet) =>
             /\ response.status \cup response.changed \cup response.patch \subseteq truth
             /\ ~response.truncated => response.changed = truth /\ response.patch = truth
        /\ response.changed \cup response.patch \subseteq Reviewable
        /\ tracked.bytes + Bytes[parts] <= Budget

\* Why: each read said what there was or only a part of it, and then a flag is
\* set; and the loop takes each file once, from what the patch left.
ReadsWereTrue ==
  (moves = 0 /\ ~quiet) =>
    /\ status # None => status \subseteq {f \in Reviewable : tree[f] \in {"edited", "new"}}
    /\ untracked # None =>
         untracked \subseteq New \ Control /\ (~truncated => untracked = New \ Control)
    /\ tracked # None =>
         /\ tracked.files \subseteq Tracked(comparison)
         /\ ~truncated => tracked.files = Tracked(comparison)
    /\ names # None => names = Tracked(comparison)
    /\ queue # None /\ ~truncated => parts \cup queue = untracked
LoopIsFair ==
  /\ tracked # None \/ names # None => status # None /\ untracked # None /\ comparison # None
  /\ tracked # None => tracked.files \subseteq Reviewable
  /\ queue = None => parts = {}
  /\ queue # None =>
       /\ tracked # None /\ names # None
       /\ parts \cap queue = {} /\ parts \cup queue \subseteq untracked
       /\ remaining + tracked.bytes + Bytes[parts] <= Budget
IInv == TypeOK /\ ReadsWereTrue /\ LoopIsFair /\ DiffIsHonest
===============================================================================
