--------------------------- MODULE GcClientProofs ---------------------------
(***************************************************************************)
(* Theorems about the coalesced reads, for every set of operations,        *)
(* callers and fetches.                                                    *)
(***************************************************************************)
EXTENDS GcClient, TLAPS

\* Nobody waits for a fetch that has settled.
AwaitedIsLive == \A c \in Callers, x \in Fetches : Waits(c, x) => Live(x)

\* A fetch its starter abandoned is joined no more.
AbandonedIsForgotten ==
    \A o \in Operations, x \in Fetches : inflight[o] = x => x \notin abandoned

\* A running fetch that was not abandoned is the one its operation joins.
KeptIsJoinable ==
    \A x \in Fetches : Live(x) /\ x \notin abandoned => inflight[fetch[x].op] = x

\* The inductive invariant: that a joined fetch is live needs to know which
\* fetches were forgotten, and that two of them overlap only after an abort,
\* which of them were not.
IInv ==
    /\ TypeOK
    /\ AbortIsPrivate
    /\ JoinableIsLive
    /\ AwaitedIsLive
    /\ AbandonedIsForgotten
    /\ KeptIsJoinable
-----------------------------------------------------------------------------
\* No call was made.
LEMMA InitIInv == ASSUME Assumptions, Init PROVE IInv
  BY DEF Assumptions, Init, IInv, TypeOK, AbortIsPrivate, JoinableIsLive, AwaitedIsLive,
    AbandonedIsForgotten, KeptIsJoinable, Idle, Ended, Dead, Waits, Awaiting, Live, NoFetch

\* What is joined, and who awaits it.
LEMMA Joined ==
    ASSUME Assumptions, IInv, NEW o \in Operations, inflight[o] # NoFetch
    PROVE  /\ inflight[o] \in Fetches /\ Live(inflight[o]) /\ fetch[inflight[o]].op = o
           /\ fetch[inflight[o]].starter \in Callers
           /\ Waits(fetch[inflight[o]].starter, inflight[o])
           /\ Awaits(fetch[inflight[o]].starter)
  <1>1. inflight[o] \in Fetches
    BY DEF IInv, TypeOK
  <1>2. Live(inflight[o]) /\ fetch[inflight[o]].op = o
        /\ Waits(fetch[inflight[o]].starter, inflight[o])
    BY DEF IInv, JoinableIsLive
  <1>3. fetch[inflight[o]].starter \in Callers
    BY <1>1, <1>2 DEF IInv, TypeOK, Live, Dead
  <1>4. Awaits(fetch[inflight[o]].starter)
    BY <1>2 DEF Waits, Awaiting, Awaits
  <1> QED
    BY <1>1, <1>2, <1>3, <1>4

\* A call that ends before any lookup.
LEMMA CallAbortedIInv ==
    ASSUME Assumptions, IInv, NEW c \in Callers, CallAborted(c) PROVE IInv'
  <1> USE DEF IInv
  <1>1. TypeOK'
    BY DEF TypeOK, CallAborted, Ended
  <1>2. AbortIsPrivate'
    BY DEF TypeOK, AbortIsPrivate, CallAborted, Ended, Assumptions
  <1>3. AwaitedIsLive'
    BY DEF TypeOK, AwaitedIsLive, CallAborted, Ended, Waits, Awaiting, Live
  <1>4. JoinableIsLive'
    BY DEF TypeOK, JoinableIsLive, CallAborted, Free, Awaits, Ended, Waits, Awaiting, Live, NoFetch
  <1>5. AbandonedIsForgotten' /\ KeptIsJoinable'
    BY DEF AbandonedIsForgotten, KeptIsJoinable, CallAborted, Live
  <1> QED
    BY <1>1, <1>2, <1>3, <1>4, <1>5

\* A call that rides the fetch in flight.
LEMMA JoinIInv ==
    ASSUME Assumptions, IInv, NEW c \in Callers, NEW o \in Operations, Join(c, o) PROVE IInv'
  <1> USE DEF IInv
  <1>0. inflight[o] \in Fetches /\ Live(inflight[o])
    BY DEF TypeOK, Join, Joins, JoinableIsLive
  <1>1. TypeOK'
    BY <1>0 DEF TypeOK, Join, Awaiting
  <1>2. AbortIsPrivate'
    BY <1>0 DEF TypeOK, AbortIsPrivate, Join, Awaiting, Ended
  <1>3. AwaitedIsLive'
    BY <1>0 DEF TypeOK, AwaitedIsLive, Join, Waits, Awaiting, Live
  <1>4. JoinableIsLive'
    BY <1>0 DEF TypeOK, JoinableIsLive, Join, Free, Awaits, Waits, Awaiting, Live, NoFetch
  <1>5. AbandonedIsForgotten' /\ KeptIsJoinable'
    BY DEF AbandonedIsForgotten, KeptIsJoinable, Join, Live
  <1> QED
    BY <1>1, <1>2, <1>3, <1>4, <1>5

\* A call that starts a fetch.
LEMMA StartIInv ==
    ASSUME Assumptions, IInv, NEW c \in Callers, NEW o \in Operations, NEW x \in Fetches,
           Start(c, o, x)
    PROVE  IInv'
  <1> USE DEF IInv
  <1>1. TypeOK'
    BY DEF TypeOK, Start, Running, Awaiting
  <1>2. AbortIsPrivate'
    BY DEF TypeOK, AbortIsPrivate, Start, Awaiting, Ended
  <1>3. AwaitedIsLive'
    BY DEF TypeOK, AwaitedIsLive, Start, Waits, Awaiting, Live, Running
  <1>4. JoinableIsLive'
    <2> SUFFICES ASSUME NEW p \in Operations, inflight'[p] # NoFetch
                 PROVE  /\ Live(inflight[p])'
                        /\ fetch'[inflight'[p]].op = p
                        /\ Waits(fetch[inflight[p]].starter, inflight[p])'
      BY DEF JoinableIsLive
    <2>1. CASE p = o
      BY <2>1 DEF TypeOK, Start, Running, Live, Waits
    <2>2. CASE p # o
      <3>1. inflight'[p] = inflight[p] /\ inflight[p] # NoFetch
        BY <2>2 DEF TypeOK, Start
      <3> DEFINE y == inflight[p]
      <3>2. y \in Fetches /\ Live(y) /\ fetch[y].op = p /\ fetch[y].starter \in Callers
            /\ Waits(fetch[y].starter, y) /\ Awaits(fetch[y].starter)
        BY <3>1, Joined
      <3>3. y # x /\ fetch[y].starter # c
        BY <3>2 DEF Start, Free
      <3>4. fetch'[y] = fetch[y] /\ caller'[fetch[y].starter] = caller[fetch[y].starter]
        BY <3>2, <3>3 DEF TypeOK, Start
      <3> QED
        BY <3>1, <3>2, <3>4 DEF Live, Waits
    <2> QED
      BY <2>1, <2>2
  <1>5. AbandonedIsForgotten'
    BY DEF TypeOK, AbandonedIsForgotten, JoinableIsLive, Start, Live
  <1>6. KeptIsJoinable'
    <2> SUFFICES ASSUME NEW y \in Fetches, Live(y)', y \notin abandoned'
                 PROVE  inflight'[fetch'[y].op] = y
      BY DEF KeptIsJoinable
    <2>1. CASE y = x
      BY <2>1 DEF TypeOK, Start, Running
    <2>2. CASE y # x
      <3>1. fetch'[y] = fetch[y] /\ Live(y) /\ y \notin abandoned
        BY <2>2 DEF TypeOK, Start, Live
      <3>2. inflight[fetch[y].op] = y /\ fetch[y].op \in Operations
        BY <3>1 DEF TypeOK, KeptIsJoinable, Live, Dead
      <3>3. fetch[y].op # o
        BY <3>2 DEF Start, Joins, Assumptions
      <3> QED
        BY <3>1, <3>2, <3>3 DEF TypeOK, Start
    <2> QED
      BY <2>1, <2>2
  <1> QED
    BY <1>1, <1>2, <1>3, <1>4, <1>5, <1>6

\* What Forget leaves: it takes away the fetch under its own operation.
LEMMA ForgetIs ==
    ASSUME Assumptions, IInv, NEW x \in Fetches, Live(x)
    PROVE  /\ Forget(x) \in [Operations -> Fetches \cup {NoFetch}]
           /\ \A o \in Operations : Forget(x)[o] = IF inflight[o] = x THEN NoFetch ELSE inflight[o]
  <1>1. fetch[x].op \in Operations
    BY DEF IInv, TypeOK, Live, Dead
  <1>2. \A o \in Operations : inflight[o] = x => o = fetch[x].op
    BY DEF IInv, JoinableIsLive, Assumptions
  <1> QED
    BY <1>1, <1>2 DEF IInv, TypeOK, Forget

\* A fetch settles for all who wait on it.
LEMMA SettleIInv ==
    ASSUME Assumptions, IInv, NEW x \in Fetches, NEW how \in Outcomes, Settle(x, how) PROVE IInv'
  <1> USE DEF IInv
  <1>0. /\ inflight' \in [Operations -> Fetches \cup {NoFetch}]
        /\ \A o \in Operations : inflight'[o] = IF inflight[o] = x THEN NoFetch ELSE inflight[o]
    BY ForgetIs DEF Settle, AbandonedIsForgotten, TypeOK
  <1>1. TypeOK'
    BY <1>0 DEF TypeOK, Settle, Hears, Ended
  <1>2. AbortIsPrivate'
    BY DEF TypeOK, AbortIsPrivate, Settle, Ended, Outcomes
  <1>3. AwaitedIsLive'
    BY DEF TypeOK, AwaitedIsLive, Settle, Hears, Waits, Awaiting, Live, Ended
  <1>4. JoinableIsLive'
    <2> SUFFICES ASSUME NEW p \in Operations, inflight'[p] # NoFetch
                 PROVE  /\ Live(inflight[p])'
                        /\ fetch'[inflight'[p]].op = p
                        /\ Waits(fetch[inflight[p]].starter, inflight[p])'
      BY DEF JoinableIsLive
    <2>1. inflight'[p] = inflight[p] /\ inflight[p] # NoFetch /\ inflight[p] # x
      BY <1>0
    <2> DEFINE y == inflight[p]
    <2>2. y \in Fetches /\ Live(y) /\ fetch[y].op = p /\ fetch[y].starter \in Callers
          /\ Waits(fetch[y].starter, y)
      BY <2>1, Joined
    <2>3. fetch[y].starter \notin Hears(x)
      BY <2>1, <2>2 DEF Hears, Waits, Awaiting
    <2>4. fetch'[y] = fetch[y] /\ caller'[fetch[y].starter] = caller[fetch[y].starter]
      BY <2>1, <2>2, <2>3 DEF TypeOK, Settle
    <2> QED
      BY <2>1, <2>2, <2>4 DEF Live, Waits
  <1>5. AbandonedIsForgotten'
    BY <1>0 DEF AbandonedIsForgotten, Settle, Assumptions
  <1>6. KeptIsJoinable'
    BY <1>0 DEF TypeOK, KeptIsJoinable, Settle, Live, Dead
  <1> QED
    BY <1>1, <1>2, <1>3, <1>4, <1>5, <1>6

\* A caller aborts its own wait.
LEMMA AbortIInv ==
    ASSUME Assumptions, IInv, NEW c \in Callers, NEW x \in Fetches, Abort(c, x) PROVE IInv'
  <1> USE DEF IInv
  <1>0. Live(x)
    BY DEF Abort, AwaitedIsLive
  <1>1. caller' = [caller EXCEPT ![c] = Ended("aborted")] /\ fetch' = fetch
    BY DEF TypeOK, Abort, Cut
  <1>2. TypeOK'
    BY <1>0, <1>1, ForgetIs DEF TypeOK, Abort, Ended
  <1>3. AbortIsPrivate'
    BY <1>1 DEF TypeOK, AbortIsPrivate, Abort
  <1>4. AwaitedIsLive'
    BY <1>1 DEF TypeOK, AwaitedIsLive, Waits, Awaiting, Live, Ended
  <1>5. CASE fetch[x].starter = c
    <2>1. /\ abandoned' = abandoned \cup {x}
          /\ \A o \in Operations : inflight'[o] = IF inflight[o] = x THEN NoFetch ELSE inflight[o]
      BY <1>0, <1>5, ForgetIs DEF Abort
    <2>2. JoinableIsLive'
      <3> SUFFICES ASSUME NEW p \in Operations, inflight'[p] # NoFetch
                   PROVE  /\ Live(inflight[p])'
                          /\ fetch'[inflight'[p]].op = p
                          /\ Waits(fetch[inflight[p]].starter, inflight[p])'
        BY DEF JoinableIsLive
      <3> DEFINE y == inflight[p]
      <3>1. inflight'[p] = y /\ y # NoFetch /\ y # x
        BY <2>1
      <3>2. y \in Fetches /\ Live(y) /\ fetch[y].op = p /\ fetch[y].starter \in Callers
            /\ Waits(fetch[y].starter, y)
        BY <3>1, Joined
      <3>3. fetch[y].starter # c
        BY <3>1, <3>2 DEF Abort, Waits, Awaiting
      <3> QED
        BY <1>1, <3>1, <3>2, <3>3 DEF TypeOK, Live, Waits
    <2>3. AbandonedIsForgotten' /\ KeptIsJoinable'
      BY <1>1, <2>1 DEF TypeOK, AbandonedIsForgotten, KeptIsJoinable, Live, Dead, Assumptions
    <2> QED
      BY <1>2, <1>3, <1>4, <2>2, <2>3
  <1>6. CASE fetch[x].starter # c
    <2>1. abandoned' = abandoned /\ inflight' = inflight
      BY <1>6 DEF Abort
    <2>2. JoinableIsLive'
      <3> SUFFICES ASSUME NEW p \in Operations, inflight'[p] # NoFetch
                   PROVE  /\ Live(inflight[p])'
                          /\ fetch'[inflight'[p]].op = p
                          /\ Waits(fetch[inflight[p]].starter, inflight[p])'
        BY DEF JoinableIsLive
      <3> DEFINE y == inflight[p]
      <3>1. inflight'[p] = y /\ y # NoFetch
        BY <2>1
      <3>2. y \in Fetches /\ Live(y) /\ fetch[y].op = p /\ fetch[y].starter \in Callers
            /\ Waits(fetch[y].starter, y)
        BY <3>1, Joined
      <3>3. fetch[y].starter # c
        BY <1>6, <3>1, <3>2 DEF Abort, Waits, Awaiting
      <3> QED
        BY <1>1, <3>1, <3>2, <3>3 DEF TypeOK, Live, Waits
    <2>3. AbandonedIsForgotten' /\ KeptIsJoinable'
      BY <1>1, <2>1 DEF AbandonedIsForgotten, KeptIsJoinable, Live
    <2> QED
      BY <1>2, <1>3, <1>4, <2>2, <2>3
  <1> QED
    BY <1>5, <1>6

\* No step breaks it.
LEMMA NextIInv == ASSUME Assumptions, IInv, [Next]_vars PROVE IInv'
  <1>1. CASE UNCHANGED vars
    BY <1>1 DEF IInv, vars, TypeOK, AbortIsPrivate, JoinableIsLive, AwaitedIsLive,
      AbandonedIsForgotten, KeptIsJoinable, Waits, Live
  <1> QED
    BY <1>1, CallAbortedIInv, JoinIInv, StartIInv, SettleIInv, AbortIInv DEF Next

\* The invariant holds of every behaviour.
LEMMA Invariant == ASSUME Assumptions PROVE Spec => []IInv
  <1>1. Init => IInv
    BY InitIInv
  <1>2. IInv /\ [Next]_vars => IInv'
    BY NextIInv
  <1> QED
    BY <1>1, <1>2, PTL DEF Spec
-----------------------------------------------------------------------------
\* Every variable keeps its type (gc-client.ts).
THEOREM TypeCorrect == ASSUME Assumptions PROVE Spec => []TypeOK
  <1>1. IInv => TypeOK
    BY DEF IInv
  <1> QED
    BY <1>1, Invariant, PTL

\* The abort of a caller never cancels one that cannot abort, however many
\* share its fetch (withCallerAbort).
THEOREM AbortsArePrivate == ASSUME Assumptions PROVE Spec => []AbortIsPrivate
  <1>1. IInv => AbortIsPrivate
    BY DEF IInv
  <1> QED
    BY <1>1, Invariant, PTL

\* What a caller may join is running, for its operation, and awaited by the
\* one who will forget it (getOperation).
THEOREM JoinedIsLive == ASSUME Assumptions PROVE Spec => []JoinableIsLive
  <1>1. IInv => JoinableIsLive
    BY DEF IInv
  <1> QED
    BY <1>1, Invariant, PTL

\* Two fetches of one operation overlap only when one of them was abandoned.
THEOREM OneFetchEach == ASSUME Assumptions PROVE Spec => []DuplicatesWereAbandoned
  <1>1. IInv => DuplicatesWereAbandoned
    BY DEF IInv, KeptIsJoinable, DuplicatesWereAbandoned
  <1> QED
    BY <1>1, Invariant, PTL

\* Nobody waits for a fetch that has settled: the safety half of CallsEnd.
THEOREM NobodyIsStranded == ASSUME Assumptions PROVE Spec => []AwaitedIsLive
  <1>1. IInv => AwaitedIsLive
    BY DEF IInv
  <1> QED
    BY <1>1, Invariant, PTL
=============================================================================
