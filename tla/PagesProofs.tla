---------------------------- MODULE PagesProofs -----------------------------
(***************************************************************************)
(* Theorems about the pages of the browser, for every value of the         *)
(* constants, second part: the attention board and the lanes of a run;     *)
(* then the rules by which the pages derive what they show (attention      *)
(* items, links, convoys, session targets, the detail of a run and its     *)
(* graph), proved of any input; last the bench that runs one of them.      *)
(***************************************************************************)
EXTENDS PanelsProofs

(***************************************************************************)
(* Sets of numbers, what is made step by step, and finite sets.            *)
(***************************************************************************)
\* A set of numbers has a least one, and a bounded one a greatest.
LEMMA LeastExists ==
    ASSUME NEW T \in SUBSET Nat, T # {}
    PROVE  \E x \in T : \A y \in T : x <= y
  <1>1. IsWellFoundedOn({ss \in Nat \X Nat : ss[1] < ss[2]}, Nat)
    BY NatLessThanWellFounded DEF OpToRel
  <1>2. PICK x \in T : \A y \in T : ~ (<<y, x>> \in {ss \in Nat \X Nat : ss[1] < ss[2]})
    BY <1>1, WFMin
  <1>3. \A y \in T : ~(y < x) /\ x \in Nat /\ y \in Nat
    BY <1>2
  <1> QED
    BY <1>3

LEMMA GreatestExists ==
    ASSUME NEW k \in Nat, NEW T \in SUBSET (0 .. k), T # {}
    PROVE  \E x \in T : \A y \in T : y <= x
  <1>1. PICK D : D = {k - x : x \in T}
    OBVIOUS
  <1>2. D \in SUBSET Nat /\ D # {}
    <2>1. \A x \in T : k - x \in Nat
      OBVIOUS
    <2> QED
      BY <1>1, <2>1
  <1>3. PICK d \in D : \A e \in D : d <= e
    BY <1>2, LeastExists
  <1>4. PICK x \in T : d = k - x
    BY <1>1, <1>3
  <1>5. ASSUME NEW y \in T PROVE y <= x
    <2>1. k - y \in D
      BY <1>1
    <2> QED
      BY <1>3, <1>4, <2>1
  <1> QED
    BY <1>5

\* What is made step by step exists for any number of steps.
Steps(k, U, X, F) == {f \in [0 .. k -> U] : f[0] = X /\ \A n \in 1 .. k : f[n] = F[f[n - 1]]}

LEMMA RecursionExists ==
    ASSUME NEW k \in Nat, NEW U, NEW X \in U, NEW F \in [U -> U]
    PROVE  Steps(k, U, X, F) # {}
  <1> DEFINE Made(j) == \E f \in [0 .. j -> U] : f[0] = X /\ \A n \in 1 .. j : f[n] = F[f[n - 1]]
  <1>1. SUFFICES ASSUME ~Made(k) PROVE FALSE
    BY DEF Steps
  <1>2. PICK bad : bad = {j \in Nat : ~Made(j)}
    OBVIOUS
  <1>3. PICK j \in bad : \A i \in bad : j <= i
    BY <1>1, <1>2, LeastExists
  <1>4. j \in Nat
    BY <1>2
  <1>5. CASE j = 0
    <2>1. PICK g : g = [n \in 0 .. 0 |-> X]
      OBVIOUS
    <2>2. g \in [0 .. 0 -> U] /\ g[0] = X
      BY <2>1
    <2>3. Made(0)
      BY <2>2
    <2> QED
      BY <1>2, <1>5, <2>3
  <1>6. CASE j # 0
    <2>1. j - 1 \in Nat /\ j - 1 \notin bad
      BY <1>3, <1>4, <1>6
    <2>2. Made(j - 1)
      BY <1>2, <2>1
    <2>3. PICK g \in [0 .. j - 1 -> U] : g[0] = X /\ \A n \in 1 .. j - 1 : g[n] = F[g[n - 1]]
      BY <2>2
    <2>4. PICK h : h = [n \in 0 .. j |-> IF n = j THEN F[g[j - 1]] ELSE g[n]]
      OBVIOUS
    <2>5. \A n \in 0 .. j - 1 : n \in 0 .. j /\ n # j /\ h[n] = g[n] /\ g[n] \in U
      BY <1>4, <2>4, <2>3
    <2>6. j \in 0 .. j /\ h[j] = F[g[j - 1]] /\ h[j] \in U
      BY <1>4, <2>1, <2>3, <2>4
    <2>7. \A n \in 0 .. j : n = j \/ n \in 0 .. j - 1
      BY <1>4
    <2>8. h \in [0 .. j -> U]
      BY <2>4, <2>5, <2>6, <2>7
    <2>9. ASSUME NEW n \in 1 .. j PROVE h[n] = F[h[n - 1]]
      <3>1. n - 1 \in 0 .. j - 1 /\ (n = j \/ n \in 1 .. j - 1)
        BY <1>4
      <3> QED
        BY <2>3, <2>5, <2>6, <3>1
    <2>10. h[0] = X
      BY <2>1, <2>3, <2>5
    <2>11. Made(j)
      BY <2>8, <2>9, <2>10
    <2> QED
      BY <1>2, <2>11
  <1> QED
    BY <1>5, <1>6

\* What grows within a finite set stops growing, and what stops at once, or
\* once it has stopped, stays.
LEMMA GrowthEnds ==
    ASSUME NEW D, IsFiniteSet(D), NEW N \in Nat, Cardinality(D) <= N,
           NEW f \in [0 .. N -> SUBSET D],
           \A n \in 1 .. N : f[n - 1] \subseteq f[n],
           f[0] # {},
           \A n \in 1 .. N - 1 : f[n] = f[n - 1] => f[n + 1] = f[n]
    PROVE  N > 0 /\ f[N] = f[N - 1]
  <1>0. Cardinality(D) \in Nat
    BY FS_CardinalityType
  <1>1. \A n \in 0 .. N : f[n] \in SUBSET D /\ IsFiniteSet(f[n]) /\ Cardinality(f[n]) \in Nat /\ Cardinality(f[n]) <= Cardinality(D)
    BY FS_Subset, FS_CardinalityType
  <1>2. SUFFICES ASSUME N = 0 \/ f[N] # f[N - 1] PROVE FALSE
    OBVIOUS
  <1>3. PICK bad : bad = {n \in 0 .. N : Cardinality(f[n]) <= n}
    OBVIOUS
  <1>4. N \in bad
    BY <1>0, <1>1, <1>3
  <1>5. PICK n \in bad : \A i \in bad : n <= i
    BY <1>3, <1>4, LeastExists
  <1>6. n \in 0 .. N /\ Cardinality(f[n]) <= n
    BY <1>3
  <1>7. n # 0
    <2>1. Cardinality(f[0]) # 0
      BY <1>1, FS_EmptySet
    <2> QED
      BY <1>1, <1>6, <2>1
  <1>8. n - 1 \in 0 .. N /\ n - 1 \notin bad /\ Cardinality(f[n - 1]) > n - 1
    BY <1>1, <1>3, <1>5, <1>6, <1>7
  <1>9. f[n - 1] \subseteq f[n]
    BY <1>6, <1>7
  <1>10. Cardinality(f[n - 1]) <= Cardinality(f[n])
    BY <1>1, <1>6, <1>9, FS_Subset
  <1>11. Cardinality(f[n]) = Cardinality(f[n - 1])
    BY <1>1, <1>6, <1>8, <1>10
  <1>12. f[n] = f[n - 1]
    BY <1>1, <1>6, <1>8, <1>9, <1>11, FS_Subset
  <1>13. PICK late : late = {i \in n .. N : f[i] # f[i - 1]}
    OBVIOUS
  <1>14. N \in late /\ late \in SUBSET Nat
    BY <1>2, <1>6, <1>7, <1>13
  <1>15. PICK i \in late : \A l \in late : i <= l
    BY <1>14, LeastExists
  <1>16. i \in n .. N /\ f[i] # f[i - 1] /\ i # n /\ i - 1 \notin late
    BY <1>6, <1>12, <1>13, <1>15
  <1>17. i - 1 \in n .. N /\ f[i - 1] = f[i - 2] /\ i - 1 \in 1 .. N - 1
    BY <1>6, <1>7, <1>13, <1>16
  <1> QED
    BY <1>16, <1>17

\* Sets that are finite.
LEMMA FewAreFinite ==
    ASSUME NEW a, NEW b, NEW c, NEW d, NEW e PROVE IsFiniteSet({a, b, c, d, e})
  <1>1. IsFiniteSet({a})
    BY FS_Singleton
  <1>2. IsFiniteSet({a} \cup {b})
    BY <1>1, FS_AddElement
  <1>3. IsFiniteSet({a} \cup {b} \cup {c})
    BY <1>2, FS_AddElement
  <1>4. IsFiniteSet({a} \cup {b} \cup {c} \cup {d})
    BY <1>3, FS_AddElement
  <1>5. IsFiniteSet({a} \cup {b} \cup {c} \cup {d} \cup {e})
    BY <1>4, FS_AddElement
  <1>6. {a} \cup {b} \cup {c} \cup {d} \cup {e} = {a, b, c, d, e}
    OBVIOUS
  <1> QED
    BY <1>5, <1>6

LEMMA FiniteUnion ==
    ASSUME NEW S, IsFiniteSet(S), NEW f, \A x \in S : IsFiniteSet(f[x])
    PROVE  IsFiniteSet(UNION {f[x] : x \in S})
  <1>1a. PICK n \in Nat : n = Cardinality(S) /\ ExistsBijection(1 .. n, S)
    BY FS_CardinalityType
  <1>1. PICK at : at \in Bijection(1 .. n, S)
    BY <1>1a DEF ExistsBijection
  <1>2. at \in [1 .. n -> S] /\ \A x \in S : \E i \in 1 .. n : at[i] = x
    BY <1>1 DEF Bijection, Surjection, Injection
  <1> DEFINE upTo(k) == UNION {f[at[i]] : i \in 1 .. k}
  <1>3. PICK bad : bad = {k \in 0 .. n : ~IsFiniteSet(upTo(k))}
    OBVIOUS
  <1>4. CASE bad # {}
    <2>1. bad \in SUBSET Nat
      BY <1>3
    <2>2. PICK k \in bad : \A j \in bad : k <= j
      BY <1>4, <2>1, LeastExists
    <2>3. upTo(0) = {}
      OBVIOUS
    <2>4. k # 0
      BY <1>3, <2>3, FS_EmptySet
    <2>5. k \in 1 .. n /\ k - 1 \in 0 .. n /\ k - 1 \notin bad
      BY <1>3, <2>2, <2>4
    <2>6. IsFiniteSet(upTo(k - 1))
      BY <1>3, <2>5
    <2>7. IsFiniteSet(f[at[k]])
      BY <1>2, <2>5
    <2>8. upTo(k) = upTo(k - 1) \cup f[at[k]]
      <3>1. \A i : i \in 1 .. k <=> i \in 1 .. k - 1 \/ i = k
        BY <2>5
      <3> QED
        BY <3>1
    <2>9. IsFiniteSet(upTo(k))
      <3> HIDE DEF upTo
      <3> QED
        BY <2>6, <2>7, <2>8, FS_Union
    <2> QED
      BY <1>3, <2>2, <2>9
  <1>5. CASE bad = {}
    <2>1. IsFiniteSet(upTo(n))
      BY <1>3, <1>5
    <2>2. upTo(n) = UNION {f[x] : x \in S}
      BY <1>2
    <2> QED
      BY <2>1, <2>2
  <1> QED
    BY <1>4, <1>5

\* Finite sets from finite sets.
LEMMA FewAre ==
    ASSUME NEW S, NEW a, NEW b, NEW c, NEW d, NEW e, S \subseteq {a, b, c, d, e} PROVE IsFiniteSet(S)
  <1>1. PICK T : T = {a, b, c, d, e}
    OBVIOUS
  <1>2. IsFiniteSet(T)
    BY <1>1, FewAreFinite
  <1> QED
    BY <1>1, <1>2, FS_Subset

LEMMA WithOne == ASSUME NEW S, IsFiniteSet(S), NEW x PROVE IsFiniteSet(S \cup {x})
  BY FS_AddElement

LEMMA Together == ASSUME NEW S, IsFiniteSet(S), NEW T, IsFiniteSet(T) PROVE IsFiniteSet(S \cup T)
  BY FS_Union

LEMMA ValuesAreFinite ==
    ASSUME NEW f, IsFiniteSet(DOMAIN f) PROVE IsFiniteSet({f[x] : x \in DOMAIN f})
  <1>1. PICK g : g = [x \in DOMAIN f |-> {f[x]}]
    OBVIOUS
  <1>2. \A x \in DOMAIN f : g[x] = {f[x]} /\ IsFiniteSet(g[x])
    BY <1>1, FS_Singleton
  <1>3. PICK S : S = DOMAIN f
    OBVIOUS
  <1>4. IsFiniteSet(UNION {g[x] : x \in S})
    BY <1>2, <1>3, FiniteUnion
  <1>5. UNION {g[x] : x \in S} = {f[x] : x \in DOMAIN f}
    BY <1>2, <1>3
  <1> QED
    BY <1>4, <1>5

\* So has a finite one.
LEMMA FiniteHasGreatest ==
    ASSUME NEW T \in SUBSET Nat, IsFiniteSet(T), T # {}
    PROVE  \E x \in T : \A y \in T : y <= x
  <1> DEFINE Topped(S) == \E x \in S : \A y \in S : y <= x
  <1>1. SUFFICES ASSUME ~Topped(T) PROVE FALSE
    OBVIOUS
  <1>2. PICK Bad : Bad = {S \in SUBSET T : S # {} /\ ~Topped(S)}
    OBVIOUS
  <1>3. PICK sizes : sizes = {Cardinality(S) : S \in Bad}
    OBVIOUS
  <1>4. \A S \in Bad : S \subseteq T /\ IsFiniteSet(S) /\ Cardinality(S) \in Nat
    BY <1>2, FS_Subset, FS_CardinalityType
  <1>5. sizes \in SUBSET Nat /\ sizes # {}
    BY <1>1, <1>2, <1>3, <1>4
  <1>6. PICK S \in Bad : \A n \in sizes : Cardinality(S) <= n
    BY <1>3, <1>5, LeastExists
  <1>7. S \subseteq T /\ S # {} /\ ~Topped(S) /\ IsFiniteSet(S)
    BY <1>2, <1>4
  <1>8. PICK x \in S : TRUE
    BY <1>7
  <1>9. IsFiniteSet(S \ {x}) /\ Cardinality(S \ {x}) = Cardinality(S) - 1
    BY <1>7, <1>8, FS_RemoveElement
  <1>10. S \ {x} \notin Bad
    BY <1>3, <1>4, <1>6, <1>9
  <1>11. S \ {x} = {} \/ Topped(S \ {x})
    BY <1>2, <1>7, <1>10
  <1>12. CASE S \ {x} = {}
    BY <1>7, <1>8, <1>12
  <1>13. CASE Topped(S \ {x})
    <2>1. PICK z \in S \ {x} : \A y \in S \ {x} : y <= z
      BY <1>13
    <2>2. x \in Nat /\ z \in Nat /\ \A y \in S : y \in Nat
      BY <1>7
    <2>3. CASE x <= z
      BY <1>7, <2>1, <2>2, <2>3
    <2>4. CASE z <= x
      BY <1>7, <2>1, <2>2, <2>4
    <2> QED
      BY <2>2, <2>3, <2>4
  <1> QED
    BY <1>11, <1>12, <1>13

(***************************************************************************)
(* The attention board (Attention).                                        *)
(***************************************************************************)
LEMMA AttendingInitIInv == ASSUME Attending!Assumptions, Attending!Init PROVE Attending!IInv
  <1>1. Attending!Landed = {}
    BY DEF Attending!Init, Attending!Landed
  <1>2. Attending!TypeOK
    BY DEF Attending!Assumptions, Attending!Init, Attending!TypeOK, Attending!Longest
  <1> QED
    BY <1>1, <1>2 DEF Attending!Assumptions, Attending!Init, Attending!IInv, Attending!PollHoldsUp

\* A read that lands keeps one of its answers, as of now.
LEMMA AttendingKeepsIs ==
    ASSUME Attending!IInv, Attending!Assumptions, NEW d \in Board, NEW f \in Attending!Answers(d), Attending!Keeps(d, f), v6 <= Slowest
    PROVE  /\ DOMAIN v1' = Board /\ \A e \in Board : v1'[e] \in Attending!Answers(e) \cup {None}
           /\ v2' \in [Board -> 0 .. StaleAfter]
           /\ \A e \in Board : v2'[e] + Slowest >= v2[e] + Slowest \/ v2'[e] + Slowest >= v6
           /\ \A e \in Attending!Landed' : v2'[e] + Slowest >= v6
  <1> USE DEF Attending!IInv, Attending!TypeOK, Attending!Assumptions
  <1>1. v1' = [v1 EXCEPT ![d] = f] /\ v2' = [v2 EXCEPT ![d] = 0]
    BY DEF Attending!Keeps
  <1>2. DOMAIN v1' = Board /\ \A e \in Board : v1'[e] = IF e = d THEN f ELSE v1[e]
    BY <1>1
  <1>3. v2' \in [Board -> 0 .. StaleAfter] /\ \A e \in Board : v2'[e] = IF e = d THEN 0 ELSE v2[e]
    BY <1>1
  <1>4. \A e \in Attending!Landed' : e \in Board /\ (e = d \/ e \in Attending!Landed)
    BY <1>2 DEF Attending!Landed
  <1>5. \A e \in Attending!Landed' : v2'[e] + Slowest >= v6
    BY <1>3, <1>4 DEF Attending!PollHoldsUp, Attending!Longest
  <1>6. \A e \in Board : v1'[e] \in Attending!Answers(e) \cup {None}
    BY <1>2
  <1>7. \A e \in Board : v2'[e] + Slowest >= v2[e] + Slowest \/ v2'[e] + Slowest >= v6
    BY <1>3 DEF Attending!Longest
  <1> QED
    BY <1>2, <1>3, <1>5, <1>6, <1>7

LEMMA AttendingNextIInv == ASSUME Attending!Assumptions, Attending!IInv, [Attending!Next]_(Attending!vars) PROVE Attending!IInv'
  <1> USE DEF Attending!Assumptions, Attending!IInv, Attending!TypeOK
  <1>1. ASSUME Attending!Pass PROVE Attending!IInv'
    <2>1. DOMAIN v1' = Board /\ v1' = v1 /\ Attending!Landed' = Attending!Landed /\ Attending!Landed \subseteq Board
      BY <1>1 DEF Attending!Pass, Attending!Landed
    <2>2. v5' \subseteq Board
      BY <1>1 DEF Attending!Pass, Attending!Tick
    <2>3. v2' = [d \in Board |-> Attending!Least(v2[d] + 1, StaleAfter)] /\ v3' = Attending!Least(v3 + 1, Slowest + 1)
          /\ (v6' = 0 \/ v6' = Attending!Least(v6 + 1, Attending!Longest))
      BY <1>1 DEF Attending!Pass
    <2>4. \A d \in Attending!Landed : v2'[d] + Slowest >= v6'
      BY <2>1, <2>3 DEF Attending!PollHoldsUp, Attending!Least, Attending!Longest
    <2>5. v2' \in [Board -> 0 .. StaleAfter] /\ v3' \in 0 .. Slowest + 1 /\ v6' \in 0 .. Attending!Longest
      BY <2>3 DEF Attending!Least, Attending!Longest
    <2>6. (v6' > Slowest => v3' > Slowest) /\ (v6' <= Slowest => v3' >= v6')
      BY <2>3 DEF Attending!PollHoldsUp, Attending!Least, Attending!Longest
    <2> QED
      BY <1>1, <2>1, <2>2, <2>4, <2>5, <2>6 DEF Attending!PollHoldsUp, Attending!Pass, Attending!Answers
  <1>2. ASSUME NEW d \in Board, Attending!PollLands(d) PROVE Attending!IInv'
    <2>1. PICK f \in Attending!Answers(d) : Attending!Keeps(d, f)
      BY <1>2 DEF Attending!PollLands
    <2>2. v6 <= Slowest /\ (v6' = v6 \/ v6' = 0) /\ v3' = v3 /\ v5' \subseteq Board
      BY <1>2 DEF Attending!PollLands
    <2>3. Attending!TypeOK'
      BY <1>2, <2>1, <2>2, AttendingKeepsIs DEF Attending!PollLands, Attending!Answers, Attending!Longest
    <2>4. Attending!PollHoldsUp'
      BY <2>1, <2>2, <2>3, AttendingKeepsIs DEF Attending!PollHoldsUp, Attending!Landed
    <2> QED
      BY <2>3, <2>4
  <1>3. ASSUME NEW d \in Board, Attending!FirstLands(d) PROVE Attending!IInv'
    <2>1. v3 <= Slowest /\ v6 <= Slowest /\ UNCHANGED <<v3, v5, v6, v7, v8, v9>>
          /\ v4' \subseteq Board
      BY <1>3 DEF Attending!FirstLands, Attending!PollHoldsUp, Attending!Longest
    <2>2. CASE v1[d] # None
      BY <1>3, <2>1, <2>2 DEF Attending!FirstLands, Attending!PollHoldsUp, Attending!Landed, Attending!Answers
    <2>3. CASE v1[d] = None
      <3>1. PICK f \in Attending!Answers(d) : Attending!Keeps(d, f)
        BY <1>3, <2>3 DEF Attending!FirstLands
      <3>2. Attending!TypeOK'
        BY <2>1, <3>1, AttendingKeepsIs DEF Attending!Answers
      <3> QED
        BY <2>1, <3>1, <3>2, AttendingKeepsIs DEF Attending!PollHoldsUp, Attending!Landed
    <2> QED
      BY <2>2, <2>3
  <1>4. ASSUME Attending!Hides \/ Attending!Returns \/ Attending!RunsChange \/ Attending!StreamChanges PROVE Attending!IInv'
    <2>1. UNCHANGED <<v1, v2, v3, v4, v6>> /\ (v5' = v5 \/ v5' = Board)
      BY <1>4 DEF Attending!Hides, Attending!Returns, Attending!RunsChange, Attending!StreamChanges, Attending!Tick
    <2>2. v7' \in BOOLEAN /\ v8' \in {"fresh", "stale", "error", None}
          /\ v9' \in {"connecting", "open", "degraded", "closed"}
      BY <1>4 DEF Attending!Hides, Attending!Returns, Attending!RunsChange, Attending!StreamChanges
    <2> QED
      BY <2>1, <2>2 DEF Attending!PollHoldsUp, Attending!Landed, Attending!Answers
  <1>5. ASSUME UNCHANGED Attending!vars PROVE Attending!IInv'
    BY <1>5 DEF Attending!vars, Attending!PollHoldsUp, Attending!Landed, Attending!Answers
  <1> QED
    BY <1>1, <1>2, <1>3, <1>4, <1>5 DEF Attending!Next

LEMMA AttendingCalm == ASSUME Attending!IInv PROVE Attending!CalmWasRead
  <1> SUFFICES ASSUME NEW d \in Attending!Landed, Attending!Troubles(d, v1[d]) = {}, NEW r \in DOMAIN v1[d], v1[d][r] # "ok"
               PROVE  FALSE
    BY DEF Attending!CalmWasRead
  <1>1. d \in Board /\ v1[d] \in Attending!Answers(d)
    BY DEF Attending!Landed, Attending!IInv, Attending!TypeOK
  <1>2. DOMAIN v1[d] = DOMAIN Attending!Reads[d]
    BY <1>1 DEF Attending!Answers
  <1>3. {q \in DOMAIN v1[d] : v1[d][q] # "ok" /\ (d = "agents" /\ q = "pending" => v1[d]["list"] # "failed")} = {}
    BY DEF Attending!Troubles
  <1>4. d = "agents" => DOMAIN Attending!Reads[d] = {"list", "pending"}
    BY DEF Attending!Reads
  <1> QED
    BY <1>2, <1>3, <1>4

\* Where nothing is degraded, no poll is out for long.
LEMMA AttendingFreshIsCurrent ==
    ASSUME Attending!Assumptions, Attending!IInv, Attending!Degraded = {}, Attending!Landed # {}
    PROVE  v6 < Attending!Longest /\ (\A d \in Attending!Landed : v2[d] < StaleAfter) /\ v8 \notin {"stale", "error"}
  <1>1. v8 \notin {"stale", "error"}
    BY DEF Attending!Degraded
  <1>2. ASSUME NEW d \in Attending!Landed PROVE d \in Board /\ v2[d] \in 0 .. StaleAfter /\ v2[d] < StaleAfter
    <2>1. d \in Board
      BY DEF Attending!Landed
    <2>2. Attending!effectiveProvenance(d) # "stale"
      <3>1. {e \in Board : Attending!effectiveProvenance(e) = "stale"} = {}
        BY DEF Attending!Degraded
      <3> QED
        BY <2>1, <3>1
    <2>3. v2[d] \in 0 .. StaleAfter /\ ~(v2[d] >= StaleAfter)
      BY <2>1, <2>2, d \in Attending!Landed DEF Attending!effectiveProvenance, Attending!IInv, Attending!TypeOK
    <2> QED
      BY <2>1, <2>3 DEF Attending!Assumptions
  <1>3. PICK d \in Attending!Landed : v2[d] + Slowest >= v6
    BY DEF Attending!IInv, Attending!PollHoldsUp
  <1>4. v6 < Attending!Longest
    BY <1>2, <1>3 DEF Attending!Longest, Attending!IInv, Attending!TypeOK, Attending!Assumptions
  <1> QED
    BY <1>1, <1>2, <1>4

LEMMA AttendingCurrent == ASSUME Attending!Assumptions, Attending!IInv PROVE Attending!AllLiveIsCurrent
  <1>1. Attending!BoardLiveness = "all live" => Attending!Degraded = {}
    BY DEF Attending!BoardLiveness
  <1> QED
    BY <1>1, AttendingFreshIsCurrent DEF Attending!AllLiveIsCurrent

(***************************************************************************)
(* The lane of a run (RunLanes).                                           *)
(***************************************************************************)
LEMMA LanesBeadIs == ASSUME NEW b \in Lanes!Beads PROVE b[1] \in Lanes!Steps /\ b[2] \in 1 .. StepTries[b[1]] /\ b = <<b[1], b[2]>>
  BY DEF Lanes!Beads

LEMMA LanesPouredIs ==
    ASSUME Lanes!TypeOK, NEW b \in Lanes!Poured
    PROVE  /\ b \in Lanes!Beads /\ Lanes!At(b) \in Lanes!Filed /\ Lanes!At(b) # None
           /\ b[1] \in Lanes!Steps /\ b[2] \in 1 .. StepTries[b[1]]
  BY LanesBeadIs DEF Lanes!Poured, Lanes!At, Lanes!TypeOK

\* The stage of a step has a rank.
LEMMA LanesRankIs == ASSUME NEW s PROVE Lanes!stageRank(Lanes!stepIdPhase(s)) \in 1 .. 6
  <1>1. Lanes!stepIdPhase(s) \in {"active", "intake", "implementation", "review", "approval", "finalization"}
    BY DEF Lanes!stepIdPhase
  <1>2. \E i \in DOMAIN Lanes!Lifecycle : Lanes!Lifecycle[i] = Lanes!stepIdPhase(s)
    <2>1. /\ Lanes!Lifecycle[1] = "active" /\ Lanes!Lifecycle[2] = "intake" /\ Lanes!Lifecycle[3] = "implementation"
          /\ Lanes!Lifecycle[4] = "review" /\ Lanes!Lifecycle[5] = "approval" /\ Lanes!Lifecycle[6] = "finalization"
          /\ DOMAIN Lanes!Lifecycle = 1 .. 6
      BY DEF Lanes!Lifecycle
    <2> QED
      BY <1>1, <2>1
  <1>3. DOMAIN Lanes!Lifecycle = 1 .. 6
    BY DEF Lanes!Lifecycle
  <1> QED
    BY <1>2, <1>3 DEF Lanes!stageRank

\* Among beads there is one of the furthest stage, and a most recent one.
LEMMA LanesFurthestExists ==
    ASSUME NEW S, S # {}
    PROVE  \E b \in S : \A c \in S : Lanes!stageRank(Lanes!stepIdPhase(c[1])) <= Lanes!stageRank(Lanes!stepIdPhase(b[1]))
  <1>1. PICK T : T = {Lanes!stageRank(Lanes!stepIdPhase(b[1])) : b \in S}
    OBVIOUS
  <1>2. T \in SUBSET (0 .. 6) /\ T # {}
    BY <1>1, LanesRankIs
  <1>3. PICK x \in T : \A y \in T : y <= x
    BY <1>2, GreatestExists
  <1> QED
    BY <1>1, <1>3

LEMMA LanesLatestExists ==
    ASSUME Lanes!Assumptions, Lanes!TypeOK, NEW S, S \subseteq Lanes!Poured, S # {}
    PROVE  \E b \in S : \A c \in S : ~Lanes!MoreCurrent(c, b)
  <1>1. PICK T : T = {Lanes!At(b).at : b \in S}
    OBVIOUS
  <1>2. T \in SUBSET (0 .. MaxTime) /\ T # {} /\ MaxTime \in Nat
    BY <1>1, LanesPouredIs DEF Lanes!Filed, Lanes!Assumptions
  <1>3. PICK x \in T : \A y \in T : y <= x
    BY <1>2, GreatestExists
  <1>4. PICK U : U = {b \in S : Lanes!At(b).at = x}
    OBVIOUS
  <1>5. U # {}
    BY <1>1, <1>3, <1>4
  <1>6. PICK b \in U : \A c \in U : Lanes!stageRank(Lanes!stepIdPhase(c[1])) <= Lanes!stageRank(Lanes!stepIdPhase(b[1]))
    BY <1>5, LanesFurthestExists
  <1>7. ASSUME NEW c \in S PROVE ~Lanes!MoreCurrent(c, b)
    <2>1. Lanes!At(c).at <= x /\ Lanes!At(c).at \in Nat /\ x \in Nat /\ Lanes!At(b).at = x
      BY <1>1, <1>2, <1>3, <1>4
    <2>2. Lanes!At(c).at = x => Lanes!stageRank(Lanes!stepIdPhase(c[1])) <= Lanes!stageRank(Lanes!stepIdPhase(b[1]))
      BY <1>4, <1>6
    <2> QED
      BY <2>1, <2>2, LanesRankIs DEF Lanes!MoreCurrent
  <1> QED
    BY <1>4, <1>7

LEMMA LanesInitIInv == ASSUME Lanes!Assumptions, Lanes!Init PROVE Lanes!IInv
  <1>1. [status |-> "open", outcome |-> None, at |-> 0] \in Lanes!Filed /\ 0 \in 0 .. MaxTime
    BY DEF Lanes!Filed, Lanes!Assumptions
  <1>2. /\ DOMAIN v1 = Lanes!Steps
        /\ \A s \in Lanes!Steps : /\ DOMAIN v1[s] = 1 .. StepTries[s]
                            /\ \A a \in 1 .. StepTries[s] : v1[s][a] \in Lanes!Filed \cup {None}
    BY <1>1 DEF Lanes!Init
  <1>3. Lanes!TypeOK
    BY <1>1, <1>2 DEF Lanes!Init, Lanes!TypeOK
  <1>4. v5 = None /\ v8 = None
    BY DEF Lanes!Init
  <1> QED
    BY <1>3, <1>4 DEF Lanes!IInv, Lanes!MissedHasMoved, Lanes!MarkIsOfTheRun, Lanes!LoopedClimb

\* What a write of a bead leaves: the other beads, and its own as written.
LEMMA LanesWriteFiles ==
    ASSUME Lanes!Assumptions, Lanes!TypeOK, NEW b \in Lanes!Beads,
           NEW status \in {"open", "in_progress", "closed", "blocked"},
           NEW outcome \in {"pass", "fail", "skipped", None}, Lanes!Write(b, status, outcome)
    PROVE  /\ DOMAIN v1' = Lanes!Steps
           /\ \A s \in Lanes!Steps : /\ DOMAIN v1'[s] = 1 .. StepTries[s]
                               /\ \A a \in 1 .. StepTries[s] : v1'[s][a] \in Lanes!Filed \cup {None}
           /\ v3' \in 0 .. MaxTime
           /\ v1'[b[1]][b[2]].status = status /\ v1'[b[1]][b[2]] # None
           /\ \A c \in Lanes!Beads : c # b => v1'[c[1]][c[2]] = v1[c[1]][c[2]]
  <1>1. v2 \in 0 .. MaxTime /\ MaxTime \in Nat
    BY DEF Lanes!TypeOK, Lanes!Assumptions
  <1>2. PICK new : new = [status |-> status, outcome |-> outcome,
                          at |-> IF status = "in_progress" THEN v2 ELSE 0]
    OBVIOUS
  <1>3. new \in Lanes!Filed /\ new # None /\ new.status = status
    <2>1. new \in Lanes!Filed /\ new.status = status
      BY <1>1, <1>2 DEF Lanes!Filed
    <2> QED
      BY <2>1 DEF Lanes!Assumptions
  <1>4. v1' = [v1 EXCEPT ![b[1]][b[2]] = new] /\ v3' = v2
    BY <1>2 DEF Lanes!Write
  <1>5. PICK s, a : s = b[1] /\ a = b[2] /\ b = <<s, a>> /\ s \in Lanes!Steps /\ a \in 1 .. StepTries[s]
    BY LanesBeadIs
  <1>6. v1' = [v1 EXCEPT ![s] = [v1[s] EXCEPT ![a] = new]]
    BY <1>4, <1>5
  <1>7. v1'[s][a] = new /\ DOMAIN v1' = Lanes!Steps
    BY <1>5, <1>6 DEF Lanes!TypeOK
  <1>8. ASSUME NEW t \in Lanes!Steps, NEW i \in 1 .. StepTries[t], t # s \/ i # a
        PROVE  v1'[t][i] = v1[t][i]
    BY <1>5, <1>6, <1>8 DEF Lanes!TypeOK
  <1>9. ASSUME NEW t \in Lanes!Steps PROVE DOMAIN v1'[t] = 1 .. StepTries[t]
    BY <1>5, <1>6 DEF Lanes!TypeOK
  <1>10. \A c \in Lanes!Beads : c # b => c[1] # s \/ c[2] # a
    BY <1>5, LanesBeadIs
  <1>11. ASSUME NEW t \in Lanes!Steps, NEW i \in 1 .. StepTries[t] PROVE v1'[t][i] \in Lanes!Filed \cup {None}
    BY <1>3, <1>7, <1>8 DEF Lanes!TypeOK
  <1>12. \A c \in Lanes!Beads : c # b => v1'[c[1]][c[2]] = v1[c[1]][c[2]]
    BY <1>8, <1>10, LanesBeadIs
  <1> QED
    BY <1>1, <1>3, <1>4, <1>5, <1>7, <1>9, <1>11, <1>12

\* A step of the run: what was poured stays, and no bead steps back.
LEMMA LanesRunIInv ==
    ASSUME Lanes!Assumptions, Lanes!IInv, Lanes!TypeOK', UNCHANGED <<v2, v4, v5, v8>>,
           \A c \in Lanes!Poured : c \in Lanes!Poured' /\ (Lanes!hasAdvanced(c) => Lanes!hasAdvanced(c)')
    PROVE  Lanes!IInv'
  <1>1. Lanes!MissedHasMoved'
    BY DEF Lanes!IInv, Lanes!MissedHasMoved
  <1>2. Lanes!MarkIsOfTheRun'
    BY DEF Lanes!IInv, Lanes!MarkIsOfTheRun
  <1>3. Lanes!LoopedClimb'
    BY DEF Lanes!IInv, Lanes!LoopedClimb, Lanes!Steps
  <1> QED
    BY <1>1, <1>2, <1>3 DEF Lanes!IInv

LEMMA LanesWorkIInv == ASSUME Lanes!Assumptions, Lanes!IInv, NEW b \in Lanes!Beads, Lanes!Work(b) PROVE Lanes!IInv'
  <1>1. b \in Lanes!Poured /\ UNCHANGED <<v2, v4, v5, v6, v7, v8>> /\ Lanes!TypeOK
    BY DEF Lanes!Work, Lanes!IInv
  <1>2. PICK status \in {"open", "in_progress", "closed", "blocked"}, outcome \in {"pass", "fail", "skipped", None} :
          Lanes!Write(b, status, outcome) /\ (Lanes!hasAdvanced(b) => status = "closed")
    BY DEF Lanes!Work, Lanes!hasAdvanced, Lanes!isOpenStatus, Lanes!isInFlightStatus, Lanes!isBlockedStatus, Lanes!isResolvedStatus
  <1>3. /\ DOMAIN v1' = Lanes!Steps
        /\ \A s \in Lanes!Steps : /\ DOMAIN v1'[s] = 1 .. StepTries[s]
                            /\ \A a \in 1 .. StepTries[s] : v1'[s][a] \in Lanes!Filed \cup {None}
        /\ v3' \in 0 .. MaxTime
        /\ v1'[b[1]][b[2]].status = status /\ v1'[b[1]][b[2]] # None
        /\ \A c \in Lanes!Beads : c # b => v1'[c[1]][c[2]] = v1[c[1]][c[2]]
    BY <1>1, <1>2, LanesWriteFiles
  <1>4. Lanes!TypeOK'
    BY <1>1, <1>3 DEF Lanes!TypeOK, Lanes!Steps
  <1>5. ASSUME NEW c \in Lanes!Poured PROVE c \in Lanes!Poured' /\ (Lanes!hasAdvanced(c) => Lanes!hasAdvanced(c)')
    <2>1. c \in Lanes!Beads /\ v1[c[1]][c[2]] # None
      BY DEF Lanes!Poured
    <2>2. CASE c = b
      BY <1>2, <1>3, <2>1, <2>2 DEF Lanes!Poured, Lanes!Beads, Lanes!Steps, Lanes!hasAdvanced, Lanes!isResolvedStatus, Lanes!At
    <2>3. CASE c # b
      BY <1>3, <2>1, <2>3 DEF Lanes!Poured, Lanes!Beads, Lanes!Steps, Lanes!hasAdvanced, Lanes!isInFlightStatus, Lanes!isResolvedStatus, Lanes!At
    <2> QED
      BY <2>2, <2>3
  <1> QED
    BY <1>1, <1>4, <1>5, LanesRunIInv

LEMMA LanesRetryIInv == ASSUME Lanes!Assumptions, Lanes!IInv, NEW b \in Lanes!Beads, Lanes!Retry(b) PROVE Lanes!IInv'
  <1>1. b \in Lanes!Poured /\ b \in Lanes!latestAttempt(b[1]) /\ UNCHANGED <<v2, v4, v5, v6, v7, v8>>
        /\ Lanes!TypeOK /\ b[2] < StepTries[b[1]] /\ Lanes!Write(<<b[1], b[2] + 1>>, "open", None)
    BY DEF Lanes!Retry, Lanes!IInv
  <1>2. PICK d : d = <<b[1], b[2] + 1>>
    OBVIOUS
  <1>3. d \in Lanes!Beads /\ d \notin Lanes!Poured
    <2>1. b[1] \in Lanes!Steps /\ b[2] \in 1 .. StepTries[b[1]] /\ StepTries[b[1]] \in Nat
      BY LanesBeadIs DEF Lanes!Assumptions, Lanes!Steps
    <2>2. b[2] + 1 \in 1 .. StepTries[b[1]] /\ ~(b[2] + 1 <= b[2])
      BY <1>1, <2>1
    <2>3. d[1] = b[1] /\ d[2] = b[2] + 1
      BY <1>2
    <2>4. d \in Lanes!Beads
      BY <1>2, <2>1, <2>2 DEF Lanes!Beads
    <2>5. d \notin Lanes!Poured
      BY <1>1, <2>2, <2>3 DEF Lanes!latestAttempt
    <2> QED
      BY <2>4, <2>5
  <1>4. /\ DOMAIN v1' = Lanes!Steps
        /\ \A s \in Lanes!Steps : /\ DOMAIN v1'[s] = 1 .. StepTries[s]
                            /\ \A a \in 1 .. StepTries[s] : v1'[s][a] \in Lanes!Filed \cup {None}
        /\ v3' \in 0 .. MaxTime
        /\ \A c \in Lanes!Beads : c # d => v1'[c[1]][c[2]] = v1[c[1]][c[2]]
    <2>1. Lanes!Write(d, "open", None)
      BY <1>1, <1>2
    <2> QED
      BY <1>1, <1>3, <2>1, LanesWriteFiles
  <1>5. Lanes!TypeOK'
    BY <1>1, <1>4 DEF Lanes!TypeOK, Lanes!Steps
  <1>6. ASSUME NEW c \in Lanes!Poured PROVE c \in Lanes!Poured' /\ (Lanes!hasAdvanced(c) => Lanes!hasAdvanced(c)')
    BY <1>3, <1>4 DEF Lanes!Poured, Lanes!Beads, Lanes!Steps, Lanes!hasAdvanced, Lanes!isInFlightStatus, Lanes!isResolvedStatus, Lanes!At
  <1> QED
    BY <1>1, <1>5, <1>6, LanesRunIInv

LEMMA LanesRegisterIInv == ASSUME Lanes!Assumptions, Lanes!IInv, Lanes!Register PROVE Lanes!IInv'
  <1>1. UNCHANGED <<v1, v2, v3, v5, v6, v7, v8>> /\ v4' = TRUE /\ v2 < Grace
    BY DEF Lanes!Register
  <1>2. Lanes!TypeOK'
    BY <1>1 DEF Lanes!IInv, Lanes!TypeOK, Lanes!Steps
  <1>3. Lanes!MissedHasMoved'
    <2>1. v5 # None => v5.at <= v2 /\ v5.at \in Nat /\ v2 \in Nat /\ Grace \in Nat
      BY DEF Lanes!IInv, Lanes!TypeOK, Lanes!MissedHasMoved, Lanes!Assumptions
    <2> QED
      BY <1>1, <2>1 DEF Lanes!MissedHasMoved
  <1>4. Lanes!MarkIsOfTheRun' /\ Lanes!LoopedClimb'
    BY <1>1 DEF Lanes!IInv, Lanes!MarkIsOfTheRun, Lanes!LoopedClimb, Lanes!Poured, Lanes!Steps
  <1> QED
    BY <1>2, <1>3, <1>4 DEF Lanes!IInv

LEMMA LanesReadsIInv == ASSUME Lanes!Assumptions, Lanes!IInv, Lanes!Pass \/ Lanes!FeedRead \/ Lanes!FeedFalters PROVE Lanes!IInv'
  <1>1. UNCHANGED <<v1, v3, v4, v7, v8>>
    BY DEF Lanes!Pass, Lanes!FeedRead, Lanes!FeedFalters
  <1>2. v2 \in Nat /\ MaxTime \in Nat /\ v2 <= v2' /\ v2' \in 0 .. MaxTime /\ v6' \in BOOLEAN
    BY DEF Lanes!IInv, Lanes!TypeOK, Lanes!Pass, Lanes!FeedRead, Lanes!FeedFalters, Lanes!Assumptions
  <1>3. v5' = v5
        \/ \E has \in BOOLEAN : /\ v5' = [has |-> has, at |-> v2]
                                /\ v4 /\ ~has => \E b \in Lanes!Poured : Lanes!hasAdvanced(b)
    BY DEF Lanes!Pass, Lanes!FeedRead, Lanes!FeedFalters
  <1>4. v2 \in 0 .. MaxTime
    BY DEF Lanes!IInv, Lanes!TypeOK
  <1>5. Lanes!TypeOK'
    BY <1>1, <1>2, <1>3, <1>4 DEF Lanes!IInv, Lanes!TypeOK, Lanes!Steps
  <1>6. Lanes!MissedHasMoved'
    <2>1. Lanes!Poured' = Lanes!Poured /\ \A b \in Lanes!Poured : Lanes!hasAdvanced(b)' = Lanes!hasAdvanced(b)
      BY <1>1 DEF Lanes!Poured, Lanes!hasAdvanced, Lanes!isInFlightStatus, Lanes!isResolvedStatus, Lanes!At, Lanes!Beads, Lanes!Steps
    <2>2. CASE v5' = v5
      <3>1. v5 # None => v5.at \in Nat
        BY DEF Lanes!IInv, Lanes!TypeOK
      <3> QED
        BY <1>1, <1>2, <2>1, <2>2, <3>1 DEF Lanes!IInv, Lanes!MissedHasMoved
    <2>3. CASE v5' # v5
      BY <1>1, <1>2, <1>3, <2>1, <2>3 DEF Lanes!MissedHasMoved
    <2> QED
      BY <2>2, <2>3
  <1>7. Lanes!MarkIsOfTheRun' /\ Lanes!LoopedClimb'
    BY <1>1 DEF Lanes!IInv, Lanes!MarkIsOfTheRun, Lanes!LoopedClimb, Lanes!Poured, Lanes!Steps
  <1> QED
    BY <1>5, <1>6, <1>7 DEF Lanes!IInv

\* Where the run is: a step by its id, at an attempt that was poured.
LEMMA LanesProgressIs ==
    ASSUME Lanes!Assumptions, Lanes!TypeOK, Lanes!runProgress # None
    PROVE  /\ Lanes!runProgress.stepId[1] = Lanes!runProgress.step
           /\ Lanes!runProgress.step \in Looped => Lanes!runProgress.stepId = <<Lanes!runProgress.step, 0>>
           /\ \E b \in Lanes!Poured : b[1] = Lanes!runProgress.step /\ b[2] = Lanes!runProgress.attempt
  <1>1. Lanes!Flying # {}
    BY DEF Lanes!runProgress, Lanes!activeStepId, Lanes!latestStepId
  <1>2. \E b \in Lanes!Flying : \A c \in Lanes!Flying : ~Lanes!MoreCurrent(c, b)
    BY <1>1, LanesLatestExists DEF Lanes!Flying
  <1>3. PICK last : last = CHOOSE b \in Lanes!Flying : \A c \in Lanes!Flying : ~Lanes!MoreCurrent(c, b)
    OBVIOUS
  <1>4. last \in Lanes!Flying /\ last \in Lanes!Poured
    BY <1>2, <1>3 DEF Lanes!Flying
  <1>5. Lanes!runProgress = [stepId |-> Lanes!rawStepId(last[1], last[2]), step |-> last[1],
                       attempt |-> Lanes!runStepAttempt(last[1])]
    BY <1>3 DEF Lanes!runProgress
  <1>6. PICK T : T = {b[2] : b \in {c \in Lanes!Poured : c[1] = last[1]}}
    OBVIOUS
  <1>7. last[1] \in Lanes!Steps /\ StepTries[last[1]] \in Nat
    BY <1>4, LanesPouredIs DEF Lanes!Assumptions, Lanes!Steps
  <1>8. T \in SUBSET (0 .. StepTries[last[1]]) /\ T # {}
    BY <1>4, <1>6, <1>7, LanesPouredIs
  <1>9. \E x \in T : \A y \in T : y <= x
    BY <1>7, <1>8, GreatestExists
  <1>10. \A x, y \in T : y <= x <=> x >= y
    BY <1>7, <1>8
  <1>11. Lanes!runStepAttempt(last[1]) \in T
    BY <1>6, <1>9, <1>10 DEF Lanes!runStepAttempt, Lanes!Max
  <1> QED
    BY <1>5, <1>6, <1>11 DEF Lanes!rawStepId

LEMMA LanesRefreshIInv == ASSUME Lanes!Assumptions, Lanes!IInv, Lanes!Refresh PROVE Lanes!IInv'
  <1>1. UNCHANGED <<v1, v2, v3, v4, v5, v6>> /\ v8' = Lanes!advanceProgressMarks
        /\ v7' \in {"unread", "none", "worker"}
    BY DEF Lanes!Refresh
  <1>2. Lanes!TypeOK /\ Lanes!MarkIsOfTheRun /\ Lanes!LoopedClimb
    BY DEF Lanes!IInv
  <1>3. PICK at : at = Lanes!runProgress
    OBVIOUS
  <1>4. at # None =>
          /\ at.stepId[1] = at.step /\ (at.step \in Looped => at.stepId = <<at.step, 0>>)
          /\ \E b \in Lanes!Poured : b[1] = at.step /\ b[2] = at.attempt
    BY <1>2, <1>3, LanesProgressIs
  <1>5. PICK again : again = (Lanes!Comparable /\ v8.progress.step = Lanes!runProgress.step /\ Lanes!Climbs)
    OBVIOUS
  <1>6. Lanes!Comparable /\ v8.progress.stepId = Lanes!runProgress.stepId => v8.progress.step = Lanes!runProgress.step
    BY <1>2, <1>3, <1>4 DEF Lanes!Comparable, Lanes!MarkIsOfTheRun
  <1>7. v8'.progress = at /\ v8'.climbs = IF again THEN v8.climbs + 1 ELSE 0
    BY <1>1, <1>3, <1>5 DEF Lanes!advanceProgressMarks
  <1>8. v8'.streak = IF again /\ v8.progress.stepId = at.stepId THEN v8.streak + 1 ELSE 0
    BY <1>1, <1>3, <1>5, <1>6 DEF Lanes!advanceProgressMarks
  <1>9. again => /\ v8 # None /\ v8.progress # None /\ at # None /\ v8.progress.step = at.step
                 /\ v8.streak \in Nat /\ v8.climbs \in Nat /\ v8.streak <= v8.climbs
                 /\ at.attempt > v8.progress.attempt
    BY <1>2, <1>3, <1>5 DEF Lanes!TypeOK, Lanes!MarkIsOfTheRun, Lanes!Comparable, Lanes!Climbs
  <1>10. again => \E b \in Lanes!Poured : b[2] = v8.progress.attempt /\ v8.streak < b[2]
    BY <1>2, <1>9 DEF Lanes!MarkIsOfTheRun
  <1>11. \A b \in Lanes!Poured : b[1] \in Lanes!Steps /\ b[2] \in Nat /\ b[2] >= 1 /\ b[2] <= StepTries[b[1]] /\ StepTries[b[1]] \in Nat
    BY <1>2, LanesPouredIs DEF Lanes!Assumptions, Lanes!Steps
  <1>12. v8'.streak \in Nat /\ v8'.climbs \in Nat /\ v8'.streak <= v8'.climbs
    BY <1>7, <1>8, <1>9
  <1>13. Lanes!TypeOK'
    BY <1>1, <1>2, <1>12 DEF Lanes!TypeOK, Lanes!Steps
  <1>14. Lanes!MissedHasMoved'
    BY <1>1 DEF Lanes!IInv, Lanes!MissedHasMoved, Lanes!Poured, Lanes!hasAdvanced, Lanes!isInFlightStatus, Lanes!isResolvedStatus, Lanes!At, Lanes!Beads, Lanes!Steps
  <1>15. Lanes!MarkIsOfTheRun'
    <2>1. at # None => \E b \in Lanes!Poured : b[2] = at.attempt /\ v8'.streak < b[2]
      <3> SUFFICES ASSUME at # None PROVE \E b \in Lanes!Poured : b[2] = at.attempt /\ v8'.streak < b[2]
        OBVIOUS
      <3>1. PICK b \in Lanes!Poured : b[1] = at.step /\ b[2] = at.attempt
        BY <1>4
      <3>2. CASE again
        BY <1>8, <1>9, <1>10, <1>11, <3>1, <3>2
      <3>3. CASE ~again
        BY <1>8, <1>11, <3>1, <3>3
      <3> QED
        BY <3>2, <3>3
    <2>2. Lanes!Poured' = Lanes!Poured
      BY <1>1 DEF Lanes!Poured, Lanes!Beads, Lanes!Steps
    <2>3. at = None => v8'.climbs = 0
      BY <1>7, <1>9
    <2> QED
      BY <1>4, <1>7, <1>12, <2>1, <2>2, <2>3 DEF Lanes!MarkIsOfTheRun
  <1>16. Lanes!LoopedClimb'
    <2> SUFFICES ASSUME \A s \in Lanes!Steps : StepTries[s] > 1 => s \in Looped PROVE v8'.climbs = v8'.streak
      BY DEF Lanes!LoopedClimb, Lanes!Steps
    <2>1. CASE again
      <3>1. PICK b \in Lanes!Poured : b[1] = at.step /\ b[2] = at.attempt
        BY <1>4, <1>9, <2>1
      <3>2. PICK c \in Lanes!Poured : c[2] = v8.progress.attempt
        BY <1>10, <2>1
      <3>3. b[2] > 1
        BY <1>9, <1>11, <2>1, <3>1, <3>2
      <3>4. at.step \in Looped
        BY <1>11, <3>1, <3>3
      <3>5. v8.progress.stepId = at.stepId
        BY <1>2, <1>4, <1>9, <2>1, <3>4 DEF Lanes!MarkIsOfTheRun
      <3>6. v8.climbs = v8.streak
        BY <1>2, <1>9, <2>1 DEF Lanes!LoopedClimb
      <3> QED
        BY <1>7, <1>8, <2>1, <3>5, <3>6
    <2>2. CASE ~again
      BY <1>7, <1>8, <2>2
    <2> QED
      BY <2>1, <2>2
  <1> QED
    BY <1>13, <1>14, <1>15, <1>16 DEF Lanes!IInv

LEMMA LanesNextIInv == ASSUME Lanes!Assumptions, Lanes!IInv, [Lanes!Next]_(Lanes!vars) PROVE Lanes!IInv'
  <1>1. CASE UNCHANGED Lanes!vars
    <2>1. UNCHANGED <<v1, v2, v3, v4, v5, v6, v7, v8>>
      BY <1>1 DEF Lanes!vars
    <2>2. Lanes!TypeOK'
      BY <2>1 DEF Lanes!IInv, Lanes!TypeOK, Lanes!Steps
    <2>3. \A c \in Lanes!Poured : c \in Lanes!Poured' /\ (Lanes!hasAdvanced(c) => Lanes!hasAdvanced(c)')
      BY <2>1 DEF Lanes!Poured, Lanes!Beads, Lanes!Steps, Lanes!hasAdvanced, Lanes!isInFlightStatus, Lanes!isResolvedStatus, Lanes!At
    <2> QED
      BY <2>1, <2>2, <2>3, LanesRunIInv
  <1> QED
    BY <1>1, LanesWorkIInv, LanesRetryIInv, LanesRegisterIInv, LanesReadsIInv, LanesRefreshIInv DEF Lanes!Next

\* With nothing in flight the first stage that is not complete is not past a
\* failed one.
LEMMA LanesCurrentStage ==
    ASSUME Lanes!Assumptions, Lanes!InFlightStages = {}, NEW i \in DOMAIN Stages, ~Lanes!stageComplete(i)
    PROVE  /\ Lanes!currentIndex \in DOMAIN Stages /\ Lanes!currentIndex <= i /\ ~Lanes!stageComplete(Lanes!currentIndex)
  <1>1. Len(Stages) \in Nat /\ DOMAIN Stages = 1 .. Len(Stages) /\ Lanes!Beyond = Len(Stages) + 1
    BY DEF Lanes!Assumptions, Lanes!Beyond
  <1>2. PICK T : T = {Lanes!Beyond} \cup {j \in DOMAIN Stages : ~Lanes!stageComplete(j)}
    OBVIOUS
  <1>3. T \in SUBSET Nat /\ i \in T
    BY <1>1, <1>2
  <1>4. \E x \in T : \A y \in T : x <= y
    BY <1>3, LeastExists
  <1>5. Lanes!currentIndex = CHOOSE x \in T : \A y \in T : x <= y
    BY <1>2 DEF Lanes!currentIndex, Lanes!Min
  <1>6. Lanes!currentIndex \in T /\ \A y \in T : Lanes!currentIndex <= y
    BY <1>4, <1>5
  <1>7. Lanes!currentIndex <= i
    BY <1>3, <1>6
  <1> QED
    BY <1>1, <1>2, <1>6, <1>7

LEMMA LanesFailureShows == ASSUME Lanes!Assumptions, Lanes!IInv PROVE Lanes!FailureIsShown
  <1> SUFFICES ASSUME NEW i \in DOMAIN Stages, Lanes!StageFailed(i), Lanes!Flying = {}
               PROVE  /\ Lanes!formulaStageProgress[i] # "complete"
                      /\ Lanes!mapRunPhase = "complete" => \E j \in 1 .. i : Lanes!formulaStageProgress[j] = "blocked"
    BY DEF Lanes!FailureIsShown
  <1>1. DOMAIN Stages = 1 .. Len(Stages) /\ Len(Stages) \in Nat /\ \A j \in DOMAIN Stages : Stages[j] \subseteq Lanes!Steps
    BY DEF Lanes!Assumptions, Lanes!Steps
  <1>2. Lanes!InFlightStages = {}
    <2>1. Lanes!activeStepId = None
      BY DEF Lanes!activeStepId, Lanes!latestStepId
    <2> QED
      BY <1>1, <2>1 DEF Lanes!InFlightStages, Lanes!Assumptions, Lanes!Steps
  <1>3. \A b : ~(Lanes!isFailedStep(b) /\ (Lanes!isSucceededStep(b) \/ Lanes!isSkippedStep(b)))
    BY DEF Lanes!isFailedStep, Lanes!isSucceededStep, Lanes!isSkippedStep
  <1>4. ~Lanes!stageComplete(i)
    BY <1>3 DEF Lanes!StageFailed, Lanes!stageComplete, Lanes!Succeeded, Lanes!Bypassed
  <1>5. PICK j : j = Lanes!currentIndex
    OBVIOUS
  <1>6. j \in DOMAIN Stages /\ j <= i /\ ~Lanes!stageComplete(j)
    BY <1>2, <1>4, <1>5, LanesCurrentStage
  <1>7. Lanes!formulaStageProgress[i] # "complete"
    BY <1>1, <1>5, <1>6 DEF Lanes!formulaStageProgress
  <1>8. ASSUME Lanes!mapRunPhase = "complete" PROVE Lanes!formulaStageProgress[j] = "blocked"
    <2>1. \A b \in Lanes!Poured : Lanes!isResolvedStatus(b)
      BY <1>8 DEF Lanes!mapRunPhase, Lanes!structuredPhase, Lanes!stepIdPhase
    <2>2. ~Lanes!Succeeded(j) /\ ~Lanes!Bypassed(j)
      BY <1>6, <1>8 DEF Lanes!stageComplete
    <2>3. \A b \in Lanes!Deciding(j) : b \in Lanes!Poured
      BY DEF Lanes!Deciding, Lanes!latestAttempt
    <2>4. \A b \in Lanes!Deciding(j) : Lanes!isFailedStep(b) \/ Lanes!isSkippedStep(b) \/ Lanes!isSucceededStep(b)
      BY <2>1, <2>3 DEF Lanes!isSucceededStep, Lanes!isResolvedStatus
    <2>5. Lanes!StageFailed(j)
      BY <2>2, <2>4 DEF Lanes!Succeeded, Lanes!Bypassed, Lanes!StageFailed
    <2>6. ~(j < Lanes!currentIndex) /\ ~(j > Lanes!currentIndex)
      BY <1>1, <1>5, <1>6
    <2> QED
      BY <1>2, <1>6, <2>5, <2>6 DEF Lanes!formulaStageProgress
  <1> QED
    BY <1>1, <1>6, <1>7, <1>8

LEMMA LanesPhaseReached == ASSUME Lanes!Assumptions, Lanes!IInv PROVE Lanes!PhaseWasReached
  <1> SUFFICES ASSUME Lanes!mapRunPhase \in {"implementation", "review", "approval", "finalization"}
               PROVE  \E b \in Lanes!Poured : Lanes!hasAdvanced(b) /\ Lanes!stepIdPhase(b[1]) = Lanes!mapRunPhase
    BY DEF Lanes!PhaseWasReached
  <1>1. Lanes!mapRunPhase = Lanes!structuredPhase
    BY DEF Lanes!mapRunPhase
  <1>2. CASE Lanes!Flying # {}
    <2>1. PICK b \in Lanes!Flying : Lanes!activeStepId = b[1]
      <3>1. \E b \in Lanes!Flying : \A c \in Lanes!Flying : ~Lanes!MoreCurrent(c, b)
        BY <1>2, LanesLatestExists DEF Lanes!Flying, Lanes!IInv
      <3> QED
        BY <1>2, <3>1 DEF Lanes!activeStepId, Lanes!latestStepId
    <2>2. Lanes!mapRunPhase = Lanes!stepIdPhase(b[1])
      BY <1>1, <1>2, <2>1 DEF Lanes!structuredPhase
    <2> QED
      BY <2>1, <2>2 DEF Lanes!Flying, Lanes!hasAdvanced
  <1>3. CASE Lanes!Flying = {}
    <2>1. PICK S : S = {b \in Lanes!Poured : Lanes!hasAdvanced(b)}
      OBVIOUS
    <2>2. Lanes!furthestStageStepId(S) # None /\ Lanes!mapRunPhase = Lanes!stepIdPhase(Lanes!furthestStageStepId(S))
      BY <1>1, <1>3, <2>1 DEF Lanes!structuredPhase
    <2>3. S # {}
      BY <2>2 DEF Lanes!furthestStageStepId
    <2>4. PICK b \in S : Lanes!furthestStageStepId(S) = b[1]
      BY <2>3, LanesFurthestExists DEF Lanes!furthestStageStepId
    <2> QED
      BY <2>1, <2>2, <2>4
  <1> QED
    BY <1>2, <1>3

LEMMA LanesStrandedIs == ASSUME Lanes!Assumptions, Lanes!IInv PROVE Lanes!StrandedIsOrphan
  <1> SUFFICES ASSUME Lanes!isStrandedRun, v4 PROVE FALSE
    BY DEF Lanes!StrandedIsOrphan, Lanes!section
  <1>1. v5 # None /\ ~v5.has /\ v5.at >= v3 + Grace /\ \A b \in Lanes!Poured : Lanes!isOpenStatus(b)
    BY DEF Lanes!isStrandedRun
  <1>2. v3 \in Nat /\ Grace \in Nat /\ v5.at \in Nat
    BY <1>1 DEF Lanes!IInv, Lanes!TypeOK, Lanes!Assumptions
  <1>3. PICK b \in Lanes!Poured : Lanes!hasAdvanced(b)
    BY <1>1, <1>2 DEF Lanes!IInv, Lanes!MissedHasMoved
  <1> QED
    BY <1>1, <1>3 DEF Lanes!hasAdvanced, Lanes!isOpenStatus, Lanes!isInFlightStatus, Lanes!isResolvedStatus

LEMMA LanesThrashingIs == ASSUME Lanes!Assumptions, Lanes!IInv PROVE Lanes!ThrashingIsOneStep
  <1> SUFFICES ASSUME v8 # None, v8.streak >= 2 PROVE \E b \in Lanes!Poured : b[2] >= 3
    BY DEF Lanes!ThrashingIsOneStep, Lanes!thrashingDetected
  <1>1. v8.streak \in Nat /\ v8.climbs \in Nat /\ v8.streak <= v8.climbs
    BY DEF Lanes!IInv, Lanes!TypeOK, Lanes!MarkIsOfTheRun
  <1>2. v8.progress # None
    BY <1>1 DEF Lanes!IInv, Lanes!MarkIsOfTheRun
  <1>3. PICK b \in Lanes!Poured : v8.streak < b[2]
    BY <1>2 DEF Lanes!IInv, Lanes!MarkIsOfTheRun
  <1>4. b[2] \in Nat
    BY LanesPouredIs DEF Lanes!IInv
  <1> QED
    BY <1>1, <1>3, <1>4

LEMMA LanesClimbersAre ==
    ASSUME Lanes!Assumptions, Lanes!IInv, \A s \in Lanes!Steps : StepTries[s] > 1 => s \in Looped
    PROVE  Lanes!ClimbersThrash
  BY DEF Lanes!IInv, Lanes!LoopedClimb, Lanes!ClimbersThrash, Lanes!thrashingDetected

(***************************************************************************)
(* What the beads ask of the operator (AttentionRules).                    *)
(***************************************************************************)
\* The finite sets of the instance are those of the module.
LEMMA BeadsSameSets == ASSUME NEW S
    PROVE  (Attending!IsFiniteSet(S) <=> IsFiniteSet(S)) /\ Attending!Cardinality(S) = Cardinality(S)
  <1>1. Attending!IsFiniteSet(S) <=> IsFiniteSet(S)
    BY DEF Attending!IsFiniteSet, IsFiniteSet
  <1>2. Attending!Cardinality(S) = Cardinality(S)
    BY DEF Attending!Cardinality, Cardinality
  <1> QED
    BY <1>1, <1>2

\* A row shows the most severe of its items that a badge counts.
LEMMA BeadsSeverityIs ==
    ASSUME NEW items, Attending!IsFiniteSet(items), None \notin {"attention", "watch"}, NEW item \in items
    PROVE  /\ item.severity = "attention" => Attending!resourceAttentionSeverity(items, item.domain, item.of) = "attention"
           /\ item.severity = "watch" => Attending!resourceAttentionSeverity(items, item.domain, item.of) # None
  <1>1. PICK own : own = {i \in items : i.domain = item.domain /\ i.of = item.of}
    OBVIOUS
  <1>2. item \in own /\ Attending!IsFiniteSet(own)
    BY <1>1, FS_Subset, BeadsSameSets
  <1>3. ASSUME NEW severity, item.severity = severity PROVE Attending!Counts(own, severity) > 0
    <2>1. PICK S : S = {i \in own : i.severity = severity}
      OBVIOUS
    <2>2. Attending!IsFiniteSet(S) /\ S # {}
      BY <1>2, <1>3, <2>1, FS_Subset, BeadsSameSets
    <2>3. Attending!Cardinality(S) \in Nat /\ Attending!Cardinality(S) # 0
      BY <2>2, FS_CardinalityType, FS_EmptySet, BeadsSameSets
    <2> QED
      BY <2>1, <2>3 DEF Attending!Counts
  <1>4. Attending!resourceAttentionSeverity(items, item.domain, item.of)
        = IF Attending!Counts(own, "attention") > 0 THEN "attention" ELSE IF Attending!Counts(own, "watch") > 0 THEN "watch" ELSE None
    BY <1>1 DEF Attending!resourceAttentionSeverity, Attending!badge
  <1> QED
    BY <1>3, <1>4

\* What is made of a bead.
LEMMA BeadsItemsAre ==
    ASSUME NEW w, NEW item
    PROVE  item \in Attending!deriveBeads(w) <=>
             \/ /\ item = Attending!Item("beads", item.of, "mayor-decision", "attention")
                /\ item.of \in Attending!dedupeDecisionsBySlug(w, Attending!Queue(w, "decision"))
             \/ /\ item = Attending!Item("beads", item.of, "escalated", "attention")
                /\ item.of \in Attending!Queue(w, "gc:escalation")
             \/ /\ item = Attending!Item("beads", item.of, "ready-unclaimed",
                               IF w[item.of].age >= Attending!StaleDays THEN "attention" ELSE "watch")
                /\ item.of \in Attending!General(w) /\ "decision" \notin w[item.of].labels
                /\ Attending!readyUnclaimed(w[item.of])
  <1>1. \A i, why, severity : Attending!Item("beads", i, why, severity).of = i
    BY DEF Attending!Item
  <1>2. \A i \in Attending!Queue(w, "gc:escalation") : ~Attending!isResolvedStatus(w[i].status)
    BY DEF Attending!Queue, Attending!isResolvedStatus
  <1>3. PICK A, B, C :
          /\ Attending!deriveBeads(w) = A \cup B \cup C
          /\ A = {Attending!Item("beads", i, "mayor-decision", "attention") :
                    i \in Attending!dedupeDecisionsBySlug(w, Attending!Queue(w, "decision"))}
          /\ B = {Attending!Item("beads", i, "escalated", "attention") :
                    i \in {i \in Attending!Queue(w, "gc:escalation") : ~Attending!isResolvedStatus(w[i].status)}}
          /\ C = {Attending!Item("beads", i, "ready-unclaimed", IF w[i].age >= Attending!StaleDays THEN "attention" ELSE "watch") :
                    i \in {i \in Attending!General(w) : "decision" \notin w[i].labels /\ Attending!readyUnclaimed(w[i])}}
    BY DEF Attending!deriveBeads
  <1>4. item \in A <=> /\ item = Attending!Item("beads", item.of, "mayor-decision", "attention")
                       /\ item.of \in Attending!dedupeDecisionsBySlug(w, Attending!Queue(w, "decision"))
    BY <1>1, <1>3
  <1>5. item \in B <=> /\ item = Attending!Item("beads", item.of, "escalated", "attention")
                       /\ item.of \in Attending!Queue(w, "gc:escalation")
    BY <1>1, <1>2, <1>3
  <1>6. item \in C <=> /\ item = Attending!Item("beads", item.of, "ready-unclaimed",
                               IF w[item.of].age >= Attending!StaleDays THEN "attention" ELSE "watch")
                       /\ item.of \in Attending!General(w) /\ "decision" \notin w[item.of].labels
                       /\ Attending!readyUnclaimed(w[item.of])
    BY <1>1, <1>3
  <1> QED
    BY <1>3, <1>4, <1>5, <1>6

LEMMA BeadsItemsAreFinite == ASSUME NEW w, Attending!Kept(w) PROVE Attending!IsFiniteSet(Attending!deriveBeads(w))
  <1>1. PICK own : own = {Attending!Item("beads", i, "mayor-decision", "attention") : i \in DOMAIN w}
    OBVIOUS
  <1>2. PICK other : other = {Attending!Item("beads", i, "escalated", "attention") : i \in DOMAIN w}
    OBVIOUS
  <1>3. PICK loose : loose = {Attending!Item("beads", i, "ready-unclaimed",
                                   IF w[i].age >= Attending!StaleDays THEN "attention" ELSE "watch") : i \in DOMAIN w}
    OBVIOUS
  <1>4. Attending!IsFiniteSet(own) /\ Attending!IsFiniteSet(other) /\ Attending!IsFiniteSet(loose)
    <2>1. Attending!IsFiniteSet(DOMAIN w)
      BY DEF Attending!Kept
    <2>2. Attending!IsFiniteSet(own)
      <3>1. PICK f : f = [i \in DOMAIN w |-> Attending!Item("beads", i, "mayor-decision", "attention")]
        OBVIOUS
      <3>2. f \in Surjection(DOMAIN w, own)
        BY <1>1, <3>1 DEF Surjection
      <3> QED
        BY <2>1, <3>2, FS_Surjection, BeadsSameSets
    <2>3. Attending!IsFiniteSet(other)
      <3>1. PICK f : f = [i \in DOMAIN w |-> Attending!Item("beads", i, "escalated", "attention")]
        OBVIOUS
      <3>2. f \in Surjection(DOMAIN w, other)
        BY <1>2, <3>1 DEF Surjection
      <3> QED
        BY <2>1, <3>2, FS_Surjection, BeadsSameSets
    <2>4. Attending!IsFiniteSet(loose)
      <3>1. PICK f : f = [i \in DOMAIN w |-> Attending!Item("beads", i, "ready-unclaimed",
                            IF w[i].age >= Attending!StaleDays THEN "attention" ELSE "watch")]
        OBVIOUS
      <3>2. f \in Surjection(DOMAIN w, loose)
        BY <1>3, <3>1 DEF Surjection
      <3> QED
        BY <2>1, <3>2, FS_Surjection, BeadsSameSets
    <2> QED
      BY <2>2, <2>3, <2>4
  <1>5. Attending!deriveBeads(w) \subseteq own \cup (other \cup loose)
    <2>1. ASSUME NEW item \in Attending!deriveBeads(w) PROVE item \in own \cup (other \cup loose)
      BY <1>1, <1>2, <1>3, BeadsItemsAre DEF Attending!dedupeDecisionsBySlug, Attending!Queue, Attending!General
    <2> QED
      BY <2>1
  <1>6. Attending!IsFiniteSet(own \cup (other \cup loose))
    BY <1>4, FS_Union, BeadsSameSets
  <1> QED
    BY <1>5, <1>6, FS_Subset, BeadsSameSets

\* Of the decisions that share a slug one is displaced by none.
LEMMA BeadsOneIsHeld ==
    ASSUME NEW w, Attending!Kept(w), NEW S, S \subseteq DOMAIN w, S # {}
    PROVE  \E i \in S : \A j \in S : ~Attending!displacesHeldDecision(w[j], w[i])
  <1>1. Attending!IsFiniteSet(S) /\ \A i \in S : w[i].moved \in Nat
    BY FS_Subset, BeadsSameSets DEF Attending!Kept
  <1>2. PICK T : T = {w[i].moved : i \in S}
    OBVIOUS
  <1>3. T \in SUBSET Nat /\ T # {} /\ Attending!IsFiniteSet(T)
    <2>1. PICK f : f = [i \in S |-> w[i].moved]
      OBVIOUS
    <2>2. f \in Surjection(S, T)
      BY <1>2, <2>1 DEF Surjection
    <2>3. Attending!IsFiniteSet(T)
      BY <1>1, <2>2, FS_Surjection, BeadsSameSets
    <2> QED
      BY <1>1, <1>2, <2>3
  <1>4. PICK x \in T : \A y \in T : y <= x
    BY <1>3, FiniteHasGreatest, BeadsSameSets
  <1>5. PICK U : U = {i \in S : w[i].moved = x}
    OBVIOUS
  <1>6. PICK V : V = {w[i].id : i \in U}
    OBVIOUS
  <1>7. V \in SUBSET Nat /\ V # {}
    <2>1. \A i \in DOMAIN w : w[i].id \in Nat
      BY DEF Attending!Kept
    <2>2. U # {} /\ U \subseteq DOMAIN w
      BY <1>2, <1>4, <1>5
    <2> QED
      BY <1>6, <2>1, <2>2
  <1>8. PICK y \in V : \A z \in V : y <= z
    BY <1>7, LeastExists
  <1>9. PICK i \in U : w[i].id = y
    BY <1>6, <1>8
  <1>10. ASSUME NEW j \in S PROVE ~Attending!displacesHeldDecision(w[j], w[i])
    <2>1. w[j].moved <= x /\ w[j].moved \in Nat /\ x \in Nat /\ w[i].moved = x
      BY <1>2, <1>3, <1>4, <1>5, <1>9
    <2>2. w[j].moved = x => w[i].id <= w[j].id /\ w[j].id \in Nat /\ w[i].id \in Nat
      BY <1>5, <1>6, <1>7, <1>8, <1>9
    <2> QED
      BY <2>1, <2>2 DEF Attending!displacesHeldDecision
  <1> QED
    BY <1>5, <1>10

LEMMA BeadsNeedsHold ==
    ASSUME NEW w, Attending!Kept(w), None \notin {"attention", "watch"}
    PROVE  Attending!EachNeedIsAskedOnce(w)
  <1>1. PICK items : items = Attending!deriveBeads(w)
    OBVIOUS
  <1>2. PICK held : held = Attending!dedupeDecisionsBySlug(w, Attending!Queue(w, "decision"))
    OBVIOUS
  <1>3. \A i \in items : i.why = "mayor-decision" <=> i.of \in held /\ i = Attending!Item("beads", i.of, "mayor-decision", "attention")
    BY <1>1, <1>2, BeadsItemsAre DEF Attending!Item
  <1>4. \A b \in held : Attending!Item("beads", b, "mayor-decision", "attention") \in items
    <2>1. ASSUME NEW b \in held PROVE Attending!Item("beads", b, "mayor-decision", "attention") \in items
      <3>1. PICK item : item = Attending!Item("beads", b, "mayor-decision", "attention")
        OBVIOUS
      <3>2. item.of = b
        BY <3>1 DEF Attending!Item
      <3> QED
        BY <1>1, <1>2, <3>1, <3>2, BeadsItemsAre
    <2> QED
      BY <2>1
  <1>5. ASSUME NEW i \in held, NEW j \in held, w[i].slug = w[j].slug, w[i].slug # None PROVE i = j
    <2>1. /\ i \in DOMAIN w /\ j \in DOMAIN w
          /\ ~Attending!displacesHeldDecision(w[j], w[i]) /\ ~Attending!displacesHeldDecision(w[i], w[j])
      BY <1>2, <1>5 DEF Attending!dedupeDecisionsBySlug, Attending!Queue
    <2>2. /\ w[i].moved \in Nat /\ w[j].moved \in Nat /\ w[i].id \in Nat /\ w[j].id \in Nat
          /\ w[i].id = w[j].id => i = j
      BY <2>1 DEF Attending!Kept
    <2> QED
      BY <2>1, <2>2 DEF Attending!displacesHeldDecision
  <1>6. ASSUME NEW b \in DOMAIN w, w[b].status = "open", "decision" \in w[b].labels
        PROVE  \E i \in held : i = b \/ (w[b].slug # None /\ w[i].slug = w[b].slug)
    <2>1. PICK queue : queue = Attending!Queue(w, "decision")
      OBVIOUS
    <2>2. b \in queue /\ queue \subseteq DOMAIN w
      BY <1>6, <2>1 DEF Attending!Queue
    <2>3. CASE w[b].slug = None
      BY <1>2, <2>1, <2>2, <2>3 DEF Attending!dedupeDecisionsBySlug
    <2>4. CASE w[b].slug # None
      <3>1. PICK S : S = {j \in queue : w[j].slug = w[b].slug}
        OBVIOUS
      <3>2. PICK i \in S : \A j \in S : ~Attending!displacesHeldDecision(w[j], w[i])
        BY <2>2, <3>1, BeadsOneIsHeld
      <3>3. i \in held
        BY <1>2, <2>1, <3>1, <3>2 DEF Attending!dedupeDecisionsBySlug
      <3> QED
        BY <2>4, <3>1, <3>2, <3>3
    <2> QED
      BY <2>3, <2>4
  <1>7. Attending!IsFiniteSet(items)
    BY <1>1, BeadsItemsAreFinite
  <1>8. ASSUME NEW b \in DOMAIN w, w[b].status = "open", "gc:escalation" \in w[b].labels
        PROVE  Attending!resourceAttentionSeverity(items, "beads", b) = "attention"
    <2>1. PICK item : item = Attending!Item("beads", b, "escalated", "attention")
      OBVIOUS
    <2>2. item.of = b /\ item.domain = "beads" /\ item.severity = "attention"
      BY <2>1 DEF Attending!Item
    <2>3. item \in items
      BY <1>1, <1>8, <2>1, <2>2, BeadsItemsAre DEF Attending!Queue
    <2> QED
      BY <1>7, <2>2, <2>3, BeadsSeverityIs
  <1>9. ASSUME NEW b \in DOMAIN w, w[b].status = "open", w[b].engineering, w[b].labels = {},
               ~w[b].assigned, w[b].age >= Attending!WatchDays
        PROVE  Attending!resourceAttentionSeverity(items, "beads", b) # None
    <2>1. PICK item : item = Attending!Item("beads", b, "ready-unclaimed",
                                  IF w[b].age >= Attending!StaleDays THEN "attention" ELSE "watch")
      OBVIOUS
    <2>2. item.of = b /\ item.domain = "beads" /\ item.severity \in {"attention", "watch"}
      BY <2>1 DEF Attending!Item
    <2>3. b \in Attending!General(w) /\ Attending!readyUnclaimed(w[b])
      BY <1>9 DEF Attending!General, Attending!readyUnclaimed, Attending!isResolvedStatus
    <2>4. item \in items
      BY <1>1, <1>9, <2>1, <2>2, <2>3, BeadsItemsAre
    <2> QED
      BY <1>7, <2>2, <2>4, BeadsSeverityIs
  <1>10. ASSUME NEW b \in DOMAIN w PROVE Attending!Cardinality({i \in items : i.of = b /\ i.why # "escalated"}) <= 1
    <2>1. PICK S : S = {i \in items : i.of = b /\ i.why # "escalated"}
      OBVIOUS
    <2>2. PICK one : one = IF "decision" \in w[b].labels THEN Attending!Item("beads", b, "mayor-decision", "attention")
                           ELSE Attending!Item("beads", b, "ready-unclaimed",
                                     IF w[b].age >= Attending!StaleDays THEN "attention" ELSE "watch")
      OBVIOUS
    <2>3. ASSUME NEW i \in S PROVE i = one
      <3>1. i \in Attending!deriveBeads(w) /\ i.of = b /\ i.why # "escalated"
        BY <1>1, <2>1
      <3>2. \A x \in Attending!dedupeDecisionsBySlug(w, Attending!Queue(w, "decision")) : "decision" \in w[x].labels
        BY DEF Attending!dedupeDecisionsBySlug, Attending!Queue
      <3>3. i # Attending!Item("beads", b, "escalated", "attention")
        BY <3>1 DEF Attending!Item
      <3> QED
        BY <2>2, <3>1, <3>2, <3>3, BeadsItemsAre
    <2>4. S \subseteq {one}
      BY <2>3
    <2>5. Attending!IsFiniteSet({one}) /\ Attending!Cardinality({one}) = 1
      BY FS_Singleton, BeadsSameSets
    <2>6. Attending!Cardinality(S) <= Attending!Cardinality({one})
      BY <2>4, <2>5, FS_Subset, BeadsSameSets
    <2> QED
      BY <2>1, <2>5, <2>6
  <1>11. PICK asks : asks = {i \in items : i.why = "mayor-decision"}
    OBVIOUS
  <1>12. \A i, j \in asks : w[i.of].slug = w[j.of].slug /\ w[i.of].slug # None => i = j
    BY <1>3, <1>5, <1>11
  <1>13. \A b \in DOMAIN w : w[b].status = "open" /\ "decision" \in w[b].labels =>
           \E i \in asks : i.of = b \/ (w[b].slug # None /\ w[i.of].slug = w[b].slug)
    <2>1. ASSUME NEW i \in held PROVE \E x \in asks : x.of = i
      <3>1. Attending!Item("beads", i, "mayor-decision", "attention").of = i
            /\ Attending!Item("beads", i, "mayor-decision", "attention").why = "mayor-decision"
        BY DEF Attending!Item
      <3> QED
        BY <1>4, <1>11, <3>1
    <2> QED
      BY <1>6, <2>1
  <1> QED
    BY <1>1, <1>8, <1>9, <1>10, <1>11, <1>12, <1>13 DEF Attending!EachNeedIsAskedOnce

\* The items: their domains and severities.
AreTheItems(items) == \A i \in items : i.domain \in Attending!ToSet(Attending!Domains) /\ i.severity \in Attending!ToSet(Attending!Severities)

LEMMA ItemsPlaceIs ==
    ASSUME NEW i, i.domain \in Attending!ToSet(Attending!Domains), i.severity \in Attending!ToSet(Attending!Severities)
    PROVE  Attending!Place(Attending!Severities, i.severity) \in 1 .. 3 /\ Attending!Place(Attending!Domains, i.domain) \in 1 .. 7
  <1>1. DOMAIN Attending!Severities = 1 .. 3 /\ DOMAIN Attending!Domains = 1 .. 7
    BY DEF Attending!Severities, Attending!Domains
  <1>2. (\E k \in DOMAIN Attending!Severities : Attending!Severities[k] = i.severity) /\ (\E k \in DOMAIN Attending!Domains : Attending!Domains[k] = i.domain)
    BY DEF Attending!ToSet
  <1> QED
    BY <1>1, <1>2 DEF Attending!Place

\* Of any items one comes before no other.
LEMMA ItemsLastExists ==
    ASSUME NEW some, some # {}, AreTheItems(some), NEW moved, \A d \in Attending!ToSet(Attending!Domains) : moved[d] \in Nat
    PROVE  \E i \in some : \A j \in some : ~Attending!Before(i, j, moved)
  <1> DEFINE s(i) == Attending!Place(Attending!Severities, i.severity)
             d(i) == Attending!Place(Attending!Domains, i.domain)
             m(i) == moved[i.domain]
  <1>1. \A i \in some : s(i) \in 0 .. 3 /\ d(i) \in 0 .. 7 /\ m(i) \in Nat
    BY ItemsPlaceIs DEF AreTheItems
  <1> HIDE DEF s, d, m
  <1>2. PICK k \in {s(i) : i \in some} : \A y \in {s(i) : i \in some} : y <= k
    <2>1. PICK T : T = {s(i) : i \in some}
      OBVIOUS
    <2>2. T \in SUBSET (0 .. 3) /\ T # {}
      BY <1>1, <2>1
    <2> QED
      BY <2>1, <2>2, GreatestExists
  <1>3. PICK A : A = {i \in some : s(i) = k}
    OBVIOUS
  <1>4. A # {} /\ A \subseteq some
    BY <1>2, <1>3
  <1>5. PICK l \in {m(i) : i \in A} : \A y \in {m(i) : i \in A} : l <= y
    <2>1. PICK T : T = {m(i) : i \in A}
      OBVIOUS
    <2>2. T \in SUBSET Nat /\ T # {}
      BY <1>1, <1>4, <2>1
    <2> QED
      BY <2>1, <2>2, LeastExists
  <1>6. PICK B : B = {i \in A : m(i) = l}
    OBVIOUS
  <1>7. B # {} /\ B \subseteq A
    BY <1>5, <1>6
  <1>8. PICK o \in {d(i) : i \in B} : \A y \in {d(i) : i \in B} : y <= o
    <2>1. PICK T : T = {d(i) : i \in B}
      OBVIOUS
    <2>2. T \in SUBSET (0 .. 7) /\ T # {}
      BY <1>1, <1>4, <1>7, <2>1
    <2> QED
      BY <2>1, <2>2, GreatestExists
  <1>9. PICK i \in B : d(i) = o
    BY <1>8
  <1>10. i \in some /\ s(i) = k /\ m(i) = l
    BY <1>3, <1>4, <1>6, <1>7, <1>9
  <1>11. ASSUME NEW j \in some PROVE ~Attending!Before(i, j, moved)
    <2>1. s(j) <= k
      BY <1>2
    <2>2. s(j) = k => l <= m(j)
      BY <1>3, <1>5
    <2>3. s(j) = k /\ m(j) = l => d(j) <= o
      BY <1>3, <1>6, <1>8
    <2>4. s(i) \in Nat /\ s(j) \in Nat /\ d(i) \in Nat /\ d(j) \in Nat /\ m(i) \in Nat /\ m(j) \in Nat
      BY <1>1, <1>10
    <2>5. Attending!Before(i, j, moved) <=>
            \/ s(i) < s(j)
            \/ s(i) = s(j) /\ m(i) > m(j)
            \/ s(i) = s(j) /\ m(i) = m(j) /\ d(i) < d(j)
      BY DEF Attending!Before, s, d, m
    <2> QED
      BY <1>9, <1>10, <2>1, <2>2, <2>3, <2>4, <2>5
  <1> QED
    BY <1>10, <1>11

\* None that is left out comes before one that is kept.
LEMMA ItemsForemostIs ==
    ASSUME NEW items, IsFiniteSet(items), AreTheItems(items), NEW moved, \A d \in Attending!ToSet(Attending!Domains) : moved[d] \in Nat,
           NEW k \in Nat
    PROVE  /\ Attending!Foremost(items, moved, k) \in SUBSET items
           /\ \A a \in Attending!Foremost(items, moved, k), b \in items \ Attending!Foremost(items, moved, k) : ~Attending!Before(b, a, moved)
  <1> DEFINE last(some) == CHOOSE i \in some : \A j \in some : ~Attending!Before(i, j, moved)
             butLast(some) == some \ {last(some)}
  <1>1. PICK n \in Nat : n = Cardinality(items)
    BY FS_CardinalityType
  <1>2. PICK U : U = SUBSET items
    OBVIOUS
  <1>3. PICK F : F = [some \in U |-> butLast(some)]
    OBVIOUS
  <1>4. items \in U /\ F \in [U -> U] /\ \A some \in U : F[some] = butLast(some)
    BY <1>2, <1>3
  <1>5. \A some \in U : some # {} => last(some) \in some /\ \A j \in some : ~Attending!Before(last(some), j, moved)
    <2>1. ASSUME NEW some \in U, some # {} PROVE \E i \in some : \A j \in some : ~Attending!Before(i, j, moved)
      BY <1>2, <2>1, ItemsLastExists DEF AreTheItems
    <2> QED
      BY <2>1
  <1> HIDE DEF last
  <1>6. Steps(n, U, items, F) # {}
    BY <1>4, RecursionExists
  <1>7. PICK made \in [0 .. n -> U] : made[0] = items /\ \A i \in 1 .. n : made[i] = F[made[i - 1]]
    BY <1>6 DEF Steps
  <1> DEFINE Is(f) == f = [i \in 0 .. n |-> IF i = 0 THEN items ELSE butLast(f[i - 1])]
  <1>8. \A i \in 0 .. n : i = 0 \/ (i \in 1 .. n /\ i - 1 \in 0 .. n)
    OBVIOUS
  <1>9. Is(made)
    <2>1. ASSUME NEW i \in 0 .. n PROVE made[i] = IF i = 0 THEN items ELSE butLast(made[i - 1])
      <3>1. CASE i = 0
        BY <1>7, <3>1
      <3>2. CASE i # 0
        <4>1. i \in 1 .. n /\ i - 1 \in 0 .. n
          BY <1>8, <3>2
        <4>2. made[i - 1] \in U /\ made[i] = F[made[i - 1]]
          BY <1>7, <4>1
        <4> HIDE DEF butLast
        <4> QED
          BY <1>4, <3>2, <4>2
      <3> QED
        BY <3>1, <3>2
    <2> HIDE DEF butLast
    <2> QED
      BY <1>7, <2>1
  <1> DEFINE left == CHOOSE f : Is(f)
  <1>10. Is(left)
    BY <1>9
  <1>11a. n = Attending!Cardinality(items)
    BY <1>1, BeadsSameSets
  <1>11. Attending!Foremost(items, moved, k) = IF n <= k THEN items ELSE left[n - k]
    BY <1>11a DEF Attending!Foremost, last
  <1> HIDE DEF left
  <1>12. left[0] = items /\ \A i \in 1 .. n : left[i] = butLast(left[i - 1])
    <2>1. \A i \in 1 .. n : i \in 0 .. n /\ i # 0
      OBVIOUS
    <2>2. 0 \in 0 .. n
      OBVIOUS
    <2> HIDE DEF butLast
    <2> QED
      BY <1>10, <2>1, <2>2
  <1> DEFINE Good(i) == left[i] \in SUBSET items /\ \A a \in left[i], b \in items \ left[i] : ~Attending!Before(b, a, moved)
  <1>13. \A i \in 0 .. n : Good(i)
    <2>1. PICK bad : bad = {i \in 0 .. n : ~Good(i)}
      OBVIOUS
    <2>2. SUFFICES ASSUME bad # {} PROVE FALSE
      BY <2>1
    <2>3. bad \in SUBSET Nat
      BY <2>1
    <2>4. PICK i \in bad : \A j \in bad : i <= j
      BY <2>2, <2>3, LeastExists
    <2>5. Good(0)
      BY <1>12
    <2>6. i \in 1 .. n /\ i - 1 \in 0 .. n /\ i - 1 \notin bad
      BY <1>8, <2>1, <2>4, <2>5
    <2>7. Good(i - 1)
      BY <2>1, <2>6
    <2>8. PICK before : before = left[i - 1]
      OBVIOUS
    <2>9. left[i] = before \ {last(before)}
      BY <1>12, <2>6, <2>8
    <2>10. before \in U /\ \A a \in before, b \in items \ before : ~Attending!Before(b, a, moved)
      BY <1>2, <2>7, <2>8
    <2>11. \A a \in left[i], b \in items \ left[i] : ~Attending!Before(b, a, moved)
      BY <1>5, <2>9, <2>10
    <2>12. Good(i)
      BY <1>2, <2>9, <2>10, <2>11
    <2> QED
      BY <2>1, <2>4, <2>12
  <1>14. CASE n <= k
    BY <1>11, <1>14
  <1>15. CASE ~(n <= k)
    <2>1. n - k \in 0 .. n
      BY <1>15
    <2> QED
      BY <1>11, <1>13, <1>15, <2>1
  <1> QED
    BY <1>14, <1>15

\* What an item of a domain looks like.
ItemShaped(i, domain, S, W) ==
    i = Attending!Item(domain, i.of, i.why, i.severity) /\ i.of \in S /\ i.why \in W /\ i.severity \in Attending!ToSet(Attending!Severities)

LEMMA ItemsSeveritiesAre == Attending!ToSet(Attending!Severities) = {"attention", "watch", "unavailable"}
  BY DEF Attending!ToSet, Attending!Severities

LEMMA ItemsShapedAre ==
    ASSUME NEW S, IsFiniteSet(S), NEW W, IsFiniteSet(W), NEW domain, NEW items, \A i \in items : ItemShaped(i, domain, S, W)
    PROVE  IsFiniteSet(items) /\ \A i \in items : i.domain = domain /\ i.severity \in Attending!ToSet(Attending!Severities)
  <1> DEFINE kinds(x, w) == {Attending!Item(domain, x, w, "attention"), Attending!Item(domain, x, w, "watch"), Attending!Item(domain, x, w, "unavailable")}
             own(x) == UNION {kinds(x, w) : w \in W}
             all == UNION {own(x) : x \in S}
  <1>1. \A x, w : IsFiniteSet(kinds(x, w))
    <2>1. ASSUME NEW x, NEW w PROVE IsFiniteSet(kinds(x, w))
      <3>1. PICK a, b, c : a = Attending!Item(domain, x, w, "attention") /\ b = Attending!Item(domain, x, w, "watch")
                           /\ c = Attending!Item(domain, x, w, "unavailable")
        OBVIOUS
      <3>2. IsFiniteSet({a, b, c, c, c})
        BY FewAreFinite
      <3>3. {a, b, c, c, c} = kinds(x, w)
        BY <3>1
      <3> QED
        BY <3>2, <3>3
    <2> QED
      BY <2>1
  <1> HIDE DEF kinds
  <1>2. \A x : IsFiniteSet(own(x))
    <2>1. ASSUME NEW x PROVE IsFiniteSet(own(x))
      <3>1. PICK f : f = [w \in W |-> kinds(x, w)]
        OBVIOUS
      <3>2. IsFiniteSet(UNION {f[w] : w \in W})
        BY <1>1, <3>1, FiniteUnion
      <3>3. {f[w] : w \in W} = {kinds(x, w) : w \in W}
        BY <3>1
      <3> QED
        BY <3>2, <3>3
    <2> QED
      BY <2>1
  <1>3. \A x \in S, w \in W : kinds(x, w) \subseteq all
    OBVIOUS
  <1> HIDE DEF own
  <1>4. IsFiniteSet(all)
    <2>1. PICK f : f = [x \in S |-> own(x)]
      OBVIOUS
    <2>2. IsFiniteSet(UNION {f[x] : x \in S})
      BY <1>2, <2>1, FiniteUnion
    <2>3. {f[x] : x \in S} = {own(x) : x \in S}
      BY <2>1
    <2> QED
      BY <2>2, <2>3
  <1> HIDE DEF all
  <1>5. ASSUME NEW i \in items PROVE i \in all
    <2>1. i \in kinds(i.of, i.why)
      BY ItemsSeveritiesAre DEF ItemShaped, kinds
    <2> QED
      BY <1>3, <2>1 DEF ItemShaped
  <1>6. ASSUME NEW i \in items PROVE i.domain = domain /\ i.severity \in Attending!ToSet(Attending!Severities)
    <2>1. Attending!Item(domain, i.of, i.why, i.severity).domain = domain
      BY DEF Attending!Item
    <2> QED
      BY <2>1 DEF ItemShaped
  <1> QED
    BY <1>4, <1>5, <1>6, FS_Subset

\* The items of each domain.
LEMMA ItemsItemFields ==
    ASSUME NEW domain, NEW of, NEW why, NEW severity
    PROVE  LET i == Attending!Item(domain, of, why, severity)
           IN  i.domain = domain /\ i.of = of /\ i.why = why /\ i.severity = severity
  BY DEF Attending!Item

LEMMA ItemsBeadItems ==
    ASSUME NEW beads, NEW i \in Attending!deriveBeads(beads)
    PROVE  ItemShaped(i, "beads", DOMAIN beads, {"mayor-decision", "escalated", "ready-unclaimed"})
  BY ItemsSeveritiesAre, ItemsItemFields DEF Attending!deriveBeads, ItemShaped, Attending!dedupeDecisionsBySlug, Attending!Queue, Attending!General

LEMMA ItemsAgentItems ==
    ASSUME NEW roster, NEW i \in Attending!deriveAgents(roster) PROVE ItemShaped(i, "agents", DOMAIN roster, {"needs-you"})
  <1>1. PICK seen : seen = [a \in DOMAIN roster |-> [roster[a] EXCEPT !.pending = Attending!Asked(roster[a])]]
    OBVIOUS
  <1>2. i \in {Attending!Item("agents", a, "needs-you", "attention") : a \in Attending!selectAgentsNeedingYou(seen)}
    BY <1>1 DEF Attending!deriveAgents
  <1>3. \A a \in Attending!selectAgentsNeedingYou(seen) : a \in DOMAIN roster
    BY <1>1 DEF Attending!selectAgentsNeedingYou
  <1> QED
    BY <1>2, <1>3, ItemsSeveritiesAre, ItemsItemFields DEF ItemShaped

LEMMA ItemsMailItems ==
    ASSUME NEW mail, NEW i \in Attending!deriveMail(mail) PROVE ItemShaped(i, "mail", DOMAIN mail, {"unread-stale", "unread"})
  BY ItemsSeveritiesAre, ItemsItemFields DEF Attending!deriveMail, ItemShaped, Attending!selectOperatorActionableUnread

LEMMA ItemsActivityItems ==
    ASSUME NEW signals, NEW deploys, NEW marker, NEW i \in Attending!deriveActivity(signals, deploys, marker)
    PROVE  ItemShaped(i, "activity", DOMAIN signals \cup (DOMAIN deploys \cup {"failed-marker"}),
                  {"event", "failed", "in-progress", "deploy"})
  BY ItemsSeveritiesAre, ItemsItemFields DEF Attending!deriveActivity, ItemShaped, Attending!supervisorEventSignal

LEMMA ItemsHealthItems ==
    ASSUME NEW levels, NEW starting, NEW status, NEW missing, NEW i \in Attending!deriveHealth(levels, starting, status, missing)
    PROVE  ItemShaped(i, "health", DOMAIN levels \cup (missing \cup {"process", "supervisor"}),
                  {"high", "elevated", "starting", "not-ok", "missing"})
  BY ItemsSeveritiesAre, ItemsItemFields DEF Attending!deriveHealth, ItemShaped, Attending!Band

LEMMA ItemsRunItems ==
    ASSUME NEW source, NEW i \in Attending!deriveRuns(source)
    PROVE  ItemShaped(i, "runs", (IF source.status = "error" THEN {} ELSE DOMAIN source.lanes) \cup {"source", "lanes"},
                  {"unavailable", "partial", "health-unavailable", "blocked", "stranded"})
  BY ItemsSeveritiesAre, ItemsItemFields DEF Attending!deriveRuns, ItemShaped

LEMMA ItemsTriageItems ==
    ASSUME NEW triage, NEW i \in Attending!deriveMaintainer(triage)
    PROVE  ItemShaped(i, "maintainer", DOMAIN triage, {"needs-you", "needs-triage", "slung"})
  BY ItemsSeveritiesAre, ItemsItemFields DEF Attending!deriveMaintainer, ItemShaped

LEMMA ItemsTroubleItems ==
    ASSUME NEW domain, NEW facts, NEW i \in Attending!Troubles(domain, facts)
    PROVE  ItemShaped(i, domain, DOMAIN facts \cup {"dashboard"}, {facts[r] : r \in DOMAIN facts} \cup {"unavailable"})
  BY ItemsSeveritiesAre, ItemsItemFields DEF Attending!Troubles, ItemShaped, Attending!Blames, Attending!Failed, Attending!Short

\* A domain's items: finitely many, of that domain and of the severities there are.
ItemsWhole(some, domain) == IsFiniteSet(some) /\ \A i \in some : i.domain = domain /\ i.severity \in Attending!ToSet(Attending!Severities)

LEMMA ItemsWholeIs ==
    ASSUME NEW S, IsFiniteSet(S), NEW W, NEW a, NEW b, NEW c, NEW d, NEW e, W \subseteq {a, b, c, d, e},
           NEW domain, NEW items, \A i \in items : ItemShaped(i, domain, S, W)
    PROVE  ItemsWhole(items, domain)
  <1>1. IsFiniteSet(W)
    BY FewAre
  <1> QED
    BY <1>1, ItemsShapedAre DEF ItemsWhole

LEMMA ItemsTroublesAreFinite ==
    ASSUME NEW domain, NEW answers, IsFiniteSet(DOMAIN answers) PROVE ItemsWhole(Attending!Troubles(domain, answers), domain)
  <1>1. PICK S : S = DOMAIN answers \cup {"dashboard"}
    OBVIOUS
  <1>2. PICK V : V = {answers[r] : r \in DOMAIN answers}
    OBVIOUS
  <1>3. PICK W : W = V \cup {"unavailable"}
    OBVIOUS
  <1>4. IsFiniteSet(S)
    BY <1>1, WithOne
  <1>5. IsFiniteSet(V)
    BY <1>2, ValuesAreFinite
  <1>6. IsFiniteSet(W)
    BY <1>3, <1>5, WithOne
  <1>7. \A i \in Attending!Troubles(domain, answers) : ItemShaped(i, domain, S, W)
    BY <1>1, <1>2, <1>3, ItemsTroubleItems
  <1> QED
    BY <1>4, <1>6, <1>7, ItemsShapedAre DEF ItemsWhole

\* What is asked of the operator: finitely much, each of a domain and a severity.
LEMMA ItemsAre ==
    ASSUME NEW facts, NEW moved, Attending!Gathered(facts, moved)
    PROVE  IsFiniteSet(Attending!attentionItems(facts)) /\ AreTheItems(Attending!attentionItems(facts))
  <1> DEFINE troubles == UNION {Attending!Troubles(d, facts.reads[d]) : d \in DOMAIN facts.reads}
  <1>1. ItemsWhole(Attending!deriveBeads(facts.beads), "beads")
    <2>1. PICK S : S = DOMAIN facts.beads
      OBVIOUS
    <2>2. IsFiniteSet(S)
      BY <2>1, BeadsSameSets DEF Attending!Gathered
    <2>3. PICK W : W = {"mayor-decision", "escalated", "ready-unclaimed"}
      OBVIOUS
    <2>4. \A i \in Attending!deriveBeads(facts.beads) : ItemShaped(i, "beads", S, W)
      BY <2>1, <2>3, ItemsBeadItems
    <2>5. \E a, b, c, d, e : W \subseteq {a, b, c, d, e}
      BY <2>3
    <2> QED
      BY <2>2, <2>4, <2>5, ItemsWholeIs
  <1>2. ItemsWhole(Attending!deriveAgents(facts.agents), "agents")
    <2>1. PICK S : S = DOMAIN facts.agents
      OBVIOUS
    <2>2. IsFiniteSet(S)
      BY <2>1, BeadsSameSets DEF Attending!Gathered
    <2>3. PICK W : W = {"needs-you"}
      OBVIOUS
    <2>4. \A i \in Attending!deriveAgents(facts.agents) : ItemShaped(i, "agents", S, W)
      BY <2>1, <2>3, ItemsAgentItems
    <2>5. \E a, b, c, d, e : W \subseteq {a, b, c, d, e}
      BY <2>3
    <2> QED
      BY <2>2, <2>4, <2>5, ItemsWholeIs
  <1>3. ItemsWhole(Attending!deriveMail(facts.mail), "mail")
    <2>1. PICK S : S = DOMAIN facts.mail
      OBVIOUS
    <2>2. IsFiniteSet(S)
      BY <2>1, BeadsSameSets DEF Attending!Gathered
    <2>3. PICK W : W = {"unread-stale", "unread"}
      OBVIOUS
    <2>4. \A i \in Attending!deriveMail(facts.mail) : ItemShaped(i, "mail", S, W)
      BY <2>1, <2>3, ItemsMailItems
    <2>5. \E a, b, c, d, e : W \subseteq {a, b, c, d, e}
      BY <2>3
    <2> QED
      BY <2>2, <2>4, <2>5, ItemsWholeIs
  <1>4. ItemsWhole(Attending!deriveActivity(facts.events, facts.deploys, facts.marker), "activity")
    <2>1. PICK S : S = DOMAIN facts.events \cup (DOMAIN facts.deploys \cup {"failed-marker"})
      OBVIOUS
    <2>2. IsFiniteSet(S)
      <3>1. PICK T : T = DOMAIN facts.deploys \cup {"failed-marker"}
        OBVIOUS
      <3>2. PICK E, D : E = DOMAIN facts.events /\ D = DOMAIN facts.deploys
        OBVIOUS
      <3>3. IsFiniteSet(E) /\ IsFiniteSet(D)
        BY <3>2, BeadsSameSets DEF Attending!Gathered
      <3>4. IsFiniteSet(T)
        BY <3>1, <3>2, <3>3, WithOne
      <3> QED
        BY <2>1, <3>1, <3>2, <3>3, <3>4, Together
    <2>3. PICK W : W = {"event", "failed", "in-progress", "deploy"}
      OBVIOUS
    <2>4. \A i \in Attending!deriveActivity(facts.events, facts.deploys, facts.marker) : ItemShaped(i, "activity", S, W)
      BY <2>1, <2>3, ItemsActivityItems
    <2>5. \E a, b, c, d, e : W \subseteq {a, b, c, d, e}
      BY <2>3
    <2> QED
      BY <2>2, <2>4, <2>5, ItemsWholeIs
  <1>5. ItemsWhole(Attending!deriveHealth(facts.levels, facts.starting, facts.status, facts.missing), "health")
    <2>1. PICK S : S = DOMAIN facts.levels \cup (facts.missing \cup {"process", "supervisor"})
      OBVIOUS
    <2>2. IsFiniteSet(S)
      <3>1. PICK T : T = {"process", "supervisor"}
        OBVIOUS
      <3>2. IsFiniteSet(T)
        BY <3>1, FewAre
      <3>3. PICK L, M : L = DOMAIN facts.levels /\ M = facts.missing
        OBVIOUS
      <3>4. IsFiniteSet(L) /\ IsFiniteSet(M)
        BY <3>3, BeadsSameSets DEF Attending!Gathered
      <3> QED
        BY <2>1, <3>1, <3>2, <3>3, <3>4, Together
    <2>3. PICK W : W = {"high", "elevated", "starting", "not-ok", "missing"}
      OBVIOUS
    <2>4. \A i \in Attending!deriveHealth(facts.levels, facts.starting, facts.status, facts.missing) : ItemShaped(i, "health", S, W)
      BY <2>1, <2>3, ItemsHealthItems
    <2>5. \E a, b, c, d, e : W \subseteq {a, b, c, d, e}
      BY <2>3
    <2> QED
      BY <2>2, <2>4, <2>5, ItemsWholeIs
  <1>6. ItemsWhole(Attending!deriveRuns(facts.runs), "runs")
    <2>1. PICK S : S = (IF facts.runs.status = "error" THEN {} ELSE DOMAIN facts.runs.lanes) \cup {"source", "lanes"}
      OBVIOUS
    <2>2. IsFiniteSet(S)
      <3>1. PICK T : T = {"source", "lanes"}
        OBVIOUS
      <3>2. IsFiniteSet(T)
        BY <3>1, FewAre
      <3>3. PICK L : L = IF facts.runs.status = "error" THEN {} ELSE DOMAIN facts.runs.lanes
        OBVIOUS
      <3>4. IsFiniteSet(L)
        BY <3>3, FS_EmptySet, BeadsSameSets DEF Attending!Gathered
      <3> QED
        BY <2>1, <3>1, <3>2, <3>3, <3>4, Together
    <2>3. PICK W : W = {"unavailable", "partial", "health-unavailable", "blocked", "stranded"}
      OBVIOUS
    <2>4. \A i \in Attending!deriveRuns(facts.runs) : ItemShaped(i, "runs", S, W)
      BY <2>1, <2>3, ItemsRunItems
    <2>5. \E a, b, c, d, e : W \subseteq {a, b, c, d, e}
      BY <2>3
    <2> QED
      BY <2>2, <2>4, <2>5, ItemsWholeIs
  <1>7. ItemsWhole(Attending!deriveMaintainer(facts.triage), "maintainer")
    <2>1. PICK S : S = DOMAIN facts.triage
      OBVIOUS
    <2>2. IsFiniteSet(S)
      BY <2>1, BeadsSameSets DEF Attending!Gathered
    <2>3. PICK W : W = {"needs-you", "needs-triage", "slung"}
      OBVIOUS
    <2>4. \A i \in Attending!deriveMaintainer(facts.triage) : ItemShaped(i, "maintainer", S, W)
      BY <2>1, <2>3, ItemsTriageItems
    <2>5. \E a, b, c, d, e : W \subseteq {a, b, c, d, e}
      BY <2>3
    <2> QED
      BY <2>2, <2>4, <2>5, ItemsWholeIs
  <1>8. \A d \in DOMAIN facts.reads : ItemsWhole(Attending!Troubles(d, facts.reads[d]), d)
    BY ItemsTroublesAreFinite, BeadsSameSets DEF Attending!Gathered
  <1>9. IsFiniteSet(troubles)
    <2>1. PICK f : f = [d \in DOMAIN facts.reads |-> Attending!Troubles(d, facts.reads[d])]
      OBVIOUS
    <2>2. \A d \in DOMAIN facts.reads : f[d] = Attending!Troubles(d, facts.reads[d])
      BY <2>1
    <2>3. PICK P : P = DOMAIN facts.reads
      OBVIOUS
    <2>4. P \subseteq {"agents", "beads", "mail", "activity", "health"} \cup {"maintainer"}
      BY <2>3 DEF Attending!Gathered, Attending!Polled, Attending!Reads
    <2>5. IsFiniteSet({"agents", "beads", "mail", "activity", "health"} \cup {"maintainer"})
      BY FewAreFinite, WithOne
    <2>6. IsFiniteSet(P)
      BY <2>4, <2>5, FS_Subset
    <2>7. IsFiniteSet(UNION {f[d] : d \in P})
      BY <1>8, <2>2, <2>3, <2>6, FiniteUnion DEF ItemsWhole
    <2>8. {f[d] : d \in DOMAIN facts.reads} = {Attending!Troubles(d, facts.reads[d]) : d \in DOMAIN facts.reads}
      BY <2>2
    <2> QED
      BY <2>3, <2>7, <2>8
  <1>10. Attending!ToSet(Attending!Domains) = {"agents", "beads", "runs", "mail", "activity", "health", "maintainer"}
    BY DEF Attending!ToSet, Attending!Domains
  <1>11. \A i \in troubles : i.domain \in Attending!ToSet(Attending!Domains) /\ i.severity \in Attending!ToSet(Attending!Severities)
    BY <1>8, <1>10 DEF Attending!Polled, Attending!Reads, ItemsWhole, Attending!Gathered
  <1> HIDE DEF troubles
  <1>12. Attending!attentionItems(facts) =
           Attending!deriveBeads(facts.beads) \cup Attending!deriveAgents(facts.agents) \cup Attending!deriveMail(facts.mail)
           \cup Attending!deriveActivity(facts.events, facts.deploys, facts.marker)
           \cup Attending!deriveHealth(facts.levels, facts.starting, facts.status, facts.missing)
           \cup Attending!deriveRuns(facts.runs) \cup Attending!deriveMaintainer(facts.triage) \cup troubles
    BY DEF Attending!attentionItems, troubles
  <1>13. IsFiniteSet(Attending!attentionItems(facts))
    BY <1>1, <1>2, <1>3, <1>4, <1>5, <1>6, <1>7, <1>9, <1>12, Together DEF ItemsWhole
  <1>14. AreTheItems(Attending!attentionItems(facts))
    BY <1>1, <1>2, <1>3, <1>4, <1>5, <1>6, <1>7, <1>10, <1>11, <1>12 DEF AreTheItems, ItemsWhole
  <1> QED
    BY <1>13, <1>14

\* The colour of a badge.
LEMMA ItemsCountIs ==
    ASSUME NEW items, IsFiniteSet(items), NEW severity
    PROVE  Attending!Counts(items, severity) > 0 <=> \E i \in items : i.severity = severity
  <1>1. PICK some : some = {i \in items : i.severity = severity}
    OBVIOUS
  <1>2. IsFiniteSet(some)
    BY <1>1, FS_Subset
  <1>3. Cardinality(some) \in Nat /\ (Cardinality(some) = 0 <=> some = {})
    BY <1>2, FS_CardinalityType, FS_EmptySet
  <1>4. Attending!Counts(items, severity) = Cardinality(some)
    BY <1>1, BeadsSameSets DEF Attending!Counts
  <1> QED
    BY <1>1, <1>3, <1>4

LEMMA ItemsColourIs ==
    ASSUME NEW items, IsFiniteSet(items)
    PROVE  Attending!badge(items).severity = IF \E i \in items : i.severity = "attention" THEN "attention"
                                   ELSE IF \E i \in items : i.severity = "watch" THEN "watch" ELSE None
  BY ItemsCountIs DEF Attending!badge

\* The items of the agents and of the beads.
LEMMA ItemsDomainIs ==
    ASSUME NEW facts, NEW d \in {"agents", "beads"} \cap DOMAIN facts.reads
    PROVE  Attending!Of(Attending!attentionItems(facts), d) = (IF d = "agents" THEN Attending!deriveAgents(facts.agents) ELSE Attending!deriveBeads(facts.beads))
                                          \cup Attending!Troubles(d, facts.reads[d])
  <1>1. \A i \in Attending!deriveBeads(facts.beads) : i.domain = "beads"
    BY ItemsBeadItems, ItemsItemFields DEF ItemShaped
  <1>2. \A i \in Attending!deriveAgents(facts.agents) : i.domain = "agents"
    BY ItemsAgentItems, ItemsItemFields DEF ItemShaped
  <1>3. \A i \in Attending!deriveMail(facts.mail) : i.domain = "mail"
    BY ItemsMailItems, ItemsItemFields DEF ItemShaped
  <1>4. \A i \in Attending!deriveActivity(facts.events, facts.deploys, facts.marker) : i.domain = "activity"
    BY ItemsActivityItems, ItemsItemFields DEF ItemShaped
  <1>5. \A i \in Attending!deriveHealth(facts.levels, facts.starting, facts.status, facts.missing) : i.domain = "health"
    BY ItemsHealthItems, ItemsItemFields DEF ItemShaped
  <1>6. \A i \in Attending!deriveRuns(facts.runs) : i.domain = "runs"
    BY ItemsRunItems, ItemsItemFields DEF ItemShaped
  <1>7. \A i \in Attending!deriveMaintainer(facts.triage) : i.domain = "maintainer"
    BY ItemsTriageItems, ItemsItemFields DEF ItemShaped
  <1>8. \A e : \A i \in Attending!Troubles(e, facts.reads[e]) : i.domain = e
    BY ItemsTroubleItems, ItemsItemFields DEF ItemShaped
  <1>9. ASSUME NEW i \in Attending!attentionItems(facts), i.domain = d
        PROVE  i \in (IF d = "agents" THEN Attending!deriveAgents(facts.agents) ELSE Attending!deriveBeads(facts.beads))
                     \cup Attending!Troubles(d, facts.reads[d])
    BY <1>1, <1>2, <1>3, <1>4, <1>5, <1>6, <1>7, <1>8, <1>9 DEF Attending!attentionItems
  <1>10. ASSUME NEW i \in (IF d = "agents" THEN Attending!deriveAgents(facts.agents) ELSE Attending!deriveBeads(facts.beads))
                          \cup Attending!Troubles(d, facts.reads[d])
         PROVE  i \in Attending!attentionItems(facts) /\ i.domain = d
    BY <1>1, <1>2, <1>8, <1>10 DEF Attending!attentionItems
  <1> QED
    BY <1>9, <1>10 DEF Attending!Of

\* What is counted does not depend on the reads that failed.
LEMMA ItemsFailedIsNotCounted ==
    ASSUME NEW d \in {"agents", "beads"}, NEW answers, NEW healed,
           healed = [r \in DOMAIN answers |-> IF answers[r] = "failed" THEN "ok" ELSE answers[r]],
           NEW severity \in {"attention", "watch"}, NEW i
    PROVE  i \in Attending!Troubles(d, answers) /\ i.severity = severity <=> i \in Attending!Troubles(d, healed) /\ i.severity = severity
  <1>1. \A r : Attending!Failed(d, r) = "unavailable"
    BY DEF Attending!Failed
  <1>2. \A r \in DOMAIN answers : answers[r] # "failed" => healed[r] = answers[r]
    OBVIOUS
  <1>3. \A r \in DOMAIN answers : healed[r] \notin {"failed", "ok"} => healed[r] = answers[r] /\ answers[r] # "failed"
    OBVIOUS
  <1>4. DOMAIN healed = DOMAIN answers /\ \A r \in DOMAIN answers : healed[r] # "failed"
    OBVIOUS
  <1>5. CASE d = "agents"
    <2>1. Attending!Short(d) = "unavailable"
      BY <1>5 DEF Attending!Short
    <2>2. \A j \in Attending!Troubles(d, answers) \cup Attending!Troubles(d, healed) : j.severity = "unavailable"
      BY <1>1, <2>1, ItemsItemFields DEF Attending!Troubles
    <2> QED
      BY <2>2
  <1>6. CASE d = "beads"
    <2>1. i \in Attending!Troubles(d, answers) /\ i.severity = severity <=>
            /\ \E r \in DOMAIN answers : answers[r] \notin {"ok", "failed"} /\ i = Attending!Item(d, r, answers[r], Attending!Short(d))
            /\ i.severity = severity
      BY <1>1, <1>6, ItemsItemFields DEF Attending!Troubles
    <2>2. i \in Attending!Troubles(d, healed) /\ i.severity = severity <=>
            /\ \E r \in DOMAIN healed : healed[r] \notin {"ok", "failed"} /\ i = Attending!Item(d, r, healed[r], Attending!Short(d))
            /\ i.severity = severity
      BY <1>1, <1>6, ItemsItemFields DEF Attending!Troubles
    <2> QED
      BY <1>2, <1>3, <1>4, <2>1, <2>2
  <1> QED
    BY <1>5, <1>6

LEMMA ItemsFailedIsSaid ==
    ASSUME NEW d \in {"agents", "beads"}, NEW answers, d = "agents" => "list" \in DOMAIN answers,
           NEW r \in DOMAIN answers, answers[r] = "failed"
    PROVE  \E i \in Attending!Troubles(d, answers) : i.severity = "unavailable"
  <1>1. PICK q \in DOMAIN answers : answers[q] = "failed" /\ (d = "agents" /\ q = "pending" => answers["list"] # "failed")
    OBVIOUS
  <1>2. Attending!Item(d, Attending!Blames(d, q), "unavailable", Attending!Failed(d, q)) \in Attending!Troubles(d, answers)
    BY <1>1 DEF Attending!Troubles
  <1>3. Attending!Failed(d, q) = "unavailable"
    BY DEF Attending!Failed
  <1> QED
    BY <1>2, <1>3, ItemsItemFields

\* The list, the overflow, the rows and the badges agree, for any facts.
LEMMA ItemsHold ==
    ASSUME NEW facts, NEW moved, Attending!Gathered(facts, moved) PROVE Attending!NothingUrgentIsHidden(facts, moved)
  <1> DEFINE items == Attending!attentionItems(facts)
             short == Attending!topItems(items, moved)
             hidden == Attending!groupOverflow(items, moved)
             rank(severity) == Attending!Place(<<"attention", "watch", None>>, severity)
             row(i) == {j \in items : j.domain = i.domain /\ j.of = i.of}
  <1>1. IsFiniteSet(items) /\ AreTheItems(items)
    BY ItemsAre
  <1>2. TopLimit \in Nat /\ None \notin {"attention", "watch"} /\ \A d \in Attending!ToSet(Attending!Domains) : moved[d] \in Nat
    BY DEF Attending!Gathered
  <1> HIDE DEF items
  <1>3. short \in SUBSET items /\ \A a \in short, b \in items \ short : ~Attending!Before(b, a, moved)
    BY <1>1, <1>2, ItemsForemostIs DEF Attending!topItems
  <1> HIDE DEF short
  <1>4. hidden = Attending!ByDomain(items \ short)
    BY DEF Attending!groupOverflow, short
  <1>5. DOMAIN hidden = {i.domain : i \in items \ short} /\ \A d \in DOMAIN hidden : hidden[d] = Attending!Of(items \ short, d)
    BY <1>4 DEF Attending!ByDomain
  <1> HIDE DEF hidden
  <1>6. short \cup UNION Attending!Range(hidden) = items
    <2>1. ASSUME NEW i \in items \ short PROVE i \in UNION Attending!Range(hidden)
      <3>1. i.domain \in DOMAIN hidden /\ i \in hidden[i.domain]
        BY <1>5, <2>1 DEF Attending!Of
      <3> QED
        BY <3>1 DEF Attending!Range
    <2>2. ASSUME NEW i \in UNION Attending!Range(hidden) PROVE i \in items
      BY <1>5, <2>2 DEF Attending!Range, Attending!Of
    <2> QED
      BY <1>3, <2>1, <2>2
  <1>7. ASSUME NEW a \in short, NEW d \in DOMAIN hidden, NEW b \in hidden[d]
        PROVE  /\ Attending!Place(Attending!Severities, a.severity) <= Attending!Place(Attending!Severities, b.severity)
               /\ a.severity = b.severity => moved[a.domain] >= moved[b.domain]
    <2>1. b \in items \ short /\ a \in items
      BY <1>3, <1>5 DEF Attending!Of
    <2>2. ~Attending!Before(b, a, moved)
      BY <1>3, <2>1
    <2>3. a.domain \in Attending!ToSet(Attending!Domains) /\ b.domain \in Attending!ToSet(Attending!Domains)
          /\ a.severity \in Attending!ToSet(Attending!Severities) /\ b.severity \in Attending!ToSet(Attending!Severities)
      BY <1>1, <2>1 DEF AreTheItems
    <2>4. Attending!Place(Attending!Severities, a.severity) \in Nat /\ Attending!Place(Attending!Severities, b.severity) \in Nat
      BY <2>3, ItemsPlaceIs
    <2>5. moved[a.domain] \in Nat /\ moved[b.domain] \in Nat
      BY <1>2, <2>3
    <2>6. ~(Attending!Place(Attending!Severities, b.severity) < Attending!Place(Attending!Severities, a.severity))
          /\ ~(Attending!Place(Attending!Severities, b.severity) = Attending!Place(Attending!Severities, a.severity) /\ moved[b.domain] > moved[a.domain])
      BY <2>2 DEF Attending!Before
    <2> QED
      BY <2>4, <2>5, <2>6
  <1>8. rank("attention") = 1 /\ rank("watch") = 2 /\ rank(None) = 3
    BY <1>2 DEF Attending!Place
  <1> HIDE DEF rank
  <1>9. ASSUME NEW i \in items
        PROVE  rank(Attending!resourceAttentionSeverity(items, i.domain, i.of)) >= rank(Attending!badge(Attending!Of(items, i.domain)).severity)
    <2>1. IsFiniteSet(row(i)) /\ IsFiniteSet(Attending!Of(items, i.domain))
      BY <1>1, FS_Subset DEF Attending!Of
    <2>2. row(i) \subseteq Attending!Of(items, i.domain)
      BY DEF Attending!Of
    <2>3. Attending!resourceAttentionSeverity(items, i.domain, i.of) = Attending!badge(row(i)).severity
      BY DEF Attending!resourceAttentionSeverity
    <2> HIDE DEF row
    <2>4. Attending!badge(row(i)).severity = IF \E j \in row(i) : j.severity = "attention" THEN "attention"
                                   ELSE IF \E j \in row(i) : j.severity = "watch" THEN "watch" ELSE None
      BY <2>1, ItemsColourIs
    <2>5. Attending!badge(Attending!Of(items, i.domain)).severity =
            IF \E j \in Attending!Of(items, i.domain) : j.severity = "attention" THEN "attention"
            ELSE IF \E j \in Attending!Of(items, i.domain) : j.severity = "watch" THEN "watch" ELSE None
      BY <2>1, ItemsColourIs
    <2> QED
      BY <1>8, <2>2, <2>3, <2>4, <2>5
  <1>10. ASSUME NEW d \in {"agents", "beads"} \cap DOMAIN facts.reads, "failed" \in Attending!Range(facts.reads[d])
         PROVE  /\ \E i \in Attending!Of(items, d) : i.severity = "unavailable"
                /\ Attending!badge(Attending!Of(items, d)) = Attending!badge(Attending!Of(Attending!attentionItems(Attending!Healed(facts)), d))
    <2>1. PICK r \in DOMAIN facts.reads[d] : facts.reads[d][r] = "failed"
      BY <1>10 DEF Attending!Range
    <2>2. d = "agents" => "list" \in DOMAIN facts.reads[d]
      BY DEF Attending!Gathered
    <2>3. \E i \in Attending!Troubles(d, facts.reads[d]) : i.severity = "unavailable"
      BY <2>1, <2>2, ItemsFailedIsSaid
    <2>4. PICK own : own = IF d = "agents" THEN Attending!deriveAgents(facts.agents) ELSE Attending!deriveBeads(facts.beads)
      OBVIOUS
    <2>5. Attending!Of(items, d) = own \cup Attending!Troubles(d, facts.reads[d])
      BY <2>4, ItemsDomainIs DEF items
    <2>6. PICK h : h = Attending!Healed(facts)
      OBVIOUS
    <2>7. /\ DOMAIN h.reads = DOMAIN facts.reads
          /\ h.reads[d] = [q \in DOMAIN facts.reads[d] |->
                             IF facts.reads[d][q] = "failed" THEN "ok" ELSE facts.reads[d][q]]
          /\ h.agents = facts.agents /\ h.beads = facts.beads
      BY <2>6 DEF Attending!Healed
    <2>8. Attending!Of(Attending!attentionItems(h), d) = own \cup Attending!Troubles(d, h.reads[d])
      BY <2>4, <2>7, ItemsDomainIs
    <2>9. ASSUME NEW severity \in {"attention", "watch"}
          PROVE  {i \in Attending!Of(items, d) : i.severity = severity}
                   = {i \in Attending!Of(Attending!attentionItems(h), d) : i.severity = severity}
      <3>1. \A i : i \in Attending!Troubles(d, facts.reads[d]) /\ i.severity = severity
                     <=> i \in Attending!Troubles(d, h.reads[d]) /\ i.severity = severity
        BY <2>7, ItemsFailedIsNotCounted
      <3> QED
        BY <2>5, <2>8, <3>1
    <2>10. \A severity \in {"attention", "watch"} :
             Attending!Counts(Attending!Of(items, d), severity) = Attending!Counts(Attending!Of(Attending!attentionItems(h), d), severity)
      BY <2>9 DEF Attending!Counts
    <2>11. Attending!badge(Attending!Of(items, d)) = Attending!badge(Attending!Of(Attending!attentionItems(h), d))
      BY <2>10 DEF Attending!badge
    <2> QED
      BY <2>3, <2>5, <2>6, <2>11
  <1> QED
    BY <1>6, <1>7, <1>9, <1>10 DEF Attending!NothingUrgentIsHidden, items, short, hidden, rank

(***************************************************************************)
(* Links and sessions (Links), and the session tab of a node (RunDetail).  *)
(***************************************************************************)
LEMMA RelatedLiveIs == ASSUME NEW city, NEW page, NEW b
                PROVE  b \in Linked!Live(city, page) <=> b \in page /\ b \notin Linked!markSuperseded(city, page)
  BY DEF Linked!Live

\* The links of a bead, by kind.
LEMMA RelatedLinkOf ==
    ASSUME NEW city, NEW page, NEW sessions, Linked!Told(city, page, sessions), NEW b \in page
    PROVE  LET links == Linked!buildLinkView(city, page, sessions, b).links
               live == Linked!Live(city, page)
           IN  /\ b \notin live => links = {}
               /\ \A link \in links :
                    /\ b \in live
                    /\ \/ /\ link.relation = "parent" /\ link.to = city[b].parent
                          /\ link.resolved = (city[b].parent \in live)
                       \/ link.relation \in {"child", "molecule"} /\ link.to \in live
                       \/ link.relation = "pr" /\ ~link.resolved
                       \/ link.relation = "session" /\ link.resolved = (link.to \in sessions)
               /\ \A c : Linked!Link(c, "child", TRUE) \in links <=> b \in live /\ c \in Linked!childrenOf(city, page, b) \ {b}
               /\ \A c : Linked!Link(c, "parent", TRUE) \in links
                           <=> b \in live /\ city[b].parent # None /\ city[b].parent = c /\ c \in live
  <1>1. PICK live : live = Linked!Live(city, page)
    OBVIOUS
  <1>2. PICK links : links = Linked!buildLinkView(city, page, sessions, b).links
    OBVIOUS
  <1>3. b[1] # "pr" /\ live \subseteq page
    BY <1>1, RelatedLiveIs DEF Linked!Told
  <1>4. CASE b \notin live
    <2>1. links = {}
      BY <1>1, <1>2, <1>3, <1>4 DEF Linked!buildLinkView
    <2> QED
      BY <1>1, <1>2, <1>4, <2>1
  <1>5. CASE b \in live
    <2>1. links = Linked!addBeadEdges(city, page, sessions, b)
      BY <1>1, <1>2, <1>3, <1>5 DEF Linked!buildLinkView
    <2>2. PICK parents, children, kin, prs, held :
            /\ links = parents \cup children \cup kin \cup prs \cup held
            /\ parents = (IF city[b].parent = None THEN {} ELSE {Linked!Link(city[b].parent, "parent", city[b].parent \in live)})
            /\ children = Linked!linkBeads(Linked!childrenOf(city, page, b) \ {b}, "child")
            /\ kin = (IF city[b].molecule = None THEN {}
                      ELSE Linked!linkBeads((Linked!membersOfMolecule(city, page, city[b].molecule) \cup ({city[b].molecule} \cap live)) \ {b},
                                     "molecule"))
            /\ prs = (IF city[b].pr = None THEN {} ELSE {Linked!Link(city[b].pr, "pr", FALSE)})
            /\ held = (IF city[b].session = None THEN {} ELSE {Linked!Link(city[b].session, "session", city[b].session \in sessions)})
      BY <1>1, <2>1 DEF Linked!addBeadEdges
    <2>0. \A to, relation, resolved :
            /\ Linked!Link(to, relation, resolved).to = to /\ Linked!Link(to, relation, resolved).relation = relation
            /\ Linked!Link(to, relation, resolved).resolved = resolved
      BY DEF Linked!Link
    <2>3. \A link \in parents : /\ link.relation = "parent" /\ link.to = city[b].parent
                                /\ link.resolved = (city[b].parent \in live)
      BY <2>0, <2>2
    <2>4. \A link \in children : link.relation = "child" /\ link.to \in live
      BY <1>1, <2>2 DEF Linked!linkBeads, Linked!Link, Linked!childrenOf
    <2>5. \A link \in kin : link.relation = "molecule" /\ link.to \in live
      BY <1>1, <2>2 DEF Linked!linkBeads, Linked!Link, Linked!membersOfMolecule
    <2>6. \A link \in prs : link.relation = "pr" /\ ~link.resolved
      BY <2>2 DEF Linked!Link
    <2>7. \A link \in held : link.relation = "session" /\ link.resolved = (link.to \in sessions)
      BY <2>0, <2>2
    <2>8. ASSUME NEW c PROVE Linked!Link(c, "child", TRUE) \in links <=> c \in Linked!childrenOf(city, page, b) \ {b}
      <3>1. Linked!Link(c, "child", TRUE) \in links <=> Linked!Link(c, "child", TRUE) \in children
        BY <2>2, <2>3, <2>5, <2>6, <2>7 DEF Linked!Link
      <3>2. Linked!Link(c, "child", TRUE) \in children <=> c \in Linked!childrenOf(city, page, b) \ {b}
        BY <2>2 DEF Linked!linkBeads, Linked!Link
      <3> QED
        BY <3>1, <3>2
    <2>9. ASSUME NEW c PROVE Linked!Link(c, "parent", TRUE) \in links
                              <=> city[b].parent # None /\ city[b].parent = c /\ c \in live
      <3>1. Linked!Link(c, "parent", TRUE) \in links <=> Linked!Link(c, "parent", TRUE) \in parents
        BY <2>2, <2>4, <2>5, <2>6, <2>7 DEF Linked!Link
      <3>2. Linked!Link(c, "parent", TRUE) \in parents <=> city[b].parent # None /\ city[b].parent = c /\ c \in live
        BY <2>2 DEF Linked!Link
      <3> QED
        BY <3>1, <3>2
    <2>10. \A link \in links :
                    \/ /\ link.relation = "parent" /\ link.to = city[b].parent
                       /\ link.resolved = (city[b].parent \in live)
                    \/ link.relation \in {"child", "molecule"} /\ link.to \in live
                    \/ link.relation = "pr" /\ ~link.resolved
                    \/ link.relation = "session" /\ link.resolved = (link.to \in sessions)
      BY <2>2, <2>3, <2>4, <2>5, <2>6, <2>7
    <2> QED
      BY <1>1, <1>2, <1>5, <2>8, <2>9, <2>10
  <1> QED
    BY <1>4, <1>5

LEMMA RelatedLinksHold ==
    ASSUME NEW city, NEW page, NEW sessions, Linked!Told(city, page, sessions)
    PROVE  Linked!LinksAreTrue(city, page, sessions)
  <1> DEFINE View(b) == Linked!buildLinkView(city, page, sessions, b)
             Links(b) == View(b).links
             live == Linked!Live(city, page)
             retired == Linked!markSuperseded(city, page)
  <1>1. ASSUME NEW b \in page
        PROVE  /\ b \notin live => Links(b) = {}
               /\ \A link \in Links(b) :
                    /\ b \in live
                    /\ \/ /\ link.relation = "parent" /\ link.to = city[b].parent
                          /\ link.resolved = (city[b].parent \in live)
                       \/ link.relation \in {"child", "molecule"} /\ link.to \in live
                       \/ link.relation = "pr" /\ ~link.resolved
                       \/ link.relation = "session" /\ link.resolved = (link.to \in sessions)
               /\ \A c : Linked!Link(c, "child", TRUE) \in Links(b) <=> b \in live /\ c \in Linked!childrenOf(city, page, b) \ {b}
               /\ \A c : Linked!Link(c, "parent", TRUE) \in Links(b)
                           <=> b \in live /\ city[b].parent # None /\ city[b].parent = c /\ c \in live
    BY RelatedLinkOf
  <1>2. \A b \in page : ~View(b).partial => page = DOMAIN city
    BY DEF Linked!buildLinkView, Linked!listIsIncomplete, Linked!Told
  <1>3. \A b : b \in live <=> b \in page /\ b \notin retired
    BY RelatedLiveIs
  <1>4. retired \subseteq page /\ page \cap sessions = {} /\ None \notin page
    BY DEF Linked!Told, Linked!markSuperseded
  <1>5. \A b, c : c \in Linked!childrenOf(city, page, b) <=> c \in live /\ city[c].parent = b
    BY DEF Linked!childrenOf
  <1> HIDE DEF View, Links, live, retired
  <1>6. ASSUME NEW b \in page, NEW link \in Links(b), link.resolved PROVE link.to \notin retired
    <2>1. \/ link.to = city[b].parent /\ city[b].parent \in live
          \/ link.to \in live
          \/ link.to \in sessions
      BY <1>1, <1>6
    <2> QED
      BY <1>3, <1>4, <2>1
  <1>7. \A b \in page \cap retired : Links(b) = {}
    BY <1>1, <1>3
  <1>8. ASSUME NEW b \in page, NEW c \in page, b # c
        PROVE  Linked!Link(c, "child", TRUE) \in Links(b) <=> Linked!Link(b, "parent", TRUE) \in Links(c)
    <2>1. Linked!Link(c, "child", TRUE) \in Links(b) <=> b \in live /\ c \in Linked!childrenOf(city, page, b) \ {b}
      BY <1>1
    <2>2. Linked!Link(b, "parent", TRUE) \in Links(c) <=> c \in live /\ city[c].parent # None /\ city[c].parent = b /\ b \in live
      BY <1>1
    <2> QED
      BY <1>4, <1>5, <1>8, <2>1, <2>2
  <1>9. ASSUME NEW b \in page, ~View(b).partial, NEW link \in Links(b)
        PROVE  /\ link.relation = "parent" /\ ~link.resolved => link.to \notin Linked!Live(city, DOMAIN city)
               /\ link.relation \in {"parent", "child", "molecule"} /\ link.resolved => link.to \in Linked!Live(city, DOMAIN city)
    <2>1. Linked!Live(city, DOMAIN city) = live
      BY <1>2, <1>9 DEF live
    <2> QED
      BY <1>1, <1>9, <2>1
  <1> USE DEF View, Links, live, retired
  <1>10. /\ \A b \in page : \A link \in View(b).links : link.resolved => link.to \notin retired
         /\ \A b \in page \cap retired : View(b).links = {}
         /\ \A b, c \in page : b # c =>
              (Linked!Link(c, "child", TRUE) \in View(b).links <=> Linked!Link(b, "parent", TRUE) \in View(c).links)
         /\ \A b \in page : ~View(b).partial =>
              /\ \A link \in View(b).links : link.relation = "parent" /\ ~link.resolved =>
                   link.to \notin Linked!Live(city, DOMAIN city)
              /\ \A link \in View(b).links : link.relation \in {"parent", "child", "molecule"} /\ link.resolved =>
                   link.to \in Linked!Live(city, DOMAIN city)
    BY <1>6, <1>7, <1>8, <1>9
  <1> QED
    BY <1>10 DEF Linked!LinksAreTrue

LEMMA RelatedTargetHolds ==
    ASSUME NEW sessions, NEW target, DOMAIN sessions \in SUBSET Nat, None \notin DOMAIN sessions
    PROVE  Linked!TargetIsFound(sessions, target)
  <1> DEFINE Matching == {i \in DOMAIN sessions : Linked!matchesSessionTarget(sessions[i], target)}
             Active == {i \in Matching : sessions[i].state = "active"}
             First(set) == CHOOSE i \in set : \A j \in set : i <= j
             found == Linked!resolveSessionForTarget(sessions, target)
  <1>1. ASSUME NEW S \in SUBSET DOMAIN sessions, S # {} PROVE First(S) \in S /\ \A j \in S : First(S) <= j
    BY <1>1, LeastExists
  <1>2. found = IF Active # {} THEN First(Active) ELSE IF Matching # {} THEN First(Matching) ELSE None
    BY DEF Linked!resolveSessionForTarget
  <1>3. Active \in SUBSET DOMAIN sessions /\ Matching \in SUBSET DOMAIN sessions
    OBVIOUS
  <1>4. SUFFICES ASSUME NEW i \in Matching
                 PROVE  /\ found # None /\ Linked!matchesSessionTarget(sessions[found], target)
                        /\ sessions[i].state = "active" => sessions[found].state = "active" /\ found <= i
    BY DEF Linked!TargetIsFound
  <1>5. CASE Active # {}
    <2>1. found \in Active /\ \A j \in Active : found <= j
      BY <1>1, <1>2, <1>3, <1>5
    <2> QED
      BY <2>1
  <1>6. CASE Active = {}
    <2>1. found \in Matching
      BY <1>1, <1>2, <1>3, <1>6
    <2> QED
      BY <1>6, <2>1
  <1> QED
    BY <1>5, <1>6

\* The finite sets of the instance are those of the module.
LEMMA RelatedSameSets == ASSUME NEW S
    PROVE  (Linked!IsFiniteSet(S) <=> IsFiniteSet(S)) /\ Linked!Cardinality(S) = Cardinality(S)
  <1>1. Linked!IsFiniteSet(S) <=> IsFiniteSet(S)
    BY DEF Linked!IsFiniteSet, IsFiniteSet
  <1>2. Linked!Cardinality(S) = Cardinality(S)
    BY DEF Linked!Cardinality, Cardinality
  <1> QED
    BY <1>1, <1>2

\* A walk down from a root, step by step.
Walked(city, page, root, n, reach) ==
    /\ Linked!descendantsOf(city, page, root) = reach[n] \ {root}
    /\ reach[0] = {root}
    /\ \A i \in 1 .. n : reach[i] = reach[i - 1] \cup
         {c \in page : city[c].parent \in reach[i - 1] /\ city[c].parent # c}
    /\ \A c \in page : city[c].parent \in reach[n] => c \in reach[n]

\* The walk down from a root: what it comes to is closed, and is reached from
\* the root step by step.
LEMMA ConvoyDescendantsAre ==
    ASSUME NEW city, NEW page, NEW root \in page, IsFiniteSet(page)
    PROVE  \E n \in Nat : \E reach \in [0 .. n -> SUBSET page] : Walked(city, page, root, n, reach)
  <1> DEFINE below(beads) == {c \in page : city[c].parent \in beads /\ city[c].parent # c}
  <1>1. PICK n \in Nat : n = Cardinality(page)
    BY FS_CardinalityType
  <1>2. PICK F : F = [S \in SUBSET page |-> S \cup below(S)]
    OBVIOUS
  <1>3. F \in [SUBSET page -> SUBSET page] /\ \A S \in SUBSET page : F[S] = S \cup below(S)
    BY <1>2
  <1>4. PICK made \in [0 .. n -> SUBSET page] : made[0] = {root} /\ \A i \in 1 .. n : made[i] = F[made[i - 1]]
    <2>1. PICK U : U = SUBSET page
      OBVIOUS
    <2>2. PICK X : X = {root}
      OBVIOUS
    <2>3. X \in U /\ F \in [U -> U]
      BY <1>3, <2>1, <2>2
    <2>4. Steps(n, U, X, F) # {}
      BY <2>3, RecursionExists
    <2> QED
      BY <2>1, <2>2, <2>4 DEF Steps
  <1> DEFINE Is(f) == f = [i \in 0 .. n |-> IF i = 0 THEN {root} ELSE f[i - 1] \cup below(f[i - 1])]
  <1>5. Is(made)
    <2>1. \A i \in 0 .. n : i = 0 \/ (i \in 1 .. n /\ i - 1 \in 0 .. n)
      OBVIOUS
    <2>2. \A i \in 0 .. n : made[i] = IF i = 0 THEN {root} ELSE made[i - 1] \cup below(made[i - 1])
      BY <1>3, <1>4, <2>1
    <2> QED
      BY <1>4, <2>2
  <1> DEFINE reach == CHOOSE f : Is(f)
  <1>6. Is(reach)
    BY <1>5
  <1>7a. n = Linked!Cardinality(page)
    BY <1>1, RelatedSameSets
  <1>7. Linked!descendantsOf(city, page, root) = reach[n] \ {root}
    BY <1>7a DEF Linked!descendantsOf
  <1> HIDE DEF reach
  <1>8. reach[0] = {root} /\ \A i \in 1 .. n : reach[i] = reach[i - 1] \cup below(reach[i - 1])
    <2>1. \A i \in 1 .. n : i \in 0 .. n /\ i # 0
      OBVIOUS
    <2> QED
      BY <1>6, <2>1
  <1>9. reach \in [0 .. n -> SUBSET page]
    <2> DEFINE Within(i) == reach[i] \in SUBSET page
    <2>1. PICK bad : bad = {i \in 0 .. n : ~Within(i)}
      OBVIOUS
    <2>2. CASE bad = {}
      BY <1>6, <2>1, <2>2
    <2>3. CASE bad # {}
      <3>1. PICK i \in bad : \A j \in bad : i <= j
        BY <2>1, <2>3, LeastExists
      <3>2. i \in 1 .. n /\ i - 1 \in 0 .. n /\ i - 1 \notin bad
        BY <1>8, <2>1, <3>1
      <3>3. Within(i)
        BY <1>8, <2>1, <3>2
      <3> QED
        BY <2>1, <3>1, <3>3
    <2> QED
      BY <2>2, <2>3
  <1>10. n > 0 /\ reach[n] = reach[n - 1]
    <2>1. \A i \in 1 .. n : reach[i - 1] \subseteq reach[i]
      BY <1>8
    <2>2. \A i \in 1 .. n - 1 : reach[i] = reach[i - 1] => reach[i + 1] = reach[i]
      <3>1. ASSUME NEW i \in 1 .. n - 1, reach[i] = reach[i - 1] PROVE reach[i + 1] = reach[i]
        <4>1. i \in 1 .. n /\ i + 1 \in 1 .. n /\ (i + 1) - 1 = i
          OBVIOUS
        <4>2. reach[i + 1] = reach[i] \cup below(reach[i]) /\ reach[i] = reach[i - 1] \cup below(reach[i - 1])
          BY <1>8, <4>1
        <4> QED
          BY <3>1, <4>2
      <3> QED
        BY <3>1
    <2>3. reach[0] # {} /\ Cardinality(page) <= n
      BY <1>1, <1>8
    <2> QED
      BY <1>9, <2>1, <2>2, <2>3, GrowthEnds
  <1>11. reach[n] = reach[n] \cup below(reach[n])
    <2>1. n \in 1 .. n
      BY <1>10
    <2> QED
      BY <1>8, <1>10, <2>1
  <1>12. \A c \in page : city[c].parent \in reach[n] => c \in reach[n]
    BY <1>11
  <1> QED
    BY <1>7, <1>8, <1>9, <1>12 DEF Walked

\* So it is the least set that is closed.
LEMMA ConvoyDescendantsAreLeast ==
    ASSUME NEW city, NEW page, NEW root \in page, IsFiniteSet(page)
    PROVE  \E down \in SUBSET page :
             /\ Linked!descendantsOf(city, page, root) = down \ {root}
             /\ root \in down
             /\ \A c \in page : city[c].parent \in down => c \in down
             /\ \A S : root \in S /\ (\A c \in page : city[c].parent \in S => c \in S) => down \subseteq S
  <1>1. PICK n \in Nat : \E reach \in [0 .. n -> SUBSET page] : Walked(city, page, root, n, reach)
    BY ConvoyDescendantsAre
  <1>2. PICK reach \in [0 .. n -> SUBSET page] : Walked(city, page, root, n, reach)
    BY <1>1
  <1> USE DEF Walked
  <1>3. ASSUME NEW S, root \in S, \A c \in page : city[c].parent \in S => c \in S
        PROVE  \A i \in 0 .. n : reach[i] \subseteq S
    <2>1. PICK bad : bad = {i \in 0 .. n : ~(reach[i] \subseteq S)}
      OBVIOUS
    <2>2. SUFFICES ASSUME bad # {} PROVE FALSE
      BY <2>1
    <2>0. bad \in SUBSET Nat
      BY <2>1
    <2>3. PICK i \in bad : \A j \in bad : i <= j
      BY <2>0, <2>2, LeastExists
    <2>4. i \in 1 .. n /\ i - 1 \in 0 .. n /\ i - 1 \notin bad
      BY <1>2, <1>3, <2>1, <2>3
    <2>5. reach[i - 1] \subseteq S
      BY <2>1, <2>4
    <2>6. reach[i] \subseteq S
      BY <1>2, <1>3, <2>4, <2>5
    <2> QED
      BY <2>1, <2>3, <2>6
  <1>4. n \in 0 .. n /\ 0 \in 0 .. n
    OBVIOUS
  <1>5. \A i \in 1 .. n : reach[i - 1] \subseteq reach[i]
    BY <1>2
  <1>6. \A i \in 0 .. n : root \in reach[i]
    <2>1. PICK bad : bad = {i \in 0 .. n : root \notin reach[i]}
      OBVIOUS
    <2>2. SUFFICES ASSUME bad # {} PROVE FALSE
      BY <2>1
    <2>0. bad \in SUBSET Nat
      BY <2>1
    <2>3. PICK i \in bad : \A j \in bad : i <= j
      BY <2>0, <2>2, LeastExists
    <2>4. i \in 1 .. n /\ i - 1 \in 0 .. n /\ i - 1 \notin bad
      BY <1>2, <2>1, <2>3
    <2> QED
      BY <1>5, <2>1, <2>3, <2>4
  <1>7. reach[n] \in SUBSET page
    BY <1>2, <1>4
  <1> QED
    BY <1>2, <1>3, <1>4, <1>6, <1>7

\* The way up from a bead: the least set that has its parent and those of all
\* that are in it.
LEMMA ConvoyUnderIs ==
    ASSUME NEW city, IsFiniteSet(DOMAIN city), NEW root
    PROVE  \E up \in [DOMAIN city -> SUBSET DOMAIN city] :
             /\ Linked!Under(city, root) = {b \in DOMAIN city \ {root} : root \in up[b]}
             /\ \A b \in DOMAIN city : \A a \in {b} \cup up[b] :
                  city[a].parent \in DOMAIN city => city[a].parent \in up[b]
             /\ \A b \in DOMAIN city, S \in SUBSET DOMAIN city :
                  (\A a \in {b} \cup S : city[a].parent \in DOMAIN city => city[a].parent \in S)
                    => up[b] \subseteq S
  <1> DEFINE above(b) == {city[b].parent} \cap DOMAIN city
             Ups(S) == UNION {above(a) : a \in S}
             wider(g) == [b \in DOMAIN city |-> g[b] \cup Ups(g[b])]
  <1>1. PICK n \in Nat : n = Cardinality(DOMAIN city)
    BY FS_CardinalityType
  <1>2. PICK U : U = [DOMAIN city -> SUBSET DOMAIN city]
    OBVIOUS
  <1>3. PICK F : F = [g \in U |-> wider(g)]
    OBVIOUS
  <1>4. PICK X : X = [b \in DOMAIN city |-> above(b)]
    OBVIOUS
  <1>5. X \in U /\ F \in [U -> U] /\ \A g \in U : F[g] = wider(g)
    BY <1>2, <1>3, <1>4
  <1>6. Steps(n, U, X, F) # {}
    BY <1>5, RecursionExists
  <1>7. PICK made \in [0 .. n -> U] : made[0] = X /\ \A i \in 1 .. n : made[i] = F[made[i - 1]]
    BY <1>6 DEF Steps
  <1> DEFINE Is(f) == f = [i \in 0 .. n |->
                [b \in DOMAIN city |->
                   IF i = 0 THEN above(b)
                   ELSE f[i - 1][b] \cup Ups(f[i - 1][b])]]
  <1>8. \A i \in 0 .. n : i = 0 \/ (i \in 1 .. n /\ i - 1 \in 0 .. n)
    OBVIOUS
  <1>9. Is(made)
    <2>1. ASSUME NEW i \in 0 .. n
          PROVE  made[i] = [b \in DOMAIN city |->
                   IF i = 0 THEN above(b)
                   ELSE made[i - 1][b] \cup Ups(made[i - 1][b])]
      <3>1. CASE i = 0
        BY <1>4, <1>7, <3>1
      <3>2. CASE i # 0
        <4>1. i \in 1 .. n /\ i - 1 \in 0 .. n
          BY <1>8, <3>2
        <4>2. made[i - 1] \in U /\ made[i] = F[made[i - 1]]
          BY <1>7, <4>1
        <4>3. made[i] = wider(made[i - 1])
          BY <1>5, <4>2
        <4> QED
          BY <3>2, <4>3
      <3> QED
        BY <3>1, <3>2
    <2> HIDE DEF above, Ups
    <2> QED
      BY <1>7, <2>1
  <1> DEFINE lead == CHOOSE f : Is(f)
  <1>10. Is(lead)
    BY <1>9
  <1>11a. n = Linked!Cardinality(DOMAIN city)
    BY <1>1, RelatedSameSets
  <1>11. Linked!Under(city, root) = {b \in DOMAIN city \ {root} : root \in lead[n][b]}
    BY <1>11a DEF Linked!Under
  <1> HIDE DEF lead
  <1>12. /\ lead[0] = [b \in DOMAIN city |-> above(b)]
         /\ \A i \in 1 .. n : lead[i] = [b \in DOMAIN city |->
              lead[i - 1][b] \cup Ups(lead[i - 1][b])]
    <2>1. \A i \in 1 .. n : i \in 0 .. n /\ i # 0
      OBVIOUS
    <2>2. 0 \in 0 .. n
      OBVIOUS
    <2> HIDE DEF above, Ups
    <2> QED
      BY <1>10, <2>1, <2>2
  <1>13. ASSUME NEW b \in DOMAIN city, NEW S \in SUBSET DOMAIN city,
                \A a \in {b} \cup S : city[a].parent \in DOMAIN city => city[a].parent \in S
         PROVE  \A i \in 0 .. n : lead[i][b] \subseteq S
    <2>9. \A a \in {b} \cup S : above(a) \subseteq S
      BY <1>13
    <2> HIDE DEF above, Ups
    <2>1. PICK bad : bad = {i \in 0 .. n : ~(lead[i][b] \subseteq S)}
      OBVIOUS
    <2>2. SUFFICES ASSUME bad # {} PROVE FALSE
      BY <2>1
    <2>0. bad \in SUBSET Nat
      BY <2>1
    <2>3. PICK i \in bad : \A j \in bad : i <= j
      BY <2>0, <2>2, LeastExists
    <2>4. lead[0][b] \subseteq S
      BY <1>12, <2>9
    <2>5. i \in 1 .. n /\ i - 1 \in 0 .. n /\ i - 1 \notin bad
      BY <1>8, <2>1, <2>3, <2>4
    <2>6. lead[i - 1][b] \subseteq S
      BY <2>1, <2>5
    <2>7. lead[i][b] \subseteq S
      <3>1. Ups(lead[i - 1][b]) \subseteq S
        BY <2>6, <2>9 DEF Ups
      <3> QED
        <4>1. lead[i][b] = lead[i - 1][b] \cup Ups(lead[i - 1][b])
          BY <1>12, <2>5
        <4> QED
          BY <2>6, <3>1, <4>1
    <2> QED
      BY <2>1, <2>3, <2>7
  <1>14. ASSUME NEW b \in DOMAIN city
         PROVE  /\ lead[n][b] \in SUBSET DOMAIN city
                /\ \A a \in {b} \cup lead[n][b] : above(a) \subseteq lead[n][b]
    <2>1. \A i \in 0 .. n : lead[i][b] \subseteq DOMAIN city
      BY <1>13
    <2>2. PICK f : f = [i \in 0 .. n |-> lead[i][b]]
      OBVIOUS
    <2>3. f \in [0 .. n -> SUBSET DOMAIN city] /\ (\A i \in 0 .. n : f[i] = lead[i][b])
      BY <2>1, <2>2
    <2> HIDE DEF above, Ups
    <2>4. f[0] = above(b) /\ \A i \in 1 .. n : f[i] = f[i - 1] \cup Ups(f[i - 1])
      <3>1. \A i \in 1 .. n : i \in 0 .. n /\ i - 1 \in 0 .. n
        OBVIOUS
      <3>2. 0 \in 0 .. n
        OBVIOUS
      <3>3. lead[0][b] = above(b) /\ \A i \in 1 .. n : lead[i][b] = lead[i - 1][b] \cup Ups(lead[i - 1][b])
        BY <1>12
      <3> QED
        BY <2>3, <3>1, <3>2, <3>3
    <2>5. n \in 0 .. n
      OBVIOUS
    <2>6. CASE above(b) = {}
      <3>1. \A a \in {b} \cup {} : city[a].parent \in DOMAIN city => city[a].parent \in {}
        BY <2>6 DEF above
      <3>2. lead[n][b] \subseteq {}
        BY <1>13, <2>5, <3>1
      <3> QED
        BY <2>6, <3>2
    <2>7. CASE above(b) # {}
      <3>1. \A i \in 1 .. n : f[i - 1] \subseteq f[i]
        BY <2>4
      <3>2. \A i \in 1 .. n - 1 : f[i] = f[i - 1] => f[i + 1] = f[i]
        <4>1. ASSUME NEW i \in 1 .. n - 1, f[i] = f[i - 1] PROVE f[i + 1] = f[i]
          <5>1. i \in 1 .. n /\ i + 1 \in 1 .. n /\ (i + 1) - 1 = i
            OBVIOUS
          <5>2. /\ f[i + 1] = f[i] \cup Ups(f[i])
                /\ f[i] = f[i - 1] \cup Ups(f[i - 1])
            BY <2>4, <5>1
          <5> QED
            BY <4>1, <5>2
        <4> QED
          BY <4>1
      <3>3. n > 0 /\ f[n] = f[n - 1]
        <4>1. PICK D : D = DOMAIN city
          OBVIOUS
        <4>2. IsFiniteSet(D) /\ Cardinality(D) <= n /\ f \in [0 .. n -> SUBSET D] /\ f[0] # {}
          BY <1>1, <2>3, <2>4, <2>7, <4>1
        <4> QED
          BY <3>1, <3>2, <4>2, GrowthEnds
      <3>4. f[n] = f[n] \cup Ups(f[n])
        <4>1. n \in 1 .. n
          BY <3>3
        <4> QED
          BY <2>4, <3>3, <4>1
      <3>5. \A a \in f[n] : above(a) \subseteq f[n]
        BY <3>4 DEF Ups
      <3>6. \A i \in 0 .. n : above(b) \subseteq f[i]
        <4>1. PICK bad : bad = {i \in 0 .. n : ~(above(b) \subseteq f[i])}
          OBVIOUS
        <4>2. SUFFICES ASSUME bad # {} PROVE FALSE
          BY <4>1
        <4>0. bad \in SUBSET Nat
          BY <4>1
        <4>3. PICK i \in bad : \A j \in bad : i <= j
          BY <4>0, <4>2, LeastExists
        <4>4. i \in 1 .. n /\ i - 1 \in 0 .. n /\ i - 1 \notin bad
          BY <1>8, <2>4, <4>1, <4>3
        <4> QED
          BY <3>1, <4>1, <4>3, <4>4
      <3> QED
        BY <2>1, <2>3, <2>5, <3>5, <3>6
    <2> QED
      BY <2>6, <2>7
  <1>15. PICK up : up = [b \in DOMAIN city |-> lead[n][b]]
    OBVIOUS
  <1>16. up \in [DOMAIN city -> SUBSET DOMAIN city] /\ \A b \in DOMAIN city : up[b] = lead[n][b]
    BY <1>14, <1>15
  <1>17. n \in 0 .. n
    OBVIOUS
  <1>18. Linked!Under(city, root) = {b \in DOMAIN city \ {root} : root \in up[b]}
    BY <1>11, <1>16
  <1>19. ASSUME NEW b \in DOMAIN city, NEW a \in {b} \cup up[b], city[a].parent \in DOMAIN city
         PROVE  city[a].parent \in up[b]
    BY <1>14, <1>16, <1>19
  <1>20. ASSUME NEW b \in DOMAIN city, NEW S \in SUBSET DOMAIN city,
                \A a \in {b} \cup S : city[a].parent \in DOMAIN city => city[a].parent \in S
         PROVE  up[b] \subseteq S
    BY <1>13, <1>16, <1>17, <1>20
  <1> QED
    BY <1>16, <1>18, <1>19, <1>20

\* What the browser finds below a root is below it, and all of it if the page
\* has the whole city.
LEMMA ConvoyDescendantsAreUnder ==
    ASSUME NEW city, IsFiniteSet(DOMAIN city), NEW page \in SUBSET DOMAIN city, NEW root \in page
    PROVE  /\ Linked!descendantsOf(city, page, root) \subseteq Linked!Under(city, root)
           /\ page = DOMAIN city => Linked!Under(city, root) \subseteq Linked!descendantsOf(city, page, root)
  <1> DEFINE Down(down) ==
             /\ Linked!descendantsOf(city, page, root) = down \ {root}
             /\ root \in down
             /\ \A c \in page : city[c].parent \in down => c \in down
             /\ \A S : root \in S /\ (\A c \in page : city[c].parent \in S => c \in S) => down \subseteq S
             Up(up) ==
             /\ Linked!Under(city, root) = {b \in DOMAIN city \ {root} : root \in up[b]}
             /\ \A b \in DOMAIN city : \A a \in {b} \cup up[b] :
                  city[a].parent \in DOMAIN city => city[a].parent \in up[b]
             /\ \A b \in DOMAIN city, S \in SUBSET DOMAIN city :
                  (\A a \in {b} \cup S : city[a].parent \in DOMAIN city => city[a].parent \in S)
                    => up[b] \subseteq S
  <1>1. IsFiniteSet(page)
    BY FS_Subset
  <1>2. PICK down \in SUBSET page : Down(down)
    BY <1>1, ConvoyDescendantsAreLeast
  <1>3. PICK up \in [DOMAIN city -> SUBSET DOMAIN city] : Up(up)
    BY ConvoyUnderIs
  <1>4. Linked!descendantsOf(city, page, root) \subseteq Linked!Under(city, root)
    <2>1. PICK S : S = {root} \cup {c \in DOMAIN city : root \in up[c]}
      OBVIOUS
    <2>2. ASSUME NEW c \in page, city[c].parent \in S PROVE c \in S
      <3>1. CASE city[c].parent = root
        BY <1>3, <2>1, <3>1
      <3>2. CASE city[c].parent # root
        <4>1. PICK p : p = city[c].parent
          OBVIOUS
        <4>2. p \in DOMAIN city /\ root \in up[p] /\ p \in up[c]
          BY <1>3, <2>1, <2>2, <3>2, <4>1
        <4>3. up[c] \in SUBSET DOMAIN city
          OBVIOUS
        <4>4. \A a \in {p} \cup up[c] : city[a].parent \in DOMAIN city => city[a].parent \in up[c]
          BY <1>3, <4>2
        <4>5. up[p] \subseteq up[c]
          BY <1>3, <4>2, <4>3, <4>4
        <4> QED
          BY <2>1, <4>2, <4>5
      <3> QED
        BY <3>1, <3>2
    <2>3. down \subseteq S
      BY <1>2, <2>1, <2>2
    <2> QED
      BY <1>2, <1>3, <2>1, <2>3
  <1>5. ASSUME page = DOMAIN city, NEW b \in Linked!Under(city, root), b \notin Linked!descendantsOf(city, page, root) PROVE FALSE
    <2>1. b \in DOMAIN city /\ b # root /\ root \in up[b] /\ b \notin down
      BY <1>2, <1>3, <1>5
    <2>2. PICK S \in SUBSET DOMAIN city : S = DOMAIN city \ down
      OBVIOUS
    <2>3. ASSUME NEW a \in {b} \cup S, city[a].parent \in DOMAIN city PROVE city[a].parent \in S
      BY <1>2, <1>5, <2>1, <2>2, <2>3
    <2>4. up[b] \subseteq S
      BY <1>3, <2>1, <2>3
    <2> QED
      BY <1>2, <2>1, <2>2, <2>4
  <1> QED
    BY <1>4, <1>5

LEMMA ConvoyHolds ==
    ASSUME NEW city, NEW page, NEW walked, NEW root, Linked!Read(city, page, walked, root)
    PROVE  Linked!ConvoyIsWhole(city, page, walked, root)
  <1> DEFINE children == Linked!descendantsOf(city, page, root)
             truth == Linked!Under(city, root)
             view == Linked!loadConvoyView(city, page, walked, root)
  <1>1. /\ IsFiniteSet(DOMAIN city) /\ page \in SUBSET DOMAIN city /\ root \in page
        /\ walked # None => truth \subseteq walked
        /\ Linked!isGraphV2RunRoot(city[root]) => truth = {}
    BY RelatedSameSets DEF Linked!Read
  <1>2. children \subseteq truth /\ (page = DOMAIN city => truth \subseteq children)
    BY <1>1, ConvoyDescendantsAreUnder
  <1>3. /\ view.steps = children
        /\ view.partial <=> /\ page # DOMAIN city
                            /\ Linked!computeExposure(city, children, root) # "graph_v2_root_only"
                            /\ walked # None => ~(walked \subseteq children)
        /\ view.blocked = {b \in children : Linked!blockedBy(city, children \cup {root}, b) # {}}
    BY DEF Linked!loadConvoyView, Linked!listIsIncomplete
  <1> SUFFICES ASSUME ~view.partial
               PROVE  /\ view.steps = truth
                      /\ \A b \in truth \ view.blocked :
                           \A c \in city[b].needs \cap (truth \cup {root}) : city[c].status = "closed"
    BY DEF Linked!ConvoyIsWhole
  <1> HIDE DEF view
  <1>4. children = truth
    <2>1. CASE page = DOMAIN city
      BY <1>2, <2>1
    <2>2. CASE Linked!computeExposure(city, children, root) = "graph_v2_root_only"
      BY <1>1, <1>2, <2>2 DEF Linked!computeExposure
    <2>3. CASE walked # None /\ walked \subseteq children
      BY <1>1, <1>2, <2>3
    <2> QED
      BY <1>3, <2>1, <2>2, <2>3
  <1>5. ASSUME NEW b \in truth \ view.blocked, NEW c \in city[b].needs \cap (truth \cup {root})
        PROVE  city[c].status = "closed"
    BY <1>3, <1>4, <1>5 DEF Linked!blockedBy
  <1> QED
    BY <1>3, <1>4, <1>5

LEMMA OpenedOpensHolds ==
    ASSUME NEW instances, NEW k \in Nat, DOMAIN instances \in SUBSET (0 .. k), NEW visible \in DOMAIN instances
    PROVE  Run!OpensOnATranscript(instances, visible)
  <1> DEFINE Live == {i \in DOMAIN instances : Run!streamable(instances[i])}
             Attached == {i \in DOMAIN instances : instances[i].attached}
             Lowest(S) == CHOOSE i \in S : \A j \in S : i <= j
             Highest(S) == CHOOSE i \in S : \A j \in S : i >= j
             at == Run!preferredInstance(instances, visible)
  <1>1. at = CASE Live # {} -> Lowest(Live)
               [] Live = {} /\ visible \in Attached -> visible
               [] Live = {} /\ visible \notin Attached /\ Attached # {} -> Highest(Attached)
               [] OTHER -> visible
    BY DEF Run!preferredInstance
  <1>2. Live \in SUBSET Nat /\ Attached \in SUBSET (0 .. k) /\ Live \subseteq Attached
    BY DEF Run!streamable
  <1>3. Live # {} => Lowest(Live) \in Live
    BY <1>2, LeastExists
  <1>4. Attached # {} => Highest(Attached) \in Attached
    <2> SUFFICES ASSUME Attached # {} PROVE Highest(Attached) \in Attached
      OBVIOUS
    <2>1. PICK x \in Attached : \A y \in Attached : y <= x
      BY <1>2, GreatestExists
    <2>2. \A y \in Attached : x >= y
      BY <1>2, <2>1
    <2> QED
      BY <2>1, <2>2
  <1>5. Live # {} => at \in Live
    BY <1>1, <1>3
  <1>6. Attached # {} => at \in Attached
    BY <1>1, <1>2, <1>3, <1>4
  <1> QED
    BY <1>5, <1>6 DEF Run!OpensOnATranscript

(***************************************************************************)
(* The detail of a run and its graph (RunDetail, RunGraph).                *)
(***************************************************************************)
\* What is first is there.
LEMMA RunFirstIs ==
    ASSUME NEW seq, DOMAIN seq \in SUBSET Nat
    PROVE  /\ Run!FirstOf(seq) # None =>
                \E i \in DOMAIN seq : Run!FirstOf(seq) = seq[i] /\ \A j \in DOMAIN seq : j < i => seq[j] = None
           /\ Run!FirstOf(seq) = None => \A i \in DOMAIN seq : seq[i] = None
  <1>1. PICK present : present = {i \in DOMAIN seq : seq[i] # None}
    OBVIOUS
  <1>2. Run!FirstOf(seq) = IF present = {} THEN None ELSE seq[Run!Min(present)]
    BY <1>1 DEF Run!FirstOf
  <1>3. CASE present = {}
    BY <1>1, <1>2, <1>3
  <1>4. CASE present # {}
    <2>1. present \in SUBSET Nat
      BY <1>1
    <2>2. Run!Min(present) \in present /\ \A j \in present : Run!Min(present) <= j
      BY <1>4, <2>1, LeastExists DEF Run!Min
    <2>3. ASSUME NEW j \in DOMAIN seq, j < Run!Min(present) PROVE seq[j] = None
      BY <1>1, <2>1, <2>2, <2>3
    <2> QED
      BY <1>1, <1>2, <1>4, <2>2, <2>3
  <1> QED
    BY <1>3, <1>4

LEMMA RunFirstOfTwo == ASSUME NEW a, NEW b PROVE Run!FirstOf(<<a, b>>) = IF a # None THEN a ELSE b
  <1>1. PICK seq : seq = <<a, b>>
    OBVIOUS
  <1>2. DOMAIN seq = {1, 2} /\ seq[1] = a /\ seq[2] = b
    BY <1>1
  <1>3. DOMAIN seq \in SUBSET Nat
    BY <1>2
  <1> QED
    BY <1>1, <1>2, <1>3, RunFirstIs

LEMMA RunFirstOfThree ==
    ASSUME NEW a, NEW b, NEW c PROVE Run!FirstOf(<<a, b, c>>) = IF a # None THEN a ELSE IF b # None THEN b ELSE c
  <1>1. PICK seq : seq = <<a, b, c>>
    OBVIOUS
  <1>2. DOMAIN seq = {1, 2, 3} /\ seq[1] = a /\ seq[2] = b /\ seq[3] = c
    BY <1>1
  <1>3. DOMAIN seq \in SUBSET Nat
    BY <1>2
  <1>4. Run!FirstOf(seq) # None =>
                \E i \in DOMAIN seq : Run!FirstOf(seq) = seq[i] /\ \A j \in DOMAIN seq : j < i => seq[j] = None
    BY <1>3, RunFirstIs
  <1>5. Run!FirstOf(seq) = None => \A i \in DOMAIN seq : seq[i] = None
    BY <1>3, RunFirstIs
  <1> QED
    BY <1>1, <1>2, <1>4, <1>5

\* The name the page asks by, and the one it shows.
LEMMA RunIdentityIs ==
    ASSUME NEW mode, NEW root, NEW detail
    PROVE  LET m == Run!runFormulaMetadataName(root)
               a == IF mode \in {"detail", "state"} THEN detail ELSE None
               t == Run!runFormulaTitleFallback(root)
               id == Run!resolveRunFormulaIdentity(mode, root, detail)
           IN  /\ id.name = IF m # None THEN m ELSE IF a # None THEN a ELSE t
               /\ id.source = IF id.name = None THEN None
                              ELSE IF m # None THEN "metadata" ELSE IF a # None THEN "formula_detail" ELSE "title_fallback"
               /\ id.target = Run!runFormulaTarget(root)
  BY RunFirstOfThree DEF Run!resolveRunFormulaIdentity

LEMMA RunMetadataName ==
    ASSUME NEW root
    PROVE  Run!runFormulaMetadataName(root) = IF root.formula # None THEN root.formula ELSE root.formulaName
  BY RunFirstOfTwo DEF Run!runFormulaMetadataName

\* What the lookup of the formula answers.
LEMMA RunLookupIs ==
    ASSUME NEW root, NEW read, NEW canonical,
           None \notin {"missing_formula_metadata", "missing_run_target", "not_found", "upstream_error"}
    PROVE  LET asked == Run!resolveRunFormulaIdentity("route", root, None)
               lookup == Run!loadRunFormulaDetail(root, read, canonical)
           IN  /\ lookup.name = asked.name
               /\ lookup.detail \in {None, canonical}
               /\ lookup.reason = None => lookup.name # None
  BY DEF Run!loadRunFormulaDetail

LEMMA RunNameHolds == ASSUME NEW given, Run!Answered(given) PROVE Run!NameIsAccountedFor(given)
  <1> DEFINE root == given.root
             m == Run!runFormulaMetadataName(root)
             t == Run!runFormulaTitleFallback(root)
             asked == Run!resolveRunFormulaIdentity("route", root, None)
             lookup == Run!FormulaLookup(given)
             resolved == Run!resolveRunFormulaIdentity("state", root, lookup.detail)
             said == Run!runFormulaState(root, lookup.detail)
  <1>1. /\ lookup.name = asked.name
        /\ lookup.detail \in {None, given.canonical}
    BY RunLookupIs DEF Run!Answered, Run!FormulaLookup
  <1>2. asked.name = IF m # None THEN m ELSE t
    BY RunIdentityIs
  <1>3. /\ resolved.name = IF m # None THEN m ELSE IF lookup.detail # None THEN lookup.detail ELSE t
        /\ resolved.source = IF resolved.name = None THEN None
                              ELSE IF m # None THEN "metadata" ELSE IF lookup.detail # None THEN "formula_detail" ELSE "title_fallback"
    BY RunIdentityIs
  <1>4. m = IF root.formula # None THEN root.formula ELSE root.formulaName
    BY RunMetadataName
  <1>5. t = None \/ (t = root.title /\ ~Run!isTerminalRunRootStatus(root.status))
    BY DEF Run!runFormulaTitleFallback
  <1>6. said = IF resolved.name = None THEN None
      ELSE [name |-> resolved.name,
            source |-> IF resolved.source = "title_fallback" THEN "title_fallback" ELSE "metadata"]
    BY DEF Run!runFormulaState
  <1>7. /\ None \notin {"metadata", "formula_detail", "title_fallback"}
        /\ \A name \in {root.formula, root.formulaName, root.title, given.canonical} :
             \A source \in {"metadata", "title_fallback"} : [name |-> name, source |-> source] # None
    BY DEF Run!Answered
  <1> HIDE DEF lookup, m, t, asked, resolved, said
  <1>8. resolved.name # None => resolved.name \in {root.formula, root.formulaName, root.title, given.canonical}
    BY <1>1, <1>3, <1>4, <1>5
  <1>9. IF resolved.name = None THEN said = None
        ELSE /\ said # None /\ said.name = resolved.name
             /\ said.source = IF resolved.source = "title_fallback" THEN "title_fallback" ELSE "metadata"
    BY <1>6, <1>7, <1>8
  <1>10. lookup.detail = None => IF said = None THEN lookup.name = None ELSE said.name = lookup.name
    BY <1>1, <1>2, <1>3, <1>9
  <1>11. said # None /\ said.source = "metadata" => said.name \in {root.formula, root.formulaName, lookup.detail}
    BY <1>3, <1>4, <1>5, <1>7, <1>9
  <1>12. Run!isTerminalRunRootStatus(root.status) => said = None \/ said.source = "metadata"
    BY <1>3, <1>5, <1>7, <1>9
  <1> QED
    BY <1>10, <1>11, <1>12 DEF Run!NameIsAccountedFor, lookup, said

LEMMA RunOnlyTheCoreHolds == ASSUME NEW given, Run!Answered(given) PROVE Run!OnlyTheCoreBlanks(given)
  <1> DEFINE root == given.root
             lookup == Run!FormulaLookup(given)
             asked == Run!resolveRunFormulaIdentity("route", root, None)
  <1>1. root.graphV2 \in BOOLEAN /\ given.identified \in BOOLEAN /\ given.partial \in BOOLEAN
    BY DEF Run!Answered
  <1>2. Run!payload(given) = "loaded" <=>
       /\ given.root.graphV2 /\ given.identified
       /\ \/ given.first = "ok"
          \/ Run!isTransientSupervisorError(given.first) /\ given.second = "ok"
    BY <1>1 DEF Run!payload, Run!fetchCoreRead, Run!isTransientSupervisorError, Run!enrichFormulaRun
  <1>3. (given.sessions = None \/ given.partial) <=> Run!pageLevelPartialReasons(given) # {}
    BY <1>1 DEF Run!pageLevelPartialReasons, Run!completeness
  <1>4. Run!completeness(given) = {} => lookup.reason = None
    BY DEF Run!completeness
  <1>5. lookup.name = asked.name /\ (lookup.reason = None => lookup.name # None)
    BY RunLookupIs DEF Run!Answered, Run!FormulaLookup
  <1>6. asked.name = IF Run!runFormulaMetadataName(root) # None THEN Run!runFormulaMetadataName(root)
                     ELSE Run!runFormulaTitleFallback(root)
    BY RunIdentityIs
  <1>7. asked.name # None => Run!resolveRunFormulaIdentity("state", root, lookup.detail).name # None
    BY <1>6, RunIdentityIs
  <1>8. lookup.detail \in {None, given.canonical}
    BY RunLookupIs DEF Run!Answered, Run!FormulaLookup
  <1>9. Run!resolveRunFormulaIdentity("state", root, lookup.detail).name # None =>
          Run!resolveRunFormulaIdentity("state", root, lookup.detail).name
            \in {root.formula, root.formulaName, root.title, given.canonical}
    <2>1. Run!runFormulaTitleFallback(root) \in {root.title, None}
      BY DEF Run!runFormulaTitleFallback
    <2> QED
      BY <1>8, <2>1, RunIdentityIs, RunMetadataName
  <1>10. \A name \in {root.formula, root.formulaName, root.title, given.canonical} :
             \A source \in {"metadata", "title_fallback"} : [name |-> name, source |-> source] # None
    BY DEF Run!Answered
  <1>11. Run!completeness(given) = {} => Run!runFormulaState(root, lookup.detail) # None
    BY <1>4, <1>5, <1>7, <1>9, <1>10 DEF Run!runFormulaState
  <1> QED
    BY <1>2, <1>3, <1>11 DEF Run!OnlyTheCoreBlanks

\* A session a key finds goes by it.
LEMMA RunHitsAre ==
    ASSUME NEW sessions, NEW key, DOMAIN sessions \in SUBSET Nat
    PROVE  /\ Run!Hits(sessions, key) \in SUBSET DOMAIN sessions
           /\ \A i \in Run!Hits(sessions, key) :
                \/ Run!SessionId(sessions[i].id) = key
                \/ key \in sessions[i].names
                \/ sessions[i].template = key
  BY DEF Run!Hits, Run!byId, Run!byName, Run!uniquePreferredSession

\* The summary is that of the first candidate that finds a session.
LEMMA RunSummaryIs ==
    ASSUME NEW sessions, NEW a, NEW b, NEW c, DOMAIN sessions \in SUBSET Nat
    PROVE  LET summary == Run!resolveRunSessionSummary(sessions, <<a, b, c>>)
           IN  /\ summary # None =>
                    \E key \in {a, b, c} : \E i \in Run!Hits(sessions, key) : summary = Run!SessionId(sessions[i].id)
               /\ Run!Hits(sessions, a) # {} =>
                    \E i \in Run!Hits(sessions, a) : summary = Run!SessionId(sessions[i].id)
  <1>1. PICK candidates : candidates = <<a, b, c>>
    OBVIOUS
  <1>2. DOMAIN candidates = {1, 2, 3} /\ candidates[1] = a /\ candidates[2] = b /\ candidates[3] = c
    BY <1>1
  <1>3. PICK found : found = {j \in DOMAIN candidates : Run!Hits(sessions, candidates[j]) # {}}
    OBVIOUS
  <1>4. Run!resolveRunSessionSummary(sessions, candidates) =
          IF found = {} THEN None ELSE Run!SessionId(sessions[Run!Min(Run!Hits(sessions, candidates[Run!Min(found)]))].id)
    BY <1>3 DEF Run!resolveRunSessionSummary
  <1>5. \A T \in SUBSET Nat : T # {} => Run!Min(T) \in T /\ \A y \in T : Run!Min(T) <= y
    BY LeastExists DEF Run!Min
  <1>6. found \in SUBSET Nat /\ found \subseteq DOMAIN candidates
    BY <1>2, <1>3
  <1>7. \A key : Run!Hits(sessions, key) \in SUBSET Nat
    BY RunHitsAre
  <1>8. CASE found = {}
    <2>1. Run!Hits(sessions, a) = {}
      BY <1>2, <1>3, <1>8
    <2> QED
      BY <1>1, <1>4, <1>8, <2>1
  <1>9. CASE found # {}
    <2>1. Run!Min(found) \in found /\ \A y \in found : Run!Min(found) <= y
      BY <1>5, <1>6, <1>9
    <2>2. PICK j : j = Run!Min(found)
      OBVIOUS
    <2>3. j \in DOMAIN candidates /\ Run!Hits(sessions, candidates[j]) # {}
      BY <1>3, <2>1, <2>2
    <2>4. PICK i : i = Run!Min(Run!Hits(sessions, candidates[j]))
      OBVIOUS
    <2>5. i \in Run!Hits(sessions, candidates[j])
      BY <1>5, <1>7, <2>3, <2>4
    <2>6. Run!resolveRunSessionSummary(sessions, candidates) = Run!SessionId(sessions[i].id)
      BY <1>4, <1>9, <2>2, <2>4
    <2>7. candidates[j] \in {a, b, c}
      BY <1>2, <2>3
    <2>8. Run!Hits(sessions, a) # {} => j = 1
      <3>1. Run!Hits(sessions, a) # {} => 1 \in found
        BY <1>2, <1>3
      <3>2. j \in 1 .. 3 /\ (1 \in found => j <= 1)
        BY <1>2, <2>1, <2>2, <2>3
      <3> QED
        BY <3>1, <3>2
    <2> QED
      BY <1>1, <1>2, <2>5, <2>6, <2>7, <2>8
  <1> QED
    BY <1>8, <1>9

\* What a bead recorded of its session is one of its handles, or the id in one.
LEMMA RunRecordedIs ==
    ASSUME NEW bead, NEW handles, handles = {bead.sessionId, bead.sessionName, bead.assignee} \ {None},
           Run!RecordedId(bead) # None
    PROVE  \E h \in handles : Run!RecordedId(bead) = h \/ (h.id # None /\ Run!RecordedId(bead) = Run!SessionId(h.id))
  <1>1. PICK raw : raw = Run!FirstOf(<<bead.sessionId, bead.assignee>>)
    OBVIOUS
  <1>2. raw = IF bead.sessionId # None THEN bead.sessionId ELSE bead.assignee
    BY <1>1, RunFirstOfTwo
  <1>3. Run!RecordedId(bead) = IF Run!supervisorSessionIdFrom(raw) # None THEN Run!supervisorSessionIdFrom(raw) ELSE raw
    BY <1>1, RunFirstOfTwo DEF Run!RecordedId
  <1>4. Run!supervisorSessionIdFrom(raw) = IF raw = None \/ raw.id = None THEN None ELSE Run!SessionId(raw.id)
    BY DEF Run!supervisorSessionIdFrom
  <1>5. raw \in handles
    BY <1>2, <1>3, <1>4
  <1> QED
    BY <1>3, <1>4, <1>5

LEMMA RunTranscriptHolds == ASSUME NEW given, Run!Answered(given) PROVE Run!TranscriptIsTheBeads(given)
  <1> DEFINE bead == given.bead
             sessions == Run!SessionsOf(given)
             handles == {bead.sessionId, bead.sessionName, bead.assignee} \ {None}
             id == Run!RecordedId(bead)
             name == Run!FirstOf(<<bead.sessionName, bead.assignee, id>>)
             a == Run!FirstOf(<<id, name>>)
             c == Run!FirstOf(<<bead.assignee, name>>)
             summary == Run!resolveRunSessionSummary(sessions, <<a, name, c>>)
             chosen == Run!FirstOf(<<summary, id, name>>)
             link == Run!runSessionLinkFor(bead, sessions)
             OfHandle(k) == \E h \in handles : k = h \/ (h.id # None /\ k = Run!SessionId(h.id))
  <1>1. /\ DOMAIN sessions \in SUBSET Nat
        /\ \A i \in DOMAIN sessions : /\ sessions[i].id # None /\ Run!SessionId(sessions[i].id) # None
                                      /\ \A n \in sessions[i].names \cup {sessions[i].template} : n.base # None
        /\ \A h \in handles : (h.base # None \/ h.id # None) /\ Run!SessionId(h.id) # None
    BY DEF Run!Answered, Run!ToSet
  <1>2. name = IF bead.sessionName # None THEN bead.sessionName ELSE IF bead.assignee # None THEN bead.assignee ELSE id
    BY RunFirstOfThree
  <1>3. a = IF id # None THEN id ELSE name
    BY RunFirstOfTwo
  <1>4. c = IF bead.assignee # None THEN bead.assignee ELSE name
    BY RunFirstOfTwo
  <1>5. chosen = IF summary # None THEN summary ELSE IF id # None THEN id ELSE name
    BY RunFirstOfThree
  <1>6. link = IF bead.status \in {"pending", "ready"} \/ name = None \/ ~Run!IsSessionId(chosen) THEN None ELSE chosen
    BY DEF Run!runSessionLinkFor
  <1>7. /\ summary # None =>
             \E key \in {a, name, c} : \E i \in Run!Hits(sessions, key) : summary = Run!SessionId(sessions[i].id)
        /\ Run!Hits(sessions, a) # {} => \E i \in Run!Hits(sessions, a) : summary = Run!SessionId(sessions[i].id)
    BY <1>1, RunSummaryIs
  <1>8. id # None => OfHandle(id)
    BY RunRecordedIs
  <1>9. name # None => OfHandle(name) /\ OfHandle(a) /\ OfHandle(c)
    <2> HIDE DEF id, name, a, c
    <2>1. bead.sessionName # None => OfHandle(bead.sessionName)
      OBVIOUS
    <2>2. bead.assignee # None => OfHandle(bead.assignee)
      OBVIOUS
    <2> HIDE DEF OfHandle
    <2> QED
      BY <1>2, <1>3, <1>4, <1>8, <2>1, <2>2
  <1>10. \A i \in DOMAIN sessions : sessions[i] \in Run!ToSet(sessions)
    BY DEF Run!ToSet
  <1> HIDE DEF id, name, a, c, summary, chosen, link, sessions
  <1>11. link # None => Run!IsSessionId(link)
    BY <1>6
  <1>12. ASSUME bead.sessionId # None, bead.status \notin {"pending", "ready"},
                NEW s \in Run!ToSet(sessions), s.id = bead.sessionId.id
         PROVE  link = Run!SessionId(bead.sessionId.id)
    <2>1. PICK k \in DOMAIN sessions : sessions[k].id = bead.sessionId.id
      BY <1>12 DEF Run!ToSet
    <2>2. id = Run!SessionId(bead.sessionId.id) /\ id # None
      <3>1. Run!FirstOf(<<bead.sessionId, bead.assignee>>) = bead.sessionId
        BY <1>12, RunFirstOfTwo
      <3>2. Run!supervisorSessionIdFrom(bead.sessionId) = Run!SessionId(bead.sessionId.id)
        BY <1>1, <1>12, <2>1 DEF Run!supervisorSessionIdFrom
      <3>3. Run!SessionId(bead.sessionId.id) # None
        BY <1>1, <2>1
      <3> QED
        BY <3>1, <3>2, <3>3, RunFirstOfTwo DEF Run!RecordedId, id
    <2>3. a = id /\ name # None
      BY <1>2, <1>3, <2>2
    <2>4. Run!Hits(sessions, a) = Run!byId(sessions, id) /\ Run!byId(sessions, id) # {}
      BY <2>1, <2>2, <2>3 DEF Run!Hits, Run!byId
    <2>5. summary = id
      <3>1. \A i \in Run!byId(sessions, id) : Run!SessionId(sessions[i].id) = id
        BY DEF Run!byId
      <3> QED
        BY <1>7, <2>4, <3>1
    <2>6. Run!IsSessionId(id)
      BY <2>2 DEF Run!IsSessionId, Run!SessionId
    <2>7. chosen = id
      BY <1>5, <2>2, <2>5
    <2> QED
      BY <1>6, <1>12, <2>2, <2>3, <2>6, <2>7
  <1>13. ASSUME link # None, link.id \notin {h.id : h \in handles}
         PROVE  \E s \in Run!ToSet(sessions) : s.id = link.id /\ (s.names \cup {s.template}) \cap handles # {}
    <2>1. link = chosen /\ name # None /\ Run!IsSessionId(chosen)
      BY <1>6, <1>13
    <2>2. \A k : OfHandle(k) /\ Run!IsSessionId(k) => k.id \in {h.id : h \in handles}
      BY DEF Run!SessionId
    <2>3. summary # None
      BY <1>5, <1>8, <1>9, <1>13, <2>1, <2>2
    <2>4. PICK key \in {a, name, c} : \E i \in Run!Hits(sessions, key) : summary = Run!SessionId(sessions[i].id)
      BY <1>7, <2>3
    <2>5. PICK i \in Run!Hits(sessions, key) : summary = Run!SessionId(sessions[i].id)
      BY <2>4
    <2>6. /\ i \in DOMAIN sessions
          /\ \/ Run!SessionId(sessions[i].id) = key
             \/ key \in sessions[i].names
             \/ sessions[i].template = key
      BY <1>1, <2>5, RunHitsAre
    <2>7. link.id = sessions[i].id
      BY <1>5, <2>1, <2>3, <2>5 DEF Run!SessionId
    <2>8. PICK h \in handles : key = h \/ (h.id # None /\ key = Run!SessionId(h.id))
      BY <1>9, <2>1, <2>4
    <2>9. Run!SessionId(sessions[i].id) # key
      <3>1. Run!SessionId(sessions[i].id).id = sessions[i].id /\ Run!SessionId(h.id).id = h.id
        BY DEF Run!SessionId
      <3>2. sessions[i].id # h.id
        BY <1>13, <2>7, <2>8
      <3> QED
        BY <2>8, <3>1, <3>2
    <2>10. key.base # None
      BY <1>1, <2>6, <2>9
    <2>11. key = h
      BY <2>8, <2>10 DEF Run!SessionId
    <2> QED
      BY <1>10, <2>6, <2>7, <2>8, <2>9, <2>11
  <1>14. ASSUME given.sessions = None, \A h \in handles : h.id = None PROVE link = None
    <2>1. \A key : Run!Hits(sessions, key) = {}
      BY <1>1, <1>14, RunHitsAre DEF Run!SessionsOf, sessions
    <2>2. summary = None
      BY <1>7, <2>1
    <2>3. name # None => \E h \in handles : chosen = h
      BY <1>5, <1>8, <1>9, <1>14, <2>2
    <2>4. \A h \in handles : ~Run!IsSessionId(h)
      BY <1>1, <1>14 DEF Run!IsSessionId
    <2> QED
      BY <1>6, <2>3, <2>4
  <1> QED
    <2> DEFINE listed == {s.id : s \in Run!ToSet(sessions)}
    <2>1. bead.sessionId # None /\ bead.sessionId.id \in listed /\ bead.status \notin {"pending", "ready"} =>
            link = Run!SessionId(bead.sessionId.id)
      BY <1>12
    <2> QED
      BY <1>11, <1>13, <1>14, <2>1 DEF Run!TranscriptIsTheBeads, link, sessions

LEMMA RunDetailHolds == ASSUME NEW given, Run!Answered(given) PROVE Run!DetailIsHonest(given)
  BY RunNameHolds, RunOnlyTheCoreHolds, RunTranscriptHolds DEF Run!DetailIsHonest

LEMMA RunFolderHolds ==
    ASSUME NEW T, NEW root \in T, NEW beads \in Seq(T), Run!Recorded(root) PROVE Run!PathIsTheRuns(root, beads)
  <1> DEFINE rows == <<root>> \o beads
             rigs == [i \in DOMAIN rows |-> rows[i].rigRoot]
  <1>1. DOMAIN rows \in SUBSET Nat /\ 1 \in DOMAIN rows /\ rows[1] = root /\ \A i \in DOMAIN rows : 1 <= i
    OBVIOUS
  <1> HIDE DEF rows
  <1>2. PICK dirs : dirs = [i \in DOMAIN rows |-> Run!FirstOf(Run!executionWorkDirs(rows[i]))]
    OBVIOUS
  <1>3. dirs[1] = IF root.cwd # None THEN root.cwd ELSE IF root.workDir # None THEN root.workDir ELSE root.gcWorkDir
    BY <1>1, <1>2, RunFirstOfThree DEF Run!executionWorkDirs
  <1>4. ASSUME dirs[1] # None PROVE Run!FirstOf(dirs) = dirs[1]
    <2>1. DOMAIN dirs = DOMAIN rows
      BY <1>2
    <2>2. /\ Run!FirstOf(dirs) # None =>
                \E i \in DOMAIN dirs : Run!FirstOf(dirs) = dirs[i] /\ \A j \in DOMAIN dirs : j < i => dirs[j] = None
          /\ Run!FirstOf(dirs) = None => \A i \in DOMAIN dirs : dirs[i] = None
      BY <1>1, <2>1, RunFirstIs
    <2>3. PICK i \in DOMAIN dirs : Run!FirstOf(dirs) = dirs[i] /\ \A j \in DOMAIN dirs : j < i => dirs[j] = None
      BY <1>1, <1>4, <2>1, <2>2
    <2>4. i \in Nat /\ 1 <= i /\ ~(1 < i)
      BY <1>1, <1>4, <2>1, <2>3
    <2> QED
      BY <2>3, <2>4
  <1>5. Run!resolveRunExecutionPath(root, beads) = IF Run!FirstOf(dirs) # None THEN Run!FirstOf(dirs) ELSE Run!FirstOf(rigs)
    BY <1>2, RunFirstOfTwo DEF Run!resolveRunExecutionPath, rows
  <1>6. root.cwd = "worktree" \/ root.workDir = "worktree" => dirs[1] # None /\ dirs[1] # "checkout"
    BY <1>3 DEF Run!Recorded
  <1> QED
    BY <1>4, <1>5, <1>6 DEF Run!PathIsTheRuns

\* The finite sets of the instance are those of the module.
LEMMA GraphSameSets == ASSUME NEW S
    PROVE  (Graph!IsFiniteSet(S) <=> IsFiniteSet(S)) /\ Graph!Cardinality(S) = Cardinality(S)
  <1>1. Graph!IsFiniteSet(S) <=> IsFiniteSet(S)
    BY DEF Graph!IsFiniteSet, IsFiniteSet
  <1>2. Graph!Cardinality(S) = Cardinality(S)
    BY DEF Graph!Cardinality, Cardinality
  <1> QED
    BY <1>1, <1>2

\* The beads of a run: the retry of a step in a pass, and its attempts.
LEMMA GraphVisibleIs ==
    ASSUME NEW run, NEW b \in Graph!Visible(run)
    PROVE  /\ Graph!Pass(b) \in 1 .. run.passes /\ Graph!Step(b) \in Graph!Range(Line)
           /\ \/ b[1] = "retry" /\ b = Graph!ShellOf(b)
              \/ b[1] = "attempt" /\ b[4] \in 1 .. Graph!LatestOf(run, b) /\ b = <<"attempt", Graph!Pass(b), Graph!Step(b), b[4]>>
           /\ Graph!ShellOf(b) \in Graph!Visible(run)
  BY DEF Graph!Visible, Graph!Retries, Graph!Attempts, Graph!Pass, Graph!Step, Graph!ShellOf, Graph!LatestOf

\* The number a bead has among the attempts of its step and pass.
LEMMA GraphAttemptIs ==
    ASSUME NEW run, Graph!Poured(run), NEW b \in Graph!Visible(run)
    PROVE  Graph!LatestOf(run, b) \in Nat /\ Graph!attemptFor(run, b) \in 0 .. Graph!LatestOf(run, b)
  <1>1. Graph!LatestOf(run, b) \in Nat
    BY GraphVisibleIs DEF Graph!LatestOf, Graph!Poured
  <1> QED
    BY <1>1, GraphVisibleIs DEF Graph!attemptFor

\* A node is the retry, the step or the reference of each of its beads.
LEMMA GraphNodeIs ==
    ASSUME NEW run, Graph!Poured(run), NEW b \in Graph!Visible(run)
    PROVE  /\ run.node[b] \in {Graph!ShellOf(b), <<"step", Graph!Step(b)>>, Graph!fullStepRefIdentity(b)}
           /\ run.node[b] \in Graph!Nodes(run)
           /\ DOMAIN run.node = Graph!Visible(run)
  <1>1. run.node[b] \in {Graph!groupingBaseSemanticId(run, b), Graph!duplicateResolutionIdentity(run, b)}
    BY DEF Graph!Poured, Graph!resolveBeadIdentities
  <1>2. b \in Graph!referencedPhysicalLogicalTargets(run) => b = Graph!ShellOf(b)
    BY DEF Graph!referencedPhysicalLogicalTargets, Graph!ShellOf, Graph!Pass, Graph!Step
  <1>3. DOMAIN run.node = Graph!Visible(run)
    BY DEF Graph!Poured, Graph!resolveBeadIdentities
  <1> QED
    BY <1>1, <1>2, <1>3 DEF Graph!groupingBaseSemanticId, Graph!duplicateResolutionIdentity, Graph!semanticNodeIdFor,
      Graph!stableSemanticIdentity, Graph!Nodes, Graph!Range

\* The beads of a node are of one step.
LEMMA GraphNodeStep ==
    ASSUME NEW run, Graph!Poured(run), NEW b \in Graph!Visible(run), NEW c \in Graph!Visible(run), run.node[b] = run.node[c]
    PROVE  Graph!Step(b) = Graph!Step(c)
  <1> DEFINE StepOf(node) == IF node[1] = "step" THEN node[2] ELSE node[3]
  <1>1. ASSUME NEW d \in Graph!Visible(run) PROVE StepOf(run.node[d]) = Graph!Step(d)
    <2>1. StepOf(Graph!ShellOf(d)) = Graph!Step(d)
      BY DEF Graph!ShellOf, Graph!Pass, Graph!Step
    <2>2. StepOf(<<"step", Graph!Step(d)>>) = Graph!Step(d)
      OBVIOUS
    <2>3. StepOf(Graph!fullStepRefIdentity(d)) = Graph!Step(d)
      BY DEF Graph!fullStepRefIdentity
    <2> HIDE DEF StepOf
    <2> QED
      BY <2>1, <2>2, <2>3, GraphNodeIs
  <1> HIDE DEF StepOf
  <1> QED
    BY <1>1

\* The reference of a retry is an alias of its node and of no other.
LEMMA GraphReferenceIs ==
    ASSUME NEW run, Graph!Poured(run), NEW i \in 1 .. run.passes, NEW s \in Graph!Range(Line)
    PROVE  /\ <<"retry", i, s>> \in Graph!Visible(run)
           /\ Graph!Aliased(run, <<"ref", i, s, 0>>) = {run.node[<<"retry", i, s>>]}
  <1> DEFINE r == <<"retry", i, s>>
             alias == <<"ref", i, s, 0>>
  <1>1. r \in Graph!Visible(run)
    BY DEF Graph!Visible, Graph!Retries
  <1>2. alias \in Graph!AliasesOf(run, r)
    BY DEF Graph!AliasesOf, Graph!fullStepRefIdentity, Graph!Pass, Graph!Step
  <1>3. ASSUME NEW b \in Graph!Visible(run), alias \in Graph!AliasesOf(run, b) PROVE b = r
    <2>1. alias # <<"step", Graph!Step(b)>> /\ alias # Graph!ShellOf(b) /\ alias # b
      <3>1. alias[1] = "ref" /\ <<"step", Graph!Step(b)>>[1] = "step" /\ Graph!ShellOf(b)[1] = "retry"
        BY DEF Graph!ShellOf
      <3>2. b[1] \in {"retry", "attempt"}
        BY GraphVisibleIs
      <3> HIDE DEF alias
      <3> QED
        BY <3>1, <3>2
    <2>2. Graph!AliasesOf(run, b) \subseteq {Graph!ShellOf(b), <<"step", Graph!Step(b)>>, Graph!fullStepRefIdentity(b), b}
      BY GraphNodeIs DEF Graph!AliasesOf, Graph!groupingBaseSemanticId, Graph!duplicateResolutionIdentity, Graph!semanticNodeIdFor,
        Graph!stableSemanticIdentity
    <2>3. alias = Graph!fullStepRefIdentity(b)
      BY <1>3, <2>1, <2>2
    <2>4. i = Graph!Pass(b) /\ s = Graph!Step(b) /\ (IF b[1] = "attempt" THEN b[4] ELSE 0) = 0
      BY <2>3 DEF Graph!fullStepRefIdentity
    <2>5. b[1] = "attempt" => b[4] # 0
      <3>1. Graph!LatestOf(run, b) \in Nat
        BY GraphAttemptIs
      <3>2. b[1] = "attempt" => b[4] \in 1 .. Graph!LatestOf(run, b)
        BY GraphVisibleIs
      <3> QED
        BY <3>1, <3>2
    <2> QED
      BY <2>4, <2>5, GraphVisibleIs DEF Graph!ShellOf
  <1>4. {c \in Graph!Visible(run) : alias \in Graph!AliasesOf(run, c)} = {r}
    BY <1>1, <1>2, <1>3
  <1> QED
    BY <1>1, <1>4 DEF Graph!Aliased

\* So the badge of a check lands on the node of the retry of its step and pass.
LEMMA GraphBadgeIs ==
    ASSUME NEW run, Graph!Poured(run), NEW i \in 1 .. run.passes, NEW s \in Graph!Range(Line)
    PROVE  Graph!resolveBadgeTarget(run, <<"check", i, s>>) = run.node[<<"retry", i, s>>]
  <1>1. PICK check : check = <<"check", i, s>>
    OBVIOUS
  <1>2. Graph!Pass(check) = i /\ Graph!Step(check) = s
    BY <1>1 DEF Graph!Pass, Graph!Step
  <1>3. PICK candidates : candidates = Graph!CandidatesOf(run, check)
    OBVIOUS
  <1>4. DOMAIN candidates \in SUBSET Nat /\ 1 \in DOMAIN candidates /\ candidates[1] = <<"ref", i, s, 0>>
        /\ \A j \in DOMAIN candidates : 1 <= j
    <2>1. CASE run.stepId
      <3>1. candidates = <<<<"ref", i, s, 0>>, <<"step", s>>, <<"segment", s>>>>
        BY <1>2, <1>3, <2>1 DEF Graph!CandidatesOf
      <3> QED
        BY <3>1
    <2>2. CASE ~run.stepId
      <3>1. candidates = <<<<"ref", i, s, 0>>, <<"segment", s>>>>
        BY <1>2, <1>3, <2>2 DEF Graph!CandidatesOf
      <3> QED
        BY <3>1
    <2> QED
      BY <2>1, <2>2
  <1>5. PICK found : found = {j \in DOMAIN candidates : Graph!Cardinality(Graph!Aliased(run, candidates[j])) = 1}
    OBVIOUS
  <1>6. Graph!resolveBadgeTarget(run, check) =
          IF found = {} THEN <<"segment", s>> ELSE CHOOSE node \in Graph!Aliased(run, candidates[Graph!Min(found)]) : TRUE
    BY <1>2, <1>3, <1>5 DEF Graph!resolveBadgeTarget
  <1>7. Graph!Aliased(run, candidates[1]) = {run.node[<<"retry", i, s>>]}
    BY <1>4, GraphReferenceIs
  <1>8. 1 \in found
    BY <1>4, <1>5, <1>7, FS_Singleton, GraphSameSets
  <1>9. Graph!Min(found) = 1
    <2>1. \A j \in found : j \in Nat /\ 1 <= j
      BY <1>4, <1>5
    <2>2. \E x \in found : \A y \in found : x <= y
      BY <1>8, <2>1
    <2>3. Graph!Min(found) \in found /\ Graph!Min(found) <= 1
      BY <1>8, <2>2 DEF Graph!Min
    <2> QED
      BY <2>1, <2>3
  <1> QED
    BY <1>1, <1>6, <1>7, <1>8, <1>9

LEMMA GraphBadgesHold == ASSUME NEW run, Graph!Poured(run) PROVE Graph!BadgesStayInTheirPass(run) /\ Graph!BadgesAreKept(run)
  <1>1. ASSUME NEW check \in Graph!Checks(run)
        PROVE  LET node == Graph!resolveBadgeTarget(run, check)
               IN  /\ node \in Graph!Nodes(run)
                   /\ \A b \in Graph!BeadsOf(run, node) : Graph!Step(b) = Graph!Step(check)
                   /\ \E b \in Graph!BeadsOf(run, node) : Graph!Pass(b) = Graph!Pass(check)
    <2>1. PICK i \in 1 .. run.passes, s \in Graph!Range(Line) : check = <<"check", i, s>>
      BY DEF Graph!Checks
    <2>2. PICK r : r = <<"retry", i, s>>
      OBVIOUS
    <2>3. r \in Graph!Visible(run) /\ Graph!Pass(r) = Graph!Pass(check) /\ Graph!Step(r) = Graph!Step(check)
      BY <2>1, <2>2, GraphReferenceIs DEF Graph!Pass, Graph!Step
    <2>4. Graph!resolveBadgeTarget(run, check) = run.node[r]
      BY <2>1, <2>2, GraphBadgeIs
    <2>5. \A b \in Graph!BeadsOf(run, run.node[r]) : Graph!Step(b) = Graph!Step(r)
      BY <2>3, GraphNodeStep DEF Graph!BeadsOf
    <2>6. r \in Graph!BeadsOf(run, run.node[r])
      BY <2>3 DEF Graph!BeadsOf
    <2> QED
      BY <2>3, <2>4, <2>5, <2>6, GraphNodeIs
  <1> QED
    BY <1>1 DEF Graph!BadgesStayInTheirPass, Graph!BadgesAreKept

LEMMA GraphProgressIs ==
    ASSUME NEW status
    PROVE  Graph!statusProgressOrder(status) \in 0 .. 4 /\ (Graph!statusProgressOrder(status) = 4 <=> status \in Graph!Terminal)
  BY DEF Graph!statusProgressOrder, Graph!Terminal

\* A node has an execution none of its others goes before.
LEMMA GraphPreferredIs ==
    ASSUME NEW run, Graph!Poured(run), NEW b0 \in Graph!Visible(run)
    PROVE  LET node == run.node[b0]
               p == Graph!preferredExecutionInstance(run, node)
           IN  p \in Graph!BeadsOf(run, node) /\ \A c \in Graph!BeadsOf(run, node) : ~Graph!Precedes(run, p, c)
  <1>1. PICK B : B = Graph!BeadsOf(run, run.node[b0])
    OBVIOUS
  <1>2. b0 \in B /\ B \subseteq Graph!Visible(run) /\ \A b \in B : Graph!Step(b) = Graph!Step(b0)
    BY <1>1, GraphNodeStep DEF Graph!BeadsOf
  <1>3. PICK k \in Nat : k = run.passes
    BY DEF Graph!Poured
  <1>4. PICK p \in {Graph!Pass(b) : b \in B} : \A y \in {Graph!Pass(b) : b \in B} : y <= p
    <2>1. PICK T : T = {Graph!Pass(b) : b \in B}
      OBVIOUS
    <2>2. T \in SUBSET (0 .. k) /\ T # {}
      <3>1. \A b \in B : Graph!Pass(b) \in 0 .. k
        BY <1>2, <1>3, GraphVisibleIs
      <3> QED
        BY <1>2, <2>1, <3>1
    <2> QED
      BY <2>1, <2>2, GreatestExists
  <1>5. PICK L : L = {b \in B : Graph!Pass(b) = p}
    OBVIOUS
  <1>6. L # {} /\ L \subseteq B
    BY <1>4, <1>5
  <1>7. PICK n \in Nat : \A b \in L : Graph!LatestOf(run, b) = n
    <2>1. PICK b1 \in L : TRUE
      BY <1>6
    <2>2. \A b \in L : Graph!LatestOf(run, b) = Graph!LatestOf(run, b1)
      BY <1>2, <1>5, <1>6, <2>1 DEF Graph!LatestOf
    <2>3. Graph!LatestOf(run, b1) \in Nat
      BY <1>2, <1>6, GraphAttemptIs
    <2> QED
      BY <2>2, <2>3
  <1>8. PICK a \in {Graph!attemptFor(run, b) : b \in L} : \A y \in {Graph!attemptFor(run, b) : b \in L} : y <= a
    <2>1. PICK T : T = {Graph!attemptFor(run, b) : b \in L}
      OBVIOUS
    <2>2. T \in SUBSET (0 .. n) /\ T # {}
      <3>1. \A b \in L : Graph!attemptFor(run, b) \in 0 .. n
        BY <1>2, <1>6, <1>7, GraphAttemptIs
      <3> QED
        BY <1>6, <2>1, <3>1
    <2> QED
      BY <2>1, <2>2, GreatestExists
  <1>9. PICK M : M = {b \in L : Graph!attemptFor(run, b) = a}
    OBVIOUS
  <1>10. M # {} /\ M \subseteq L
    BY <1>8, <1>9
  <1>11. PICK o \in {Graph!statusProgressOrder(run.status[b]) : b \in M} :
           \A y \in {Graph!statusProgressOrder(run.status[b]) : b \in M} : y <= o
    <2>1. PICK T : T = {Graph!statusProgressOrder(run.status[b]) : b \in M}
      OBVIOUS
    <2>2. T \in SUBSET (0 .. 4) /\ T # {}
      <3>1. \A b \in M : Graph!statusProgressOrder(run.status[b]) \in 0 .. 4
        BY GraphProgressIs
      <3> QED
        BY <1>10, <2>1, <3>1
    <2> QED
      BY <2>1, <2>2, GreatestExists
  <1>12. PICK top \in M : Graph!statusProgressOrder(run.status[top]) = o
    BY <1>11
  <1>13. ASSUME NEW c \in B PROVE ~Graph!Precedes(run, top, c)
    <2>1. top \in L /\ top \in B /\ Graph!Pass(top) = p /\ Graph!attemptFor(run, top) = a
      BY <1>5, <1>6, <1>9, <1>10
    <2>2. /\ Graph!Pass(c) \in Nat /\ Graph!Pass(top) \in Nat /\ Graph!attemptFor(run, c) \in Nat /\ Graph!attemptFor(run, top) \in Nat
          /\ Graph!statusProgressOrder(run.status[c]) \in Nat /\ Graph!statusProgressOrder(run.status[top]) \in Nat
      BY <1>2, <2>1, GraphVisibleIs, GraphAttemptIs, GraphProgressIs
    <2>3. Graph!Pass(c) <= p
      BY <1>4
    <2>4. Graph!Pass(c) = p => Graph!attemptFor(run, c) <= a
      BY <1>5, <1>8
    <2>5. Graph!Pass(c) = p /\ Graph!attemptFor(run, c) = a => Graph!statusProgressOrder(run.status[c]) <= o
      BY <1>5, <1>9, <1>11
    <2> QED
      BY <1>12, <2>1, <2>2, <2>3, <2>4, <2>5 DEF Graph!Precedes
  <1>14. top \in B
    BY <1>6, <1>10
  <1> QED
    BY <1>1, <1>13, <1>14 DEF Graph!preferredExecutionInstance

\* A node with a bead of the pass of now is on the graph.
LEMMA GraphNowIsDrawn ==
    ASSUME NEW run, Graph!Poured(run), NEW b \in Graph!Visible(run), Graph!Pass(b) = run.passes
    PROVE  /\ run.node[b] \in Graph!Drawn(run) /\ ~Graph!historicalOnly(run, run.node[b])
           /\ Graph!Pass(Graph!preferredExecutionInstance(run, run.node[b])) = run.passes
  <1>1. PICK p : p = Graph!preferredExecutionInstance(run, run.node[b])
    OBVIOUS
  <1>2. p \in Graph!BeadsOf(run, run.node[b]) /\ ~Graph!Precedes(run, p, b)
    BY <1>1, GraphPreferredIs DEF Graph!BeadsOf
  <1>3. Graph!Pass(p) \in 1 .. run.passes /\ ~(Graph!Pass(p) < Graph!Pass(b)) /\ run.passes \in Nat
    BY <1>2, GraphVisibleIs DEF Graph!Precedes, Graph!BeadsOf, Graph!Poured
  <1>4. Graph!Pass(p) = run.passes
    BY <1>3
  <1> QED
    BY <1>1, <1>3, <1>4, GraphNodeIs DEF Graph!Drawn, Graph!historicalOnly, Graph!latestIterationsByLoop

LEMMA GraphRunningHolds == ASSUME NEW run, Graph!Poured(run) PROVE Graph!RunningIsWatched(run)
  <1>1. ASSUME NEW b \in Graph!Visible(run), run.status[b] = "active", Graph!Pass(b) = run.passes
        PROVE  /\ run.node[b] \in Graph!Drawn(run) /\ Graph!streamable(run, b)
               /\ Graph!displayStatusFor(run, run.node[b]) = "active"
    <2>1. Graph!streamable(run, b)
      BY <1>1, GraphNowIsDrawn DEF Graph!streamable, Graph!currentIteration
    <2>2. Graph!aggregateStatus(run, run.node[b]) = "active"
      BY <1>1 DEF Graph!aggregateStatus, Graph!BeadsOf
    <2> QED
      BY <1>1, <2>1, <2>2, GraphNowIsDrawn DEF Graph!displayStatusFor
  <1>2. ASSUME NEW b \in Graph!Visible(run), Graph!Pass(b) < run.passes PROVE ~Graph!streamable(run, b)
    BY <1>2 DEF Graph!streamable, Graph!currentIteration, Graph!historicalOnly, Graph!latestIterationsByLoop
  <1> QED
    BY <1>1, <1>2 DEF Graph!RunningIsWatched

LEMMA GraphEndedHolds == ASSUME NEW run, Graph!Poured(run) PROVE Graph!EndedIsNotWaiting(run)
  <1> SUFFICES ASSUME NEW b \in Graph!Attempts(run), run.logical, b[4] = Graph!LatestOf(run, b), run.status[b] \in Graph!Terminal
               PROVE  Graph!aggregateStatus(run, run.node[b]) \notin {"pending", "blocked"}
    BY DEF Graph!EndedIsNotWaiting
  <1>1. b \in Graph!Visible(run) /\ b[1] = "attempt"
    BY DEF Graph!Attempts, Graph!Visible, Graph!Retries
  <1>2. ASSUME NEW c \in Graph!Visible(run), run.node[c] = run.node[b]
        PROVE  Graph!ShellOf(c) = Graph!ShellOf(b)
    <2>1. run.node[b] = Graph!ShellOf(b)
      <3>1. b \notin Graph!referencedPhysicalLogicalTargets(run)
        BY <1>1 DEF Graph!referencedPhysicalLogicalTargets, Graph!ShellOf
      <3>2. Graph!groupingBaseSemanticId(run, b) = Graph!ShellOf(b) /\ Graph!duplicateResolutionIdentity(run, b) = Graph!ShellOf(b)
        BY <1>1, <3>1 DEF Graph!groupingBaseSemanticId, Graph!duplicateResolutionIdentity, Graph!semanticNodeIdFor, Graph!stableSemanticIdentity
      <3> QED
        BY <1>1, <3>2 DEF Graph!Poured, Graph!resolveBeadIdentities
    <2>2. run.node[c] \in {Graph!ShellOf(c), <<"step", Graph!Step(c)>>, Graph!fullStepRefIdentity(c)}
      BY <1>2, GraphNodeIs
    <2> QED
      BY <1>2, <2>1, <2>2 DEF Graph!ShellOf, Graph!fullStepRefIdentity
  <1>3. PICK p : p = Graph!preferredExecutionInstance(run, run.node[b])
    OBVIOUS
  <1>4. p \in Graph!BeadsOf(run, run.node[b]) /\ ~Graph!Precedes(run, p, b)
    BY <1>1, <1>3, GraphPreferredIs DEF Graph!BeadsOf
  <1>5. p \in Graph!Visible(run) /\ Graph!ShellOf(p) = Graph!ShellOf(b)
    BY <1>2, <1>4 DEF Graph!BeadsOf
  <1>6. Graph!Pass(p) = Graph!Pass(b) /\ Graph!Step(p) = Graph!Step(b) /\ Graph!LatestOf(run, p) = Graph!LatestOf(run, b)
    BY <1>5 DEF Graph!ShellOf, Graph!LatestOf
  <1>7. Graph!attemptFor(run, b) = Graph!LatestOf(run, b)
    BY <1>1 DEF Graph!attemptFor
  <1>8. /\ Graph!attemptFor(run, p) \in 0 .. Graph!LatestOf(run, b) /\ Graph!LatestOf(run, b) \in Nat
        /\ ~(Graph!attemptFor(run, p) < Graph!attemptFor(run, b))
        /\ Graph!attemptFor(run, p) = Graph!attemptFor(run, b) =>
             ~(Graph!statusProgressOrder(run.status[p]) < Graph!statusProgressOrder(run.status[b]))
    BY <1>1, <1>4, <1>5, <1>6, GraphAttemptIs DEF Graph!Precedes
  <1>9. Graph!statusProgressOrder(run.status[p]) = 4
    BY <1>7, <1>8, GraphProgressIs
  <1>10. run.status[p] \in Graph!Terminal
    BY <1>9, GraphProgressIs
  <1> QED
    BY <1>3, <1>10 DEF Graph!aggregateStatus, Graph!Terminal

\* In the pass of now a step that is not its node alone waits for the one before.
LEMMA GraphStepsAreLinked ==
    ASSUME NEW run, Graph!Poured(run), NEW k \in 1 .. Len(Line) - 1
    PROVE  <<run.node[<<"retry", run.passes, Line[k]>>], run.node[<<"retry", run.passes, Line[k + 1]>>]>>
             \in Graph!projectEdges(run)
  <1>0. /\ Len(Line) \in Nat /\ DOMAIN Line = 1 .. Len(Line) /\ k \in DOMAIN Line /\ k + 1 \in DOMAIN Line
        /\ run.passes \in 1 .. run.passes
    BY DEF Graph!Poured
  <1>1. PICK before : before = <<"retry", run.passes, Line[k]>>
    OBVIOUS
  <1>2. PICK after : after = <<"retry", run.passes, Line[k + 1]>>
    OBVIOUS
  <1>3. PICK check : check = <<"check", run.passes, Line[k]>>
    OBVIOUS
  <1>4. /\ before \in Graph!Retries(run) /\ before \in Graph!Visible(run) /\ Graph!Pass(before) = run.passes /\ Graph!Step(before) = Line[k]
        /\ after \in Graph!Retries(run) /\ after \in Graph!Visible(run) /\ Graph!Pass(after) = run.passes /\ Graph!Step(after) = Line[k + 1]
    BY <1>0, <1>1, <1>2 DEF Graph!Retries, Graph!Visible, Graph!Pass, Graph!Step, Graph!Range
  <1>5. <<before, check>> \in Graph!Deps(run)
    BY <1>3, <1>4 DEF Graph!Deps
  <1>6. <<check, after>> \in Graph!Deps(run)
    BY <1>0, <1>2, <1>3 DEF Graph!Deps
  <1>7. run.node[before] # run.node[after]
    <2>1. Line[k] # Line[k + 1]
      BY <1>0 DEF Graph!Poured, Graph!IsInjective
    <2> QED
      BY <1>4, <2>1, GraphNodeStep
  <1>8. run.node[before] \in Graph!Drawn(run) /\ run.node[after] \in Graph!Drawn(run)
    BY <1>4, GraphNowIsDrawn
  <1>9. PICK path : path = <<<<before, check>>, <<check, after>>>>
    OBVIOUS
  <1>10. path \in Graph!Deps(run) \X Graph!Deps(run) /\ path[1][1] = before /\ path[1][2] = path[2][1] /\ path[2][2] = after
    BY <1>5, <1>6, <1>9
  <1>11. <<run.node[before], run.node[after]>> \in
           {<<run.node[q[1][1]], run.node[q[2][2]]>> :
              q \in {p \in Graph!Deps(run) \X Graph!Deps(run) : p[1][1] \in Graph!Visible(run) /\ p[1][2] = p[2][1]}}
    BY <1>4, <1>10
  <1> QED
    BY <1>1, <1>2, <1>7, <1>8, <1>11 DEF Graph!projectEdges

LEMMA GraphReadyHolds == ASSUME NEW run, Graph!Poured(run) PROVE Graph!ReadyIsReady(run)
  <1> SUFFICES ASSUME NEW k \in 1 .. Len(Line) - 1
               PROVE  LET before == run.node[<<"retry", run.passes, Line[k]>>]
                          after == run.node[<<"retry", run.passes, Line[k + 1]>>]
                      IN  Graph!displayStatusFor(run, after) = "ready" =>
                            Graph!aggregateStatus(run, after) = "ready" \/ Graph!aggregateStatus(run, before) \in Graph!Terminal
    BY DEF Graph!ReadyIsReady
  <1>1. PICK before : before = run.node[<<"retry", run.passes, Line[k]>>]
    OBVIOUS
  <1>2. PICK after : after = run.node[<<"retry", run.passes, Line[k + 1]>>]
    OBVIOUS
  <1>3. PICK edge : edge = <<before, after>>
    OBVIOUS
  <1>4. edge \in Graph!projectEdges(run) /\ edge[1] = before /\ edge[2] = after
    BY <1>1, <1>2, <1>3, GraphStepsAreLinked
  <1>5. before \in {e[1] : e \in {f \in Graph!projectEdges(run) : f[2] = after}}
    BY <1>4
  <1> QED
    BY <1>1, <1>2, <1>5 DEF Graph!displayStatusFor

LEMMA GraphHolds == ASSUME NEW run, Graph!Poured(run) PROVE Graph!GraphIsHonest(run)
  BY GraphBadgesHold, GraphRunningHolds, GraphEndedHolds, GraphReadyHolds DEF Graph!GraphIsHonest

-----------------------------------------------------------------------------
\* The subject of a behaviour stays, and its steps are steps of its component.
LEMMA OneSubject ==
    ASSUME [PagesNext]_All
    PROVE  /\ subject' = subject
           /\ [Next]_vars
           /\ subject \in {"marks", "boxes"} => [Marks!Next]_(Marks!vars)
           /\ subject = "thread" => [Thread!Next]_(Thread!vars)
           /\ subject = "viewing" => [Viewing!Next]_(Viewing!vars)
           /\ subject = "tail" => [Turns!Next]_(Turns!vars)
           /\ subject = "details" => [Details!Next]_(Details!vars)
           /\ subject \in {"bulk", "form"} => [Forms!Next]_(Forms!vars)
           /\ subject = "page" => [Page!Next]_(Page!vars)
           /\ subject = "reef" => [Water!Next]_(Water!vars)
           /\ subject = "board" => [Attending!Next]_(Attending!vars)
           /\ subject = "lanes" => [Lanes!Next]_(Lanes!vars)
           /\ subject \in Rules => UNCHANGED v1
  <1>0. Rules = {"beads", "items", "graph", "links", "convoy", "target", "detail", "folders", "nodes"}
    BY DEF Rules
  <1>1. CASE UNCHANGED All
    <2>1. /\ subject' = subject /\ UNCHANGED vars
          /\ UNCHANGED <<v1, v2, v3, v4, v5, v6, v7, v8, v9, v10, v11, v12, v13, v14, v15, v16, v17, v18, v19>>
      BY <1>1 DEF All, Summarizing
    <2> QED
      BY <2>1 DEF Marks!vars, Marks!rows, Marks!panelVars, Thread!vars, Viewing!vars, Turns!vars, Details!vars,
        Forms!vars, Forms!bulk, Forms!dialog, Page!vars, Page!panelVars, Page!diffVars, Water!vars,
        Attending!vars, Lanes!vars
  <1>2. CASE SummaryNext
    BY <1>0, <1>2 DEF SummaryNext, SummaryStep
  <1>3. CASE MarksNext
    BY <1>0, <1>3 DEF MarksNext, MarksStep, Summarizing
  <1>4. CASE ThreadNext
    BY <1>0, <1>4 DEF ThreadNext, ThreadStep, Summarizing
  <1>5. CASE ViewingNext
    BY <1>0, <1>5 DEF ViewingNext, ViewingStep, Summarizing
  <1>6. CASE TurnsNext
    BY <1>0, <1>6 DEF TurnsNext, TurnsStep, Summarizing
  <1>7. CASE DetailsNext
    BY <1>0, <1>7 DEF DetailsNext, DetailsStep, Summarizing
  <1>8. CASE BulkNext \/ FormNext
    BY <1>0, <1>8 DEF BulkNext, BulkStep, FormNext, FormStep, Summarizing, Forms!Next
  <1>9. CASE WaterNext
    BY <1>0, <1>9 DEF WaterNext, WaterStep, Summarizing
  <1>10. CASE PageNext
    BY <1>0, <1>10 DEF PageNext, PageStep, Summarizing
  <1>11. CASE BoardNext
    BY <1>0, <1>11 DEF BoardNext, BoardStep, Summarizing
  <1>12. CASE LanesNext
    BY <1>0, <1>12 DEF LanesNext, LanesStep, Summarizing
  <1> QED
    BY <1>1, <1>2, <1>3, <1>4, <1>5, <1>6, <1>7, <1>8, <1>9, <1>10, <1>11, <1>12 DEF PagesNext

\* The invariant of the component that is the subject.
SubjectIInv ==
    /\ IInv
    /\ subject \in {"marks", "boxes"} => Marks!IInv
    /\ subject = "thread" => Thread!IInv
    /\ subject = "viewing" => Viewing!IInv
    /\ subject = "tail" => Turns!IInv
    /\ subject = "details" => Details!IInv
    /\ subject \in {"bulk", "form"} => Forms!IInv
    /\ subject = "page" => Page!IInv
    /\ subject = "reef" => Water!IInv
    /\ subject = "board" => Attending!IInv
    /\ subject = "lanes" => Lanes!IInv
    /\ subject \in Rules => v1 \in Inputs[subject]

\* It holds of every behaviour of the bench.
LEMMA PagesInvariant == PagesSpec => []SubjectIInv
  <1> USE InstancesAreAllowed
  <1>1. ASSUME PagesInit PROVE SubjectIInv
    <2>1. Rules = {"beads", "items", "graph", "links", "convoy", "target", "detail", "folders", "nodes"}
      BY DEF Rules
    <2>2. subject \in Rules => v1 \in Inputs[subject]
      BY <1>1, <2>1 DEF PagesInit
    <2>3. subject \notin Rules => SubjectIInv
      BY <1>1, InitIInv, MarksInitIInv, ThreadInitIInv, ViewingInitIInv, TurnsInitIInv, DetailsInitIInv,
        FormsInitIInv, PageInitIInv, WaterInitIInv, AttendingInitIInv, LanesInitIInv DEF PagesInit, SubjectIInv
    <2>4. IInv
      BY <1>1, InitIInv DEF PagesInit
    <2> QED
      BY <2>1, <2>2, <2>3, <2>4 DEF SubjectIInv
  <1>2. ASSUME SubjectIInv, [PagesNext]_All PROVE SubjectIInv'
    <2>1. IInv'
      BY <1>2, OneSubject, NextIInv DEF SubjectIInv
    <2>2. subject \in {"marks", "boxes"} => Marks!IInv'
      BY <1>2, OneSubject, MarksNextIInv DEF SubjectIInv
    <2>3. subject = "thread" => Thread!IInv'
      BY <1>2, OneSubject, ThreadNextIInv DEF SubjectIInv
    <2>4. subject = "viewing" => Viewing!IInv'
      BY <1>2, OneSubject, ViewingNextIInv DEF SubjectIInv
    <2>5. subject = "tail" => Turns!IInv'
      BY <1>2, OneSubject, TurnsNextIInv DEF SubjectIInv
    <2>6. subject = "details" => Details!IInv'
      BY <1>2, OneSubject, DetailsNextIInv DEF SubjectIInv
    <2>7. subject \in {"bulk", "form"} => Forms!IInv'
      BY <1>2, OneSubject, FormsNextIInv DEF SubjectIInv
    <2>8. subject = "page" => Page!IInv'
      BY <1>2, OneSubject, PageNextIInv DEF SubjectIInv
    <2>9. subject = "reef" => Water!IInv'
      BY <1>2, OneSubject, WaterNextIInv DEF SubjectIInv
    <2>10. subject = "board" => Attending!IInv'
      BY <1>2, OneSubject, AttendingNextIInv DEF SubjectIInv
    <2>11. subject = "lanes" => Lanes!IInv'
      BY <1>2, OneSubject, LanesNextIInv DEF SubjectIInv
    <2> QED
      BY <1>2, <2>1, <2>2, <2>3, <2>4, <2>5, <2>6, <2>7, <2>8, <2>9, <2>10, <2>11, OneSubject DEF SubjectIInv
  <1> QED
    BY <1>1, <1>2, PTL DEF PagesSpec

\* An answer is shown under the question it answers (openThread,
\* useSessionStream.ts, BeadDetailModal.tsx, useCachedData.ts,
\* FormulaRunDetail.tsx).
THEOREM AnswersAreOfTheQuestion == PagesSpec => []AnswersBelong
  <1>1. SubjectIInv => AnswersBelong
    BY InstancesAreAllowed, ThreadBelongs, TurnsTailIs, PageIsTrue
      DEF SubjectIInv, AnswersBelong, Details!IInv, Marks!IInv
  <1> QED
    BY <1>1, PagesInvariant, PTL

\* A mark that was written is shown, and a bead that was not slung was told of
\* (mail-read.ts, Beads.tsx).
THEOREM WritesStayInSight == PagesSpec => []WritesAreSeen
  <1>1. SubjectIInv => WritesAreSeen
    BY InstancesAreAllowed, MarksShow DEF SubjectIInv, WritesAreSeen, Forms!IInv
  <1> QED
    BY <1>1, PagesInvariant, PTL

\* Whose mail is read was chosen (ViewingAsContext.tsx, aliasPriority.ts).
THEOREM EyesStayChosen == PagesSpec => []EyesAreChosen
  <1>1. SubjectIInv => EyesAreChosen
    BY InstancesAreAllowed, ViewingTiers DEF SubjectIInv, EyesAreChosen, Viewing!IInv
  <1> QED
    BY <1>1, PagesInvariant, PTL

\* What the aquarium says of the city is so (deriveWorld.ts, flow.ts,
\* ledgerEligibility.ts).
THEOREM ReefTellsTheTruth == PagesSpec => []ReefIsTrue
  <1>1. SubjectIInv => ReefIsTrue
    BY InstancesAreAllowed, WaterReefHolds DEF SubjectIInv, ReefIsTrue
  <1> QED
    BY <1>1, PagesInvariant, PTL

\* No step undoes what the operator has: lanes that are shown, the floor
\* between event refreshes, what was slung and selected, a fish that was seen
\* within its window (runSummarySubscription.tsx, Maintainer.tsx,
\* tombstones.ts).
THEOREM NothingUndone == PagesSpec => NothingIsUndone
  <1> DEFINE Whatever ==
        /\ subject = "summary" => Keeps /\ KeepsFloor
        /\ subject = "bulk" => Forms!SlingsOnce /\ Forms!DropsNothing
        /\ subject = "reef" => Water!FishStay
  <1>1. ASSUME SubjectIInv, [PagesNext]_All PROVE Whatever
    <2> USE <1>1, InstancesAreAllowed
    <2>1. Keeps /\ KeepsFloor
      BY OneSubject, StepKeeps, StepKeepsFloor DEF SubjectIInv
    <2>2. subject = "bulk" => Forms!SlingsOnce /\ Forms!DropsNothing
      BY OneSubject, FormsBulkKeeps DEF SubjectIInv
    <2>3. subject = "reef" => Water!FishStay
      BY OneSubject, WaterNextIInv DEF SubjectIInv
    <2> QED
      BY <2>1, <2>2, <2>3
  <1>2. SubjectIInv /\ [PagesNext]_All => [Whatever]_All
    BY <1>1
  <1>3. PagesSpec => [][Whatever]_All
    <2> HIDE DEF Whatever
    <2> QED
      BY <1>2, PagesInvariant, PTL DEF PagesSpec
  <1> QED
    BY <1>3 DEF NothingIsUndone

\* Every page keeps the types of its module.
THEOREM PagesTypes == PagesSpec => []TypesOK
  <1>1. SubjectIInv => TypesOK
    BY DEF SubjectIInv, TypesOK, IInv, Marks!IInv, Thread!IInv, Viewing!IInv, Turns!IInv, Details!IInv,
      Forms!IInv, Page!IInv, Water!IInv, Attending!IInv, Lanes!IInv
  <1> QED
    BY <1>1, PagesInvariant, PTL

\* A board that is calm was read, one that says all sources are live does not
\* outlast a read that hangs, each need is asked once, and what the short list
\* leaves out is counted, for all facts (compose.ts, liveContributors.ts,
\* attention/derive).
THEOREM UrgencyStaysInSight == PagesSpec => []NothingUrgentIsHidden
  <1>1. ASSUME SubjectIInv PROVE NothingUrgentIsHidden
    <2>1. subject = "board" => Attending!CalmWasRead /\ Attending!AllLiveIsCurrent
      BY <1>1, InstancesAreAllowed, AttendingCalm, AttendingCurrent DEF SubjectIInv
    <2>2. subject = "beads" => Attending!EachNeedIsAskedOnce(v1)
      <3>1. subject = "beads" => v1 \in Inputs["beads"]
        BY <1>1 DEF SubjectIInv, Rules
      <3>2. subject = "beads" => Attending!Kept(v1) /\ None \notin {"attention", "watch"}
        BY <3>1, InstancesAreAllowed DEF InputsAreAllowed
      <3> QED
        BY <3>2, BeadsNeedsHold
    <2>3. subject = "items" => Attending!NothingUrgentIsHidden(v1.facts, v1.moved)
      <3>1. subject = "items" => v1 \in Inputs["items"]
        BY <1>1 DEF SubjectIInv, Rules
      <3>2. subject = "items" => Attending!Gathered(v1.facts, v1.moved)
        BY <3>1, InstancesAreAllowed DEF InputsAreAllowed
      <3> QED
        BY <3>2, ItemsHold
    <2> QED
      BY <2>1, <2>2, <2>3 DEF NothingUrgentIsHidden
  <1>2. SubjectIInv => NothingUrgentIsHidden
    BY <1>1
  <1> QED
    BY <1>2, PagesInvariant, PTL

\* The lane of a run says what its beads say, for every formula and however
\* often its steps are tried; that a step which climbs is called thrashing
\* takes that only the steps of a loop are tried again (summary.ts, phaseMapping.ts,
\* health.ts, liveness.ts).
THEOREM LanesAreHonest ==
    PagesSpec =>
      [](subject = "lanes" =>
           /\ Lanes!FailureIsShown /\ Lanes!PhaseWasReached /\ Lanes!StrandedIsOrphan
           /\ Lanes!ThrashingIsOneStep
           /\ (\A s \in Lanes!Steps : StepTries[s] > 1 => s \in Looped) => Lanes!ClimbersThrash)
  <1> DEFINE Honest ==
        /\ Lanes!FailureIsShown /\ Lanes!PhaseWasReached /\ Lanes!StrandedIsOrphan
        /\ Lanes!ThrashingIsOneStep
        /\ (\A s \in Lanes!Steps : StepTries[s] > 1 => s \in Looped) => Lanes!ClimbersThrash
  <1>1. ASSUME SubjectIInv, subject = "lanes" PROVE Honest
    <2>1. Lanes!Assumptions /\ Lanes!IInv
      BY <1>1, InstancesAreAllowed DEF SubjectIInv
    <2>2. Lanes!FailureIsShown /\ Lanes!PhaseWasReached /\ Lanes!StrandedIsOrphan /\ Lanes!ThrashingIsOneStep
      BY <2>1, LanesFailureShows, LanesPhaseReached, LanesStrandedIs, LanesThrashingIs
    <2>3. (\A s \in Lanes!Steps : StepTries[s] > 1 => s \in Looped) => Lanes!ClimbersThrash
      BY <2>1, LanesClimbersAre
    <2> QED
      BY <2>2, <2>3
  <1>2. SubjectIInv => (subject = "lanes" => Honest)
    BY <1>1
  <1>3. PagesSpec => [](subject = "lanes" => Honest)
    <2> HIDE DEF Honest
    <2> QED
      BY <1>2, PagesInvariant, PTL
  <1> QED
    BY <1>3

\* What the pages say of a run is so: its lane, its graph, its detail, the
\* folder it works in and the tab a node opens on, for every formula and all
\* that was poured of it (summary.ts, session-link.ts, resolveBadgeTarget and
\* the graph's nodes, RunNodeSessionPanel.tsx); of the lane it takes that only
\* the steps of a loop are tried again.
THEOREM RunsStayHonest ==
    ASSUME \A s \in Lanes!Steps : StepTries[s] > 1 => s \in Looped
    PROVE  PagesSpec => []RunsAreHonest
  <1>1. ASSUME SubjectIInv PROVE RunsAreHonest
    <2>1. subject = "lanes" =>
            /\ Lanes!FailureIsShown /\ Lanes!PhaseWasReached /\ Lanes!StrandedIsOrphan
            /\ Lanes!ThrashingIsOneStep /\ Lanes!ClimbersThrash
      <3>1. subject = "lanes" => Lanes!Assumptions /\ Lanes!IInv
        BY <1>1, InstancesAreAllowed DEF SubjectIInv
      <3> QED
        BY <3>1, LanesFailureShows, LanesPhaseReached, LanesStrandedIs, LanesThrashingIs, LanesClimbersAre
    <2>2. subject \in {"graph", "detail", "folders", "nodes"} => v1 \in Inputs[subject]
      BY <1>1 DEF SubjectIInv, Rules
    <2>3. subject = "graph" => Graph!GraphIsHonest(v1)
      <3>1. subject = "graph" => Graph!Poured(v1)
        BY <2>2, InstancesAreAllowed DEF InputsAreAllowed
      <3> QED
        BY <3>1, GraphHolds
    <2>4. subject = "detail" => Run!DetailIsHonest(v1)
      <3>1. subject = "detail" => Run!Answered(v1)
        BY <2>2, InstancesAreAllowed DEF InputsAreAllowed
      <3> QED
        BY <3>1, RunDetailHolds
    <2>5. subject = "folders" => Run!PathIsTheRuns(v1.root, <<v1.bead>>)
      <3>1. subject = "folders" => Run!Recorded(v1.root)
        BY <2>2, InstancesAreAllowed DEF InputsAreAllowed
      <3>2. PICK T : T = {v1.root, v1.bead}
        OBVIOUS
      <3>3. v1.root \in T /\ <<v1.bead>> \in Seq(T)
        BY <3>2
      <3> QED
        BY <3>1, <3>3, RunFolderHolds
    <2>6. subject = "nodes" => Run!OpensOnATranscript(v1.instances, v1.visible)
      <3> SUFFICES ASSUME subject = "nodes" PROVE Run!OpensOnATranscript(v1.instances, v1.visible)
        OBVIOUS
      <3>1. /\ v1.visible \in DOMAIN v1.instances
            /\ v1.instances \in Seq({v1.instances[i] : i \in DOMAIN v1.instances})
        BY <2>2, InstancesAreAllowed DEF InputsAreAllowed
      <3>2. PICK k \in Nat : k = Len(v1.instances)
        BY <3>1
      <3>3. DOMAIN v1.instances = 1 .. k
        BY <3>1, <3>2
      <3>4. DOMAIN v1.instances \in SUBSET (0 .. k)
        BY <3>3
      <3> QED
        BY <3>1, <3>4, OpenedOpensHolds
    <2> QED
      BY <2>1, <2>3, <2>4, <2>5, <2>6 DEF RunsAreHonest
  <1>2. SubjectIInv => RunsAreHonest
    BY <1>1
  <1> QED
    BY <1>2, PagesInvariant, PTL

\* Links lead to live beads and back, a convoy shown as whole is whole, and a
\* live session that carries a target is found, for any city
\* (build-link-view.ts, convoy-view.ts, session-resolve.ts).
THEOREM LinksStayTrue == PagesSpec => []LinksAreTrue
  <1>1. ASSUME SubjectIInv PROVE LinksAreTrue
    <2>1. subject \in {"links", "convoy", "target"} => v1 \in Inputs[subject]
      BY <1>1 DEF SubjectIInv, Rules
    <2>2. subject = "links" => Linked!LinksAreTrue(v1.city, v1.page, v1.sessions)
      <3>1. subject = "links" => Linked!Told(v1.city, v1.page, v1.sessions)
        BY <2>1, InstancesAreAllowed DEF InputsAreAllowed
      <3> QED
        BY <3>1, RelatedLinksHold
    <2>3. subject = "convoy" => Linked!ConvoyIsWhole(v1.city, v1.page, v1.walked, v1.root)
      <3>1. subject = "convoy" => Linked!Read(v1.city, v1.page, v1.walked, v1.root)
        BY <2>1, InstancesAreAllowed DEF InputsAreAllowed
      <3> QED
        BY <3>1, ConvoyHolds
    <2>4. subject = "target" => Linked!TargetIsFound(v1.sessions, v1.target)
      <3>1. subject = "target" => DOMAIN v1.sessions \in SUBSET Nat /\ None \notin DOMAIN v1.sessions
        BY <2>1, InstancesAreAllowed DEF InputsAreAllowed
      <3> QED
        BY <3>1, RelatedTargetHolds
    <2> QED
      BY <2>2, <2>3, <2>4 DEF LinksAreTrue
  <1>2. SubjectIInv => LinksAreTrue
    BY <1>1
  <1> QED
    BY <1>2, PagesInvariant, PTL

\* Of any beads, each decision is asked for once, none is unclaimed work too,
\* and nothing open and waiting is left out (attention/derive/beads.ts).
THEOREM NeedsAreAskedOnce ==
    ASSUME NEW w, Attending!Kept(w), None \notin {"attention", "watch"}
    PROVE  Attending!EachNeedIsAskedOnce(w)
  BY BeadsNeedsHold

\* On any page of any city, a link leads to a bead that is live there and back
\* again, never to an attempt that was superseded, and what a whole view does
\* not resolve is not live in the city (build-link-view.ts).
THEOREM LinksLeadTrue ==
    ASSUME NEW city, NEW page, NEW sessions, Linked!Told(city, page, sessions)
    PROVE  Linked!LinksAreTrue(city, page, sessions)
  BY RelatedLinksHold

\* In any list of sessions, a target that one carries is found, and a live one
\* before one that has ended (session-resolve.ts).
THEOREM TargetsAreFound ==
    ASSUME NEW sessions, NEW target, DOMAIN sessions \in SUBSET Nat, None \notin DOMAIN sessions
    PROVE  Linked!TargetIsFound(sessions, target)
  BY RelatedTargetHolds

\* Of any executions of a node, its tab opens on one with a transcript while any
\* has one, and on one that can be watched while any can (RunNodeSessionPanel.tsx).
THEOREM NodeOpensOnTranscript ==
    ASSUME NEW instances, NEW k \in Nat, DOMAIN instances \in SUBSET (0 .. k), NEW visible \in DOMAIN instances
    PROVE  Run!OpensOnATranscript(instances, visible)
  BY OpenedOpensHolds

\* In any city, a convoy that is shown as whole has every step below its root,
\* and calls blocked each step that waits for one of them (convoy-view.ts).
THEOREM ConvoysAreWhole ==
    ASSUME NEW city, NEW page, NEW walked, NEW root, Linked!Read(city, page, walked, root)
    PROVE  Linked!ConvoyIsWhole(city, page, walked, root)
  BY ConvoyHolds

\* Of any run, the graph puts each verdict and what is running on the node and
\* the pass it belongs to (run-detail's graph of nodes).
THEOREM GraphsAreHonest ==
    ASSUME NEW run, Graph!Poured(run) PROVE Graph!GraphIsHonest(run)
  BY GraphHolds

\* Whatever the reads of a run's detail answered, the detail says why it has no
\* formula, which read failed, and leads to the session its bead names
\* (session-link.ts, formula names).
THEOREM DetailsAreHonest ==
    ASSUME NEW answers, Run!Answered(answers) PROVE Run!DetailIsHonest(answers)
  BY RunDetailHolds

\* Of any facts, what the short list leaves out is counted under its domain and
\* is no more urgent than what it shows, and a read that failed colours no
\* badge (compose.ts, attention/derive).
THEOREM NothingIsDroppedFromTheList ==
    ASSUME NEW facts, NEW moved, Attending!Gathered(facts, moved)
    PROVE  Attending!NothingUrgentIsHidden(facts, moved)
  BY ItemsHold

=============================================================================
