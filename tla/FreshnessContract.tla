------------------------- MODULE FreshnessContract -------------------------
(***************************************************************************)
(* What the cached reads of the supervisor proxy promise a caller, without *)
(* saying how: a read is answered with data the upstream produced no       *)
(* earlier than a floor fixed when the read was issued.  The floor of a    *)
(* forced read is the moment it was issued; that of any other read is the  *)
(* published freshness of the key, which never goes back.                  *)
(***************************************************************************)
EXTENDS Integers

CONSTANTS Keys, Callers

VARIABLES
    now,        \* the clock
    published,  \* key -> the newest upstream read published for it
    request     \* caller -> its request, or the answer to its last one

cvars == <<now, published, request>>

None == [state |-> "none"]
Asking(k, lo) == [state |-> "asking", key |-> k, floor |-> lo]
Answered(k, v) == [state |-> "answered", key |-> k, value |-> v]

CInit ==
    /\ now = 0
    /\ published = [k \in Keys |-> 0]
    /\ request = [c \in Callers |-> None]

Ask(c, k) ==
    /\ request[c].state # "asking"
    /\ \E lo \in {published[k], now} :
          request' = [request EXCEPT ![c] = Asking(k, lo)]
    /\ UNCHANGED <<now, published>>

\* A read answered on the spot, with what is published.
ReadPublished(c, k) ==
    /\ request[c].state # "asking"
    /\ request' = [request EXCEPT ![c] = Answered(k, published[k])]
    /\ UNCHANGED <<now, published>>

\* One upstream read of k, made at v, answers any set S of its callers and
\* may be published if it is no older than what is.
Deliver(k, S, v) ==
    /\ v <= now
    /\ \A c \in S : /\ request[c].state = "asking"
                    /\ request[c].key = k
                    /\ request[c].floor <= v
    /\ request' = [c \in Callers |->
                     IF c \in S THEN Answered(k, v) ELSE request[c]]
    /\ published' \in {published,
                       [published EXCEPT ![k] = IF v > @ THEN v ELSE @]}
    /\ UNCHANGED now

\* An upstream failure is reported to every caller that waited for it.
Refuse(S) ==
    /\ \A c \in S : request[c].state = "asking"
    /\ request' = [c \in Callers |-> IF c \in S THEN None ELSE request[c]]
    /\ UNCHANGED <<now, published>>

Pass ==
    /\ now' = now + 1
    /\ UNCHANGED <<published, request>>

CNext ==
    \/ \E c \in Callers, k \in Keys : Ask(c, k) \/ ReadPublished(c, k)
    \/ \E k \in Keys, S \in SUBSET Callers, v \in 0 .. now : Deliver(k, S, v)
    \/ \E S \in SUBSET Callers : Refuse(S)
    \/ Pass

CSpec == CInit /\ [][CNext]_cvars
=============================================================================
