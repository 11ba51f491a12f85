------------------------ MODULE SandboxLimiterProofs ------------------------
(***************************************************************************)
(* Proofs about the rate limit of the sandbox org, for any addresses, any  *)
(* window and any limit.                                                   *)
(***************************************************************************)
EXTENDS SandboxLimiter, FiniteSetTheorems, TLAPS

-----------------------------------------------------------------------------
(***************************************************************************)
(* The inductive invariant.  While the clock is not set back, the times of *)
(* the accepted requests are in order, and whatever is less than a window  *)
(* old is kept.                                                            *)
(***************************************************************************)
InOrder(a) ==
  \A k \in 1..Len(accepted[a]) :
    /\ accepted[a][k] <= now
    /\ \A j \in 1..k : accepted[a][j] <= accepted[a][k]

Kept(a) ==
  \A k \in 1..Len(accepted[a]) : now < accepted[a][k] + Window => k \in hits[a]

SteadyInv == steady => \A a \in Addresses : InOrder(a) /\ Kept(a)

\* The hits of each address are a set of positions.
HitsInv == hits \in [Addresses -> SUBSET Nat]

IInv == TypeOK /\ HitsInv /\ SteadyInv /\ AtMostTheLimit

-----------------------------------------------------------------------------
LEMMA Types ==
  ASSUME TypeOK, NEW a \in Addresses
  PROVE  /\ now \in Nat /\ Window \in Nat /\ RateLimit \in Nat
         /\ Window > 0 /\ RateLimit > 0
         /\ accepted[a] \in Seq(Nat) /\ Len(accepted[a]) \in Nat
         /\ \A k \in 1..Len(accepted[a]) : accepted[a][k] \in Nat
         /\ hits[a] \subseteq 1..Len(accepted[a])
<1>1. accepted[a] \in Seq(0..MaxTime)
  BY DEF TypeOK
<1>2. /\ Len(accepted[a]) \in Nat
      /\ DOMAIN accepted[a] = 1..Len(accepted[a])
      /\ \A k \in 1..Len(accepted[a]) : accepted[a][k] \in Nat
  BY <1>1, LimiterAssumption
<1>3. accepted[a] \in Seq(Nat)
  BY <1>1, LimiterAssumption
<1>4. QED
  BY <1>2, <1>3, LimiterAssumption DEF TypeOK

\* The hits in the window are finitely many, and positions of requests.
LEMMA FreshFacts ==
  ASSUME TypeOK, NEW a \in Addresses
  PROVE  /\ Fresh(a) \subseteq hits[a] /\ Fresh(a) \subseteq 1..Len(accepted[a])
         /\ IsFiniteSet(Fresh(a)) /\ Cardinality(Fresh(a)) \in Nat
         /\ Cardinality(Fresh(a)) <= Len(accepted[a])
<1>1. Fresh(a) \subseteq hits[a] /\ Fresh(a) \subseteq 1..Len(accepted[a])
  BY Types DEF Fresh
<1>2. 1 \in Int /\ Len(accepted[a]) \in Int /\ Len(accepted[a]) \in Nat
  BY Types
<1>3. /\ IsFiniteSet(1..Len(accepted[a]))
      /\ Cardinality(1..Len(accepted[a])) = Len(accepted[a])
  BY <1>2, FS_Interval
<1>4. IsFiniteSet(Fresh(a)) /\ Cardinality(Fresh(a)) <= Len(accepted[a])
  BY <1>1, <1>3, FS_Subset
<1>5. QED
  BY <1>1, <1>4, FS_CardinalityType

\* As many positions as an interval has, at least or at most.
LEMMA IntervalCounts ==
  ASSUME NEW m \in Nat, NEW n \in Nat, m <= n, NEW S, IsFiniteSet(S)
  PROVE  /\ (m + 1)..n \subseteq S => Cardinality(S) >= n - m
         /\ S \subseteq (m + 1)..n => Cardinality(S) <= n - m
<1>1. m + 1 \in Int /\ n \in Int
  OBVIOUS
<1>2. IsFiniteSet((m + 1)..n) /\ Cardinality((m + 1)..n) = IF m + 1 > n THEN 0 ELSE n - (m + 1) + 1
  BY <1>1, FS_Interval
<1>3. Cardinality((m + 1)..n) = n - m
  BY <1>2
<1>4. Cardinality(S) \in Nat
  BY FS_CardinalityType
<1>5. ASSUME (m + 1)..n \subseteq S PROVE Cardinality(S) >= n - m
  <2>1. Cardinality((m + 1)..n) <= Cardinality(S)
    BY <1>5, FS_Subset
  <2>2. QED
    BY <2>1, <1>3, <1>4
<1>6. ASSUME S \subseteq (m + 1)..n PROVE Cardinality(S) <= n - m
  <2>1. Cardinality(S) <= Cardinality((m + 1)..n)
    BY <1>6, <1>2, FS_Subset
  <2>2. QED
    BY <2>1, <1>3, <1>4
<1>7. QED
  BY <1>5, <1>6

(***************************************************************************)
(* What is in the window is an end of the sequence of accepted requests,   *)
(* so that the oldest of the last RateLimit of them tells whether the      *)
(* limit is used up.                                                       *)
(***************************************************************************)
LEMMA FullCounts ==
  ASSUME TypeOK, NEW a \in Addresses, InOrder(a), Kept(a)
  PROVE  Cardinality(Fresh(a)) >= RateLimit <=> Full(a)
<1> DEFINE n == Len(accepted[a])
           m == n - RateLimit
<1>1. /\ n \in Nat /\ RateLimit \in Nat /\ RateLimit > 0 /\ now \in Nat /\ Window \in Nat
      /\ \A k \in 1..n : accepted[a][k] \in Nat
  BY Types
<1>2. /\ Fresh(a) \subseteq 1..n /\ IsFiniteSet(Fresh(a)) /\ Cardinality(Fresh(a)) \in Nat
  BY FreshFacts
<1>3. CASE Full(a)
  <2>1. n >= RateLimit /\ now < accepted[a][m + 1] + Window
    BY <1>3 DEF Full
  <2>2. m \in Nat /\ m <= n /\ n - m = RateLimit /\ m + 1 \in 1..n
    BY <2>1, <1>1
  <2>3. ASSUME NEW k \in (m + 1)..n PROVE k \in Fresh(a)
    <3>1. k \in 1..n /\ m + 1 \in 1..k
      BY <2>2, <1>1
    <3>2. accepted[a][m + 1] <= accepted[a][k]
      BY <3>1 DEF InOrder
    <3>3. now < accepted[a][k] + Window
      BY <2>1, <2>2, <3>1, <3>2, <1>1
    <3>4. QED
      BY <3>1, <3>3 DEF Kept, Fresh
  <2>4. Cardinality(Fresh(a)) >= n - m
    BY <2>2, <2>3, <1>1, <1>2, IntervalCounts
  <2>5. QED
    BY <2>2, <2>4, <1>3
<1>4. CASE ~Full(a) /\ n < RateLimit
  <2>1. Cardinality(Fresh(a)) <= n
    BY FreshFacts
  <2>2. QED
    BY <2>1, <1>1, <1>2, <1>4
<1>5. CASE ~Full(a) /\ n >= RateLimit
  <2>1. m + 1 \in Nat /\ m + 1 \in 1..n /\ m + 1 <= n /\ n - (m + 1) = RateLimit - 1
    BY <1>1, <1>5
  <2>2. now >= accepted[a][m + 1] + Window
    BY <2>1, <1>1, <1>5 DEF Full
  <2>3. ASSUME NEW k \in Fresh(a) PROVE k \in (m + 1 + 1)..n
    <3>1. k \in 1..n /\ now < accepted[a][k] + Window
      BY <1>2 DEF Fresh
    <3>2. k \notin 1..(m + 1)
      <4>1. accepted[a][k] \in Nat /\ accepted[a][m + 1] \in Nat
        BY <3>1, <2>1, <1>1
      <4>2. k \in 1..(m + 1) => accepted[a][k] <= accepted[a][m + 1]
        BY <2>1 DEF InOrder
      <4>3. QED
        BY <4>1, <4>2, <3>1, <2>2, <1>1
    <3>3. ~(k <= m + 1)
      BY <3>1, <3>2, <2>1, <1>1
    <3>4. QED
      BY <3>1, <3>3, <2>1, <1>1
  <2>4. Cardinality(Fresh(a)) <= n - (m + 1)
    BY <2>1, <2>3, <1>1, <1>2, IntervalCounts
  <2>5. QED
    BY <2>1, <2>4, <1>1, <1>2, <1>5
<1>6. QED
  BY <1>1, <1>3, <1>4, <1>5

-----------------------------------------------------------------------------
LEMMA InitIInv == Init => IInv
<1> SUFFICES ASSUME Init PROVE IInv
  OBVIOUS
<1>1. /\ now = 0 /\ hits = [a \in Addresses |-> {}]
      /\ accepted = [a \in Addresses |-> <<>>] /\ steady = TRUE
  BY DEF Init
<1>2. \A a \in Addresses : Len(accepted[a]) = 0 /\ hits[a] = {}
  BY <1>1
<1>3. TypeOK
  <2>1. accepted \in [Addresses -> Seq(0..MaxTime)]
    <3>1. <<>> \in Seq(0..MaxTime)
      OBVIOUS
    <3>2. QED
      BY <3>1, <1>1
  <2>2. \A a \in Addresses : Cardinality(hits[a]) <= RateLimit
    <3>1. Cardinality({}) = 0
      BY FS_EmptySet
    <3>2. \A a \in Addresses : Cardinality(hits[a]) = 0
      BY <3>1, <1>2, Zenon
    <3>3. QED
      BY <3>2, LimiterAssumption
  <2>3. QED
    BY <1>1, <1>2, <2>1, <2>2, LimiterAssumption DEF TypeOK
<1>4. HitsInv
  BY <1>1 DEF HitsInv
<1>5. SteadyInv
  BY <1>2 DEF SteadyInv, InOrder, Kept
<1>6. AtMostTheLimit
  BY <1>2 DEF AtMostTheLimit
<1>7. QED
  BY <1>3, <1>4, <1>5, <1>6 DEF IInv

LEMMA AcceptIInv ==
  ASSUME IInv, NEW a \in Addresses, Accept(a)
  PROVE  IInv'
<1> DEFINE n == Len(accepted[a])
<1>0. TypeOK /\ HitsInv
  BY DEF IInv
<1>1. /\ Cardinality(Fresh(a)) < RateLimit
      /\ n < MaxAccepts
      /\ accepted' = [accepted EXCEPT ![a] = Append(accepted[a], now)]
      /\ hits' = [hits EXCEPT ![a] = Fresh(a) \cup {n + 1}]
      /\ UNCHANGED <<now, steady>>
  BY DEF Accept
<1>2. /\ now \in Nat /\ now \in 0..MaxTime /\ n \in Nat /\ RateLimit \in Nat /\ RateLimit > 0
      /\ Window \in Nat /\ Window > 0
      /\ accepted[a] \in Seq(0..MaxTime)
      /\ \A k \in 1..n : accepted[a][k] \in Nat
  BY <1>0, Types DEF TypeOK
<1>3. /\ accepted' \in [Addresses -> Seq(0..MaxTime)]
      /\ \A b \in Addresses : b # a => accepted'[b] = accepted[b]
      /\ accepted'[a] = Append(accepted[a], now)
  BY <1>0, <1>1, <1>2 DEF TypeOK
<1>4. /\ Len(accepted'[a]) = n + 1
      /\ DOMAIN accepted'[a] = 1..(n + 1)
      /\ \A k \in 1..n : accepted'[a][k] = accepted[a][k]
      /\ accepted'[a][n + 1] = now
  BY <1>2, <1>3
<1>5. Fresh(a) \subseteq hits[a] /\ Fresh(a) \subseteq 1..n /\ IsFiniteSet(Fresh(a))
      /\ Cardinality(Fresh(a)) \in Nat
  BY <1>0, FreshFacts
<1>6. /\ hits' \in [Addresses -> SUBSET Nat]
      /\ \A b \in Addresses : b # a => hits'[b] = hits[b]
      /\ hits'[a] = Fresh(a) \cup {n + 1}
  BY <1>0, <1>1, <1>2, <1>5 DEF HitsInv
<1>7. TypeOK'
  <2>1. Cardinality(hits'[a]) <= RateLimit
    <3>1. PICK F : F = Fresh(a)
      OBVIOUS
    <3>2. PICK x : x = n + 1
      OBVIOUS
    <3>3. /\ IsFiniteSet(F \cup {x})
          /\ Cardinality(F \cup {x}) = IF x \in F THEN Cardinality(F) ELSE Cardinality(F) + 1
      BY <3>1, <1>5, FS_AddElement
    <3>4. QED
      BY <3>1, <3>2, <3>3, <1>1, <1>2, <1>5, <1>6
  <2>2. \A b \in Addresses : Cardinality(hits'[b]) <= RateLimit
    BY <2>1, <1>0, <1>6 DEF TypeOK
  <2>3. \A b \in Addresses : Len(accepted'[b]) <= MaxAccepts
    BY <1>0, <1>1, <1>2, <1>3, <1>4, LimiterAssumption DEF TypeOK
  <2>4. hits'[a] \subseteq DOMAIN accepted'[a]
    BY <1>2, <1>4, <1>5, <1>6
  <2>5. \A b \in Addresses : hits'[b] \subseteq DOMAIN accepted'[b]
    BY <2>4, <1>0, <1>3, <1>6 DEF TypeOK
  <2>6. now' \in 0..MaxTime /\ steady' \in BOOLEAN
    BY <1>0, <1>1 DEF TypeOK
  <2>7. QED
    BY <2>2, <2>3, <2>5, <2>6, <1>3 DEF TypeOK
<1>8. HitsInv'
  BY <1>6 DEF HitsInv
<1>9. ASSUME steady PROVE InOrder(a)' /\ Kept(a)'
  <2>1. InOrder(a) /\ Kept(a)
    BY <1>9 DEF IInv, SteadyInv
  <2>2. InOrder(a)'
    <3>1. ASSUME NEW k \in 1..(n + 1)
          PROVE  /\ accepted'[a][k] <= now
                 /\ \A j \in 1..k : accepted'[a][j] <= accepted'[a][k]
      <4>1. CASE k \in 1..n
        <5>1. /\ accepted[a][k] <= now
              /\ \A j \in 1..k : accepted[a][j] <= accepted[a][k]
          BY <4>1, <2>1 DEF InOrder
        <5>2. \A j \in 1..k : j \in 1..n
          BY <4>1, <1>2
        <5>3. QED
          BY <4>1, <5>1, <5>2, <1>4
      <4>2. CASE k = n + 1
        <5>1. ASSUME NEW j \in 1..(n + 1) PROVE accepted'[a][j] <= now
          <6>1. CASE j \in 1..n
            BY <6>1, <2>1, <1>4 DEF InOrder
          <6>2. CASE j = n + 1
            BY <6>2, <1>2, <1>4
          <6>3. QED
            BY <6>1, <6>2, <1>2
        <5>2. QED
          BY <5>1, <4>2, <1>4
      <4>3. QED
        BY <4>1, <4>2, <1>2
    <3>2. QED
      BY <3>1, <1>1, <1>4 DEF InOrder
  <2>3. Kept(a)'
    <3>1. ASSUME NEW k \in 1..(n + 1), now < accepted'[a][k] + Window
          PROVE  k \in hits'[a]
      <4>1. CASE k \in 1..n
        BY <4>1, <3>1, <2>1, <1>4, <1>6 DEF Kept, Fresh
      <4>2. CASE k = n + 1
        BY <4>2, <1>6
      <4>3. QED
        BY <4>1, <4>2, <1>2
    <3>2. QED
      BY <3>1, <1>1, <1>4 DEF Kept
  <2>4. QED
    BY <2>2, <2>3
<1>10. SteadyInv'
  <2>1. ASSUME NEW b \in Addresses, b # a, steady PROVE InOrder(b)' /\ Kept(b)'
    BY <2>1, <1>1, <1>3, <1>6 DEF IInv, SteadyInv, InOrder, Kept
  <2>2. QED
    BY <2>1, <1>1, <1>9 DEF SteadyInv
<1>11. AtMostTheLimit'
  <2>1. ASSUME steady, NEW k \in 1..(n + 1), k + RateLimit <= n + 1
        PROVE  accepted'[a][k + RateLimit] >= accepted'[a][k] + Window
    <3>1. CASE k + RateLimit <= n
      <4>1. k \in 1..n /\ k + RateLimit \in 1..n
        BY <3>1, <1>2
      <4>2. accepted[a][k + RateLimit] >= accepted[a][k] + Window
        BY <4>1, <3>1, <2>1 DEF IInv, AtMostTheLimit
      <4>3. QED
        BY <4>1, <4>2, <1>4
    <3>2. CASE k + RateLimit = n + 1
      <4>1. k = n - RateLimit + 1 /\ n >= RateLimit /\ k \in 1..n
        BY <3>2, <1>2
      <4>2. InOrder(a) /\ Kept(a)
        BY <2>1 DEF IInv, SteadyInv
      <4>3. ~Full(a)
        BY <4>2, <1>0, <1>1, <1>2, <1>5, FullCounts
      <4>4. now >= accepted[a][k] + Window
        BY <4>1, <4>3, <1>2 DEF Full
      <4>5. QED
        BY <4>1, <4>4, <3>2, <1>4
    <3>3. QED
      BY <3>1, <3>2, <2>1, <1>2
  <2>2. ASSUME steady, NEW b \in Addresses, b # a, NEW k \in 1..Len(accepted'[b]),
               k + RateLimit <= Len(accepted'[b])
        PROVE  accepted'[b][k + RateLimit] >= accepted'[b][k] + Window
    BY <2>2, <1>3 DEF IInv, AtMostTheLimit
  <2>3. QED
    BY <2>1, <2>2, <1>1, <1>4 DEF AtMostTheLimit
<1>12. QED
  BY <1>7, <1>8, <1>10, <1>11 DEF IInv

LEMMA TickIInv ==
  ASSUME IInv, Tick
  PROVE  IInv'
<1>0. TypeOK
  BY DEF IInv
<1>1. now' = now + 1 /\ now < MaxTime /\ UNCHANGED <<hits, accepted, steady>>
  BY DEF Tick
<1>2. TypeOK'
  BY <1>0, <1>1, LimiterAssumption DEF TypeOK
<1>3. SteadyInv'
  <2>1. ASSUME steady, NEW a \in Addresses PROVE InOrder(a)' /\ Kept(a)'
    <3>1. InOrder(a) /\ Kept(a)
      BY <2>1 DEF IInv, SteadyInv
    <3>2. /\ now \in Nat /\ Window \in Nat
          /\ \A k \in 1..Len(accepted[a]) : accepted[a][k] \in Nat
      BY <1>0, Types
    <3>3. InOrder(a)'
      BY <3>1, <3>2, <1>1 DEF InOrder
    <3>4. Kept(a)'
      BY <3>1, <3>2, <1>1 DEF Kept
    <3>5. QED
      BY <3>3, <3>4
  <2>2. QED
    BY <2>1, <1>1 DEF SteadyInv
<1>4. QED
  BY <1>1, <1>2, <1>3 DEF IInv, HitsInv, AtMostTheLimit

LEMMA NextIInv == IInv /\ [Next]_vars => IInv'
<1> SUFFICES ASSUME IInv, [Next]_vars PROVE IInv'
  OBVIOUS
<1>1. CASE UNCHANGED vars
  BY <1>1 DEF vars, IInv, TypeOK, HitsInv, SteadyInv, InOrder, Kept, AtMostTheLimit
<1>2. ASSUME NEW a \in Addresses, Accept(a) \/ Refuse(a) PROVE IInv'
  BY <1>1, <1>2, AcceptIInv DEF Refuse
<1>3. ASSUME NEW t \in 0..MaxTime, SetBack(t) PROVE IInv'
  BY <1>3 DEF SetBack, IInv, TypeOK, HitsInv, SteadyInv, AtMostTheLimit
<1>4. QED
  BY <1>1, <1>2, <1>3, TickIInv DEF Next

LEMMA IInvAlways == Spec => []IInv
  BY InitIInv, NextIInv, PTL DEF Spec

-----------------------------------------------------------------------------
(***************************************************************************)
(* No more than RateLimit hits are kept for an address, also when the      *)
(* clock is set back (_sandbox_rate_check).                                *)
(***************************************************************************)
THEOREM TypeCorrect == Spec => []TypeOK
<1>1. IInv => TypeOK
  BY DEF IInv
<1>2. QED
  BY <1>1, IInvAlways, PTL

(***************************************************************************)
(* No window of time has more than RateLimit accepted requests of an       *)
(* address, if the clock is not set back (_sandbox_rate_check).            *)
(***************************************************************************)
THEOREM AtMostTheLimitAlways == Spec => []AtMostTheLimit
<1>1. IInv => AtMostTheLimit
  BY DEF IInv
<1>2. QED
  BY <1>1, IInvAlways, PTL

(***************************************************************************)
(* If the clock is not set back, nobody is refused who has not used up the *)
(* limit of the last window, and nobody accepted who has                   *)
(* (_sandbox_rate_check).                                                  *)
(***************************************************************************)
THEOREM RefusedExactlyWhenFullAlways == Spec => []RefusedExactlyWhenFull
<1>1. IInv => RefusedExactlyWhenFull
  BY FullCounts DEF IInv, SteadyInv, RefusedExactlyWhenFull
<1>2. QED
  BY <1>1, IInvAlways, PTL
=============================================================================
