-------------------------- MODULE ScalingPolicy_proof --------------------------
(***************************************************************************)
(* What computeContainerScaleAmount asks for, for every number of          *)
(* containers and requests and all limits.  The code does not check that   *)
(* MIN_WORKER_CONTAINERS is at most MAX_WORKER_CONTAINERS; the lemmas that *)
(* need it assume it.                                                      *)
(***************************************************************************)
EXTENDS ScalingPolicy, TLAPS

LimitsOrdered == MinContainers <= MaxContainers

\* Math.ceil of a fraction is a natural number, and 0 for 0 only.
LEMMA CeilDivNat ==
  ASSUME NEW a \in Nat, NEW b \in Nat \ {0}
  PROVE  CeilDiv(a, b) \in Nat /\ (a > 0 => CeilDiv(a, b) > 0)
BY DEF CeilDiv

\* Math.ceil(a / b) is more than t exactly when t bins of size b cannot hold a.
LEMMA CeilDivExceeds ==
  ASSUME NEW a \in Nat, NEW b \in Nat \ {0}, NEW t \in Nat
  PROVE  CeilDiv(a, b) > t <=> a > b * t
<1> DEFINE q == CeilDiv(a, b)
<1>1. q \in Nat
  BY CeilDivNat
<1>2. b * q <= a + b - 1 /\ a + b - 1 < b * q + b
  BY <1>1 DEF CeilDiv
<1>3. ASSUME q > t
      PROVE  a > b * t
  <2>1. q >= t + 1
    BY <1>1, <1>3
  <2>2. b * q >= b * (t + 1)
    BY <1>1, <2>1
  <2>3. b * (t + 1) = b * t + b
    OBVIOUS
  <2> QED
    BY <1>1, <1>2, <2>2, <2>3
<1>4. ASSUME q <= t
      PROVE  a <= b * t
  <2>1. b * q <= b * t
    BY <1>1, <1>4
  <2> QED
    BY <1>1, <1>2, <2>1
<1> QED
  BY <1>1, <1>3, <1>4

\* What a status computed from r containers and p requests asks for.
LEMMA PendingTasks ==
  ASSUME NEW r \in Nat \ {0}, NEW p \in Nat
  PROVE  /\ Overloaded(r, p) <=> p > TasksPerContainer * r
         /\ Underloaded(r, p) => p <= TasksPerContainer * r
<1>1. TasksPerContainer \in Nat /\ TasksPerContainer * r = r * TasksPerContainer
  BY LimitsAssumption
<1>2. CeilDiv(p, r) > TasksPerContainer <=> p > r * TasksPerContainer
  BY <1>1, CeilDivExceeds
<1>3. CeilDiv(p, r) \in Nat
  BY CeilDivNat
<1> QED
  BY <1>1, <1>2, <1>3 DEF Overloaded, Underloaded

\* Whatever the limits are, a whole number of containers is asked for.
LEMMA StartIsInt ==
  ASSUME NEW r \in Nat, NEW p \in Nat
  PROVE  StartAmount(r, p) \in Int
<1> USE LimitsAssumption
<1>1. CASE p = 0
  BY <1>1 DEF StartAmount, Larger
<1>2. CASE p # 0 /\ r = 0
  BY <1>2, CeilDivNat DEF StartAmount, Smaller
<1>3. CASE p # 0 /\ r # 0 /\ Overloaded(r, p)
  <2>1. p - TasksPerContainer * r \in Nat
    BY <1>3, PendingTasks
  <2>2. CeilDiv(p - TasksPerContainer * r, TasksPerContainer) \in Nat
    BY <2>1, CeilDivNat
  <2> QED
    BY <1>3, <2>2 DEF StartAmount, Smaller
<1>4. CASE p # 0 /\ r # 0 /\ ~Overloaded(r, p)
  BY <1>4 DEF StartAmount
<1> QED
  BY <1>1, <1>2, <1>3, <1>4

\* What is started when the running containers are overloaded: as many as the
\* requests beyond their capacity need, one less would not do.
LEMMA StartSuffices ==
  ASSUME NEW r \in Nat, NEW p \in Nat, r <= MaxContainers, p > TasksPerContainer * r
  PROVE  LET n == StartAmount(r, p)
         IN /\ n \in Nat
            /\ n = 0 <=> r = MaxContainers
            /\ n > 0 => p > TasksPerContainer * (r + n - 1)
            /\ p <= TasksPerContainer * (r + n) \/ r + n = MaxContainers
<1> DEFINE T == TasksPerContainer
           left == p - T * r
           q == CeilDiv(left, T)
           n == StartAmount(r, p)
<1>1. T \in Nat \ {0} /\ MaxContainers \in Nat /\ T * r \in Nat
  BY LimitsAssumption
<1>2. left \in Nat /\ left > 0
  BY <1>1
<1>3. n = Smaller(q, MaxContainers - r)
  <2>1. p # 0
    BY <1>1
  <2>2. CASE r = 0
    BY <2>1, <2>2, <1>1 DEF StartAmount
  <2>3. CASE r # 0
    <3>1. Overloaded(r, p)
      BY <2>3, PendingTasks
    <3> QED
      BY <2>1, <2>3, <3>1 DEF StartAmount
  <2> QED
    BY <2>2, <2>3
<1> HIDE DEF T, n, q
<1>4. q \in Nat /\ q > 0
  BY <1>1, <1>2, CeilDivNat DEF q
<1>5. n \in Nat /\ n <= q /\ r + n <= MaxContainers /\ (n = q \/ r + n = MaxContainers)
  BY <1>1, <1>3, <1>4 DEF Smaller
<1>6. \A t \in Nat : q > t <=> left > T * t
  BY <1>1, <1>2, CeilDivExceeds DEF q
<1>7. \A t \in Nat : T * (r + t) = T * r + T * t
  BY <1>1
<1>8. n = 0 <=> r = MaxContainers
  BY <1>1, <1>4, <1>5
<1>9. ASSUME n > 0
      PROVE  p > T * (r + n - 1)
  <2>1. n - 1 \in Nat /\ q > n - 1 /\ r + n - 1 = r + (n - 1)
    BY <1>4, <1>5, <1>9
  <2>2. left > T * (n - 1)
    BY <2>1, <1>6
  <2>3. T * (r + n - 1) = T * r + T * (n - 1)
    BY <2>1, <1>7
  <2>4. T * (n - 1) \in Nat
    BY <2>1, <1>1
  <2> QED
    BY <2>2, <2>3, <2>4, <1>1
<1>10. ASSUME n = q
       PROVE  p <= T * (r + n)
  <2>1. ~(left > T * n)
    BY <1>4, <1>6, <1>10
  <2>2. T * n \in Nat /\ T * (r + n) = T * r + T * n
    BY <1>1, <1>5, <1>7
  <2> QED
    BY <2>1, <2>2, <1>1
<1> QED
  BY <1>5, <1>8, <1>9, <1>10 DEF T, n

\* Nothing is started while the running containers can take all requests.
LEMMA NoStartWhenSufficient ==
  ASSUME NEW r \in Nat, NEW p \in Nat \ {0}, p <= TasksPerContainer * r
  PROVE  StartAmount(r, p) = 0
<1>1. r # 0
  BY LimitsAssumption
<1>2. ~Overloaded(r, p)
  BY <1>1, PendingTasks, LimitsAssumption
<1> QED
  BY <1>1, <1>2 DEF StartAmount

LEMMA StartFits ==
  ASSUME LimitsOrdered, NEW r \in Nat, NEW p \in Nat, r <= MaxContainers
  PROVE  StartAmount(r, p) \in Nat /\ r + StartAmount(r, p) <= MaxContainers
<1> USE LimitsAssumption
<1>1. CASE p = 0
  BY <1>1 DEF StartAmount, Larger, LimitsOrdered
<1>2. CASE p # 0 /\ r = 0
  <2>1. CeilDiv(p, TasksPerContainer) \in Nat
    BY CeilDivNat
  <2> QED
    BY <1>2, <2>1 DEF StartAmount, Smaller
<1>3. CASE p # 0 /\ r # 0 /\ Overloaded(r, p)
  <2>1. p - TasksPerContainer * r \in Nat
    BY <1>3, PendingTasks
  <2>2. CeilDiv(p - TasksPerContainer * r, TasksPerContainer) \in Nat
    BY <2>1, CeilDivNat
  <2> QED
    BY <1>3, <2>2 DEF StartAmount, Smaller
<1>4. CASE p # 0 /\ r # 0 /\ ~Overloaded(r, p)
  BY <1>4 DEF StartAmount
<1> QED
  BY <1>1, <1>2, <1>3, <1>4

LEMMA RemoveFits ==
  ASSUME NEW r \in Nat, NEW p \in Nat
  PROVE  /\ RemoveAmount(r, p) = 0 \/ RemoveAmount(r, p) = r - MinContainers
         /\ RemoveAmount(r, p) \in Nat
<1> USE LimitsAssumption
<1>1. CASE p = 0
  BY <1>1 DEF RemoveAmount, Larger
<1>2. CASE p # 0 /\ r # 0 /\ Underloaded(r, p)
  <2>1. p - TasksPerContainer * r <= 0 /\ p - TasksPerContainer * r \in Int
    BY <1>2, PendingTasks
  <2>2. RequiredContainers(r, p) = 0
    BY <2>1 DEF RequiredContainers, Larger
  <2> QED
    BY <1>2, <2>2 DEF RemoveAmount, Larger
<1>3. CASE p # 0 /\ ~(r # 0 /\ Underloaded(r, p))
  BY <1>3 DEF RemoveAmount
<1> QED
  BY <1>1, <1>2, <1>3

LEMMA OneDirectionOnly ==
  ASSUME NEW r \in Nat, NEW p \in Nat
  PROVE  StartAmount(r, p) = 0 \/ RemoveAmount(r, p) = 0
<1> USE LimitsAssumption
<1>1. CASE p = 0
  BY <1>1 DEF StartAmount, RemoveAmount, Larger
<1>2. CASE p # 0 /\ r = 0
  BY <1>2 DEF RemoveAmount
<1>3. CASE p # 0 /\ r # 0
  <2>1. ~(Overloaded(r, p) /\ Underloaded(r, p))
    BY <1>3, CeilDivNat DEF Overloaded, Underloaded
  <2> QED
    BY <1>3, <2>1 DEF StartAmount, RemoveAmount
<1> QED
  BY <1>1, <1>2, <1>3
================================================================================
