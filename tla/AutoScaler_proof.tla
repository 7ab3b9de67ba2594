---------------------------- MODULE AutoScaler_proof ----------------------------
(***************************************************************************)
(* Proofs about the AutoScaler for every value of its limits, from what    *)
(* ScalingPolicy_proof says of a single status.                            *)
(***************************************************************************)
EXTENDS AutoScaler, ScalingPolicy_proof

(***************************************************************************)
(* The inductive invariant: a status is applied later than it is computed, *)
(* and until then no step may use up the room it counted on.               *)
(***************************************************************************)
StatusFits == checked => running + start <= MaxContainers

IInv == TypeOK /\ AtMostMax /\ OneDirection /\ StatusFits

LEMMA InitIInv == Init => IInv
<1> SUFFICES ASSUME Init PROVE IInv
  OBVIOUS
<1>1. TypeOK
  <2>1. checked \in BOOLEAN
    BY DEF Init
  <2>2. /\ running \in Nat /\ start \in Nat /\ remove \in Nat
        /\ pending \in 0 .. MaxPending
    BY MaxPendingAssumption DEF Init
  <2> QED
    BY <2>1, <2>2 DEF TypeOK
<1>2. AtMostMax /\ OneDirection
  BY LimitsAssumption DEF Init, AtMostMax, OneDirection
<1>3. StatusFits
  BY DEF Init, StatusFits
<1> QED
  BY <1>1, <1>2, <1>3 DEF IInv

LEMMA NextKeepsIInv ==
  ASSUME LimitsOrdered, IInv, [Next]_vars
  PROVE  IInv'
<1> USE LimitsAssumption, MaxPendingAssumption
<1> USE DEF IInv, TypeOK, AtMostMax, OneDirection, StatusFits
<1>1. CASE CheckContainerStatus
  <2>1. /\ StartAmount(running, pending) \in Nat
        /\ running + StartAmount(running, pending) <= MaxContainers
    BY StartFits
  <2>2. RemoveAmount(running, pending) \in Nat
    BY RemoveFits
  <2>3. StartAmount(running, pending) = 0 \/ RemoveAmount(running, pending) = 0
    BY OneDirectionOnly
  <2> QED
    BY <1>1, <2>1, <2>2, <2>3 DEF CheckContainerStatus
<1>2. CASE StartContainers
  <2>1. checked' \in BOOLEAN
    BY <1>2 DEF StartContainers
  <2>2. running' \in Nat /\ running' <= MaxContainers
    BY <1>2 DEF StartContainers
  <2>3. UNCHANGED <<pending, start, remove>>
    BY <1>2 DEF StartContainers
  <2>4. StatusFits'
    BY <1>2 DEF StartContainers
  <2> QED
    BY <2>1, <2>2, <2>3, <2>4
<1>3. ASSUME NEW idle \in 0 .. running, RemoveContainers(idle)
      PROVE  IInv'
  <2>1. checked' \in BOOLEAN
    BY <1>3 DEF RemoveContainers
  <2>2. running' \in Nat /\ running' <= MaxContainers
    BY <1>3 DEF RemoveContainers, Smaller
  <2>3. UNCHANGED <<pending, start, remove>>
    BY <1>3 DEF RemoveContainers
  <2>4. StatusFits'
    BY <1>3 DEF RemoveContainers
  <2> QED
    BY <2>1, <2>2, <2>3, <2>4
<1>4. CASE ApplyFails
  <2>1. checked' \in BOOLEAN
    BY <1>4 DEF ApplyFails
  <2>2. running' \in Nat /\ running' <= MaxContainers
    BY <1>4 DEF ApplyFails, Smaller, Larger
  <2>3. UNCHANGED <<pending, start, remove>>
    BY <1>4 DEF ApplyFails
  <2>4. StatusFits'
    BY <1>4 DEF ApplyFails
  <2> QED
    BY <2>1, <2>2, <2>3, <2>4
<1>5. CASE RequestArrives
  BY <1>5 DEF RequestArrives
<1>6. CASE RequestFinishes
  BY <1>6 DEF RequestFinishes
<1>7. CASE ContainerDies
  BY <1>7 DEF ContainerDies
<1>8. CASE UNCHANGED vars
  BY <1>8 DEF vars
<1> QED
  BY <1>1, <1>2, <1>3, <1>4, <1>5, <1>6, <1>7, <1>8 DEF Next, Apply

LEMMA Invariance == LimitsOrdered => (Spec => []IInv)
<1>1. SUFFICES ASSUME LimitsOrdered
               PROVE  Spec => []IInv
  OBVIOUS
<1>2. IInv /\ [Next]_vars => IInv'
  BY <1>1, NextKeepsIInv
<1> QED
  BY InitIInv, <1>2, PTL DEF Spec

\* Statuses, counters and limits keep their types: in particular no status asks
\* for a negative number of containers when the minimum is at most the maximum.
THEOREM TypeCorrect == LimitsOrdered => (Spec => []TypeOK)
<1>1. IInv => TypeOK
  BY DEF IInv
<1> QED
  BY <1>1, Invariance, PTL

\* "The scaling will not exceed this number": however late a status is applied
\* and whatever docker calls fail, no more than MAX_WORKER_CONTAINERS run.
THEOREM NeverExceedsMax == LimitsOrdered => (Spec => []AtMostMax)
<1>1. IInv => AtMostMax
  BY DEF IInv
<1> QED
  BY <1>1, Invariance, PTL

\* applyConfigurationState never meets a status with both directions, so its
\* "invalid status" error is unreachable.
THEOREM NeverBothDirections == LimitsOrdered => (Spec => []OneDirection)
<1>1. IInv => OneDirection
  BY DEF IInv
<1> QED
  BY <1>1, Invariance, PTL

\* Under load, a status starts the least number of containers that makes the
\* capacity sufficient, cut at MAX_WORKER_CONTAINERS, and none when the running
\* ones suffice: Math.ceil is taken of the right fraction in every case.
THEOREM StartsLeast == LimitsOrdered => (Spec => StartsTheLeastSufficient)
<1> DEFINE T == TasksPerContainer
           Least == /\ start' = 0 <=> Sufficient(running) \/ running = MaxContainers
                    /\ start' > 0 => /\ ~Sufficient(running + start' - 1)
                                     /\ \/ Sufficient(running + start')
                                        \/ running + start' = MaxContainers
<1>1. ASSUME IInv, CheckContainerStatus, pending > 0
      PROVE  Least
  <2>1. /\ running \in Nat /\ running <= MaxContainers /\ pending \in Nat \ {0}
        /\ start' = StartAmount(running, pending)
    BY <1>1, MaxPendingAssumption DEF IInv, TypeOK, AtMostMax, CheckContainerStatus
  <2>2. T \in Nat \ {0} /\ MaxContainers \in Nat
    BY LimitsAssumption
  <2> HIDE DEF T
  <2>3. ASSUME NEW n \in Nat
        PROVE  Sufficient(n) <=> pending <= T * n
    <3>1. n * T = T * n /\ T * n \in Nat
      BY <2>2
    <3> QED
      BY <2>1, <3>1 DEF Sufficient, T
  <2>4. CASE pending <= T * running
    <3>1. start' = 0
      BY <2>1, <2>4, NoStartWhenSufficient DEF T
    <3> QED
      BY <2>1, <2>3, <2>4, <3>1
  <2>5. CASE pending > T * running
    <3>1. /\ start' \in Nat
          /\ start' = 0 <=> running = MaxContainers
          /\ start' > 0 => pending > T * (running + start' - 1)
          /\ pending <= T * (running + start') \/ running + start' = MaxContainers
      BY <2>1, <2>5, StartSuffices DEF T
    <3>2. ~Sufficient(running)
      BY <2>1, <2>2, <2>3, <2>5
    <3>3. ASSUME start' > 0
          PROVE  /\ ~Sufficient(running + start' - 1)
                 /\ \/ Sufficient(running + start')
                    \/ running + start' = MaxContainers
      <4>1. running + start' - 1 \in Nat /\ running + start' \in Nat
        BY <2>1, <3>1, <3>3
      <4>2. T * (running + start' - 1) \in Nat
        BY <4>1, <2>2
      <4>3. ~(pending <= T * (running + start' - 1))
        BY <4>2, <3>1, <3>3, <2>1
      <4> QED
        BY <4>1, <4>3, <2>3, <3>1
    <3> QED
      BY <3>1, <3>2, <3>3
  <2>6. T * running \in Nat
    BY <2>1, <2>2
  <2> QED
    BY <2>1, <2>4, <2>5, <2>6
<1>2. IInv /\ [Next]_vars => [CheckContainerStatus /\ pending > 0 => Least]_vars
  BY <1>1
<1> QED
  BY <1>2, Invariance, PTL DEF Spec, StartsTheLeastSufficient

\* A status that removes containers leaves MIN_WORKER_CONTAINERS running.
THEOREM RemovalKeepsMinimum == LimitsOrdered => (Spec => RemovalLeavesMinimum)
<1>1. ASSUME IInv, CheckContainerStatus, remove' > 0
      PROVE  running - remove' >= MinContainers
  <2>1. remove' = 0 \/ remove' = running - MinContainers
    BY <1>1, RemoveFits DEF IInv, TypeOK, CheckContainerStatus
  <2> QED
    BY <1>1, <2>1, LimitsAssumption DEF IInv, TypeOK
<1>2. IInv /\ [Next]_vars
        => [CheckContainerStatus => (remove' > 0 => running - remove' >= MinContainers)]_vars
  BY <1>1
<1> QED
  BY <1>2, Invariance, PTL DEF Spec, RemovalLeavesMinimum
================================================================================
