------------------------------- MODULE AutoScaler -------------------------------
(***************************************************************************)
(* The AutoScaler and its DockerService, driven by the two calls the       *)
(* redis-service makes: checkContainerStatus computes a status from the    *)
(* running containers and the pending requests, applyConfigurationState    *)
(* applies it later.  Requests come and go and containers die in between.  *)
(***************************************************************************)
EXTENDS ScalingPolicy

CONSTANTS MaxPending  \* bound on the requests in the system

ASSUME MaxPendingAssumption == MaxPending \in Nat

VARIABLES running,  \* containers docker lists for the name prefix
          pending,  \* requests in the queue and on the workers
          start,    \* containersToStart of the last status
          remove,   \* containersToRemove of the last status
          checked   \* the last status has not been applied yet

vars == <<running, pending, start, remove, checked>>

\* At launch the containers of an earlier run have been removed as dangling.
Init == /\ running = 0
        /\ pending = 0
        /\ start = 0
        /\ remove = 0
        /\ checked = FALSE

CheckContainerStatus ==
  /\ start' = StartAmount(running, pending)
  /\ remove' = RemoveAmount(running, pending)
  /\ checked' = TRUE
  /\ UNCHANGED <<running, pending>>

\* applyConfigurationState throws when a status asks for both directions, so
\* neither of the next two actions applies such a status.
\* createContainer is called `start` times, in parallel.
StartContainers ==
  /\ checked /\ remove = 0
  /\ running' = IF start > 0 THEN running + start ELSE running
  /\ checked' = FALSE
  /\ UNCHANGED <<pending, start, remove>>

\* idleContainerIds.slice(0, remove): only idle containers go, and fewer than
\* asked for when fewer are idle.
RemoveContainers(idle) ==
  /\ checked /\ start = 0 /\ remove > 0
  /\ running' = running - Smaller(idle, remove)
  /\ checked' = FALSE
  /\ UNCHANGED <<pending, start, remove>>

\* A docker call failed: the others of the same Promise.all still take effect,
\* the status is computed anew before anything else is applied.
ApplyFails ==
  /\ checked
  /\ start > 0 \/ remove > 0
  /\ \E n \in 0 .. Larger(start, 0) : \E m \in 0 .. Smaller(remove, running) :
       /\ running' = running + n - m
  /\ checked' = FALSE
  /\ UNCHANGED <<pending, start, remove>>

\* The environment: a request arrives or is finished, a container disappears
\* (unhealthy ones are removed by the health check, others are killed).
RequestArrives == /\ pending < MaxPending
                  /\ pending' = pending + 1
                  /\ UNCHANGED <<running, start, remove, checked>>

RequestFinishes == /\ pending > 0
                   /\ pending' = pending - 1
                   /\ UNCHANGED <<running, start, remove, checked>>

ContainerDies == /\ running > 0
                 /\ running' = running - 1
                 /\ UNCHANGED <<pending, start, remove, checked>>

Apply == StartContainers \/ \E idle \in 0 .. running : RemoveContainers(idle)

Next == \/ CheckContainerStatus
        \/ Apply
        \/ ApplyFails
        \/ RequestArrives
        \/ RequestFinishes
        \/ ContainerDies

Spec == Init /\ [][Next]_vars

--------------------------------------------------------------------------------
(***************************************************************************)
(* Properties.                                                             *)
(***************************************************************************)
TypeOK == /\ running \in Nat
          /\ pending \in 0 .. MaxPending
          /\ start \in Nat
          /\ remove \in Nat
          /\ checked \in BOOLEAN

\* "The scaling will not exceed this number" (MAX_WORKER_CONTAINERS), although
\* a status is applied later than it was computed and docker calls may fail.
AtMostMax == running <= MaxContainers

\* A status never asks for both directions, so applyConfigurationState never
\* throws "invalid status: cannot start and kill containers in one call".
OneDirection == start = 0 \/ remove = 0

\* Reference definition of scaling up under load: no container is started while
\* the running ones can take all requests; otherwise as many as make the
\* capacity sufficient, not one more, and never beyond the maximum.
Sufficient(n) == n * TasksPerContainer >= pending

StartsTheLeastSufficient ==
  [][CheckContainerStatus /\ pending > 0 =>
       /\ start' = 0 <=> Sufficient(running) \/ running = MaxContainers
       /\ start' > 0 => /\ ~Sufficient(running + start' - 1)
                        /\ \/ Sufficient(running + start')
                           \/ running + start' = MaxContainers]_vars

\* A status that removes containers leaves the minimum running, whatever the
\* load is ("Containers we can remove").
RemovalLeavesMinimum ==
  [][CheckContainerStatus => (remove' > 0 => running - remove' >= MinContainers)]_vars

================================================================================
