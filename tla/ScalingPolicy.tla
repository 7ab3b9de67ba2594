----------------------------- MODULE ScalingPolicy -----------------------------
(***************************************************************************)
(* computeContainerScaleAmount of the AutoScaler: how many containers to   *)
(* start or to remove when `running` containers face `pending` requests    *)
(* (those in the queue and those already on a worker).                     *)
(***************************************************************************)
EXTENDS Integers

CONSTANTS TasksPerContainer,  \* TASKS_PER_CONTAINER
          MinContainers,      \* MIN_WORKER_CONTAINERS
          MaxContainers       \* MAX_WORKER_CONTAINERS

ASSUME LimitsAssumption == /\ TasksPerContainer \in Nat \ {0}
                           /\ MinContainers \in Nat
                           /\ MaxContainers \in Nat

Smaller(a, b) == IF a <= b THEN a ELSE b
Larger(a, b)  == IF a <= b THEN b ELSE a

\* Mutant of CeilDiv: Math.floor.
FloorDiv(a, b) == a \div b

\* Math.ceil(a / b) of a natural number a and a positive b.
CeilDiv(a, b) == (a + b - 1) \div b

\* Mutant of Underloaded: the guard is missing.
NeverLoaded(running, pending) == TRUE

\* pendingTasksPerContainer; only used with a positive `running`.
Overloaded(running, pending)  == CeilDiv(pending, running) > TasksPerContainer
Underloaded(running, pending) == CeilDiv(pending, running) < TasksPerContainer

\* Mutants of StartAmount: without the cap of the maximum; without Math.max; and
\* without the containers that are running already.
StartUncapped(running, pending) ==
  IF pending = 0 THEN Larger(0, MinContainers - running)
  ELSE CeilDiv(Larger(pending - TasksPerContainer * running, 0), TasksPerContainer)

StartNegative(running, pending) ==
  IF pending = 0 THEN MinContainers - running
  ELSE Smaller(CeilDiv(pending, TasksPerContainer), MaxContainers - running)

StartForAll(running, pending) ==
  CASE pending = 0 -> Larger(0, MinContainers - running)
    [] pending # 0 /\ (running = 0 \/ Overloaded(running, pending)) ->
         CeilDiv(pending, TasksPerContainer)
    [] OTHER -> 0

StartAmount(running, pending) ==
  CASE pending = 0 -> Larger(0, MinContainers - running)
    [] pending # 0 /\ running = 0 ->
         Smaller(CeilDiv(pending, TasksPerContainer), MaxContainers)
    [] pending # 0 /\ running # 0 /\ Overloaded(running, pending) ->
         Smaller(CeilDiv(pending - TasksPerContainer * running, TasksPerContainer),
                 MaxContainers - running)
    [] OTHER -> 0

\* requiredContainers: what the code computes under that name.
RequiredContainers(running, pending) ==
  Larger(pending - TasksPerContainer * running, 0)

\* Mutant of RemoveAmount: the minimum is forgotten.
RemoveAll(running, pending) == IF pending = 0 THEN running ELSE 0

RemoveAmount(running, pending) ==
  CASE pending = 0 -> Larger(0, running - MinContainers)
    [] pending # 0 /\ running # 0 /\ Underloaded(running, pending) ->
         LET required  == RequiredContainers(running, pending)
             removable == running - required
         IN Larger(running - removable, running - required - MinContainers)
    [] OTHER -> 0
================================================================================
