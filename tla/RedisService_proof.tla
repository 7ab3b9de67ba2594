--------------------------- MODULE RedisService_proof ---------------------------
(***************************************************************************)
(* Proofs about the redis-service for every number of requests and         *)
(* containers and every limit.  Whatever fails: no worker ever gets more   *)
(* than TASKS_PER_CONTAINER requests, and the types, the places of the     *)
(* workers, dismissals that lose no request, and results that are final    *)
(* and have their file.  As long as the docker engine obeys: the workers   *)
(* are the containers docker lists, never more than MAX_WORKER_CONTAINERS. *)
(***************************************************************************)
EXTENDS RedisService, ScalingPolicy_proof, FiniteSetTheorems, FunctionTheorems,
        SequenceTheorems, TLAPS

(***************************************************************************)
(* Facts about sets.                                                       *)
(***************************************************************************)
\* A function has at most as many values as arguments.
LEMMA ImageIsSmaller ==
  ASSUME NEW S, IsFiniteSet(S), NEW f
  PROVE  /\ IsFiniteSet({f[x] : x \in S})
         /\ Cardinality({f[x] : x \in S}) <= Cardinality(S)
<1> DEFINE T == {f[x] : x \in S}
           g == [x \in S |-> f[x]]
<1>1. g \in Surjection(S, T)
  BY DEF Surjection
<1>2. IsFiniteSet(T) /\ Cardinality(T) <= Cardinality(S)
  BY <1>1, FS_Surjection
<1> QED
  BY <1>2

\* The set of workers is finite, as is the set of free ones.
LEMMA FreeIsFinite ==
  /\ IsFiniteSet(Members) /\ Cardinality(Members) \in Nat
  /\ IsFiniteSet(Free) /\ Cardinality(Free) \in Nat
<1>1. Members \in SUBSET Containers /\ Free \in SUBSET Containers
  BY DEF Members, Free
<1> QED
  BY <1>1, FiniteAssumption, FS_Subset, FS_CardinalityType

--------------------------------------------------------------------------------
(***************************************************************************)
(* The inductive invariant.  Loads are bounded; and so that they stay so,  *)
(* every worker a popped request is planned for has room, and is planned   *)
(* for one request only.                                                   *)
(***************************************************************************)
WorkersType == /\ workers \in [Containers -> SUBSET Tasks]
               /\ \A c \in Containers : IsFiniteSet(workers[c])
               /\ place \in [Containers -> Int]

PlanType == /\ queue \in Seq(Requests)
            /\ popped \in Seq(Requests)
            /\ plan \in Seq(Containers)
            /\ Len(popped) = Len(plan)

Capacity == \A c \in Containers : Load(c) <= TasksPerContainer

PlanHasRoom ==
  /\ \A i \in 1 .. Len(plan) : Load(plan[i]) < TasksPerContainer
  /\ \A i, j \in 1 .. Len(plan) : plan[i] = plan[j] => i = j

IInv == WorkersType /\ PlanType /\ Capacity /\ PlanHasRoom

LEMMA LoadIsNat ==
  ASSUME WorkersType, NEW c \in Containers
  PROVE  Load(c) \in Nat
BY FS_CardinalityType DEF WorkersType, Load

--------------------------------------------------------------------------------
(***************************************************************************)
(* The heart of the argument: as many workers have room as are planned     *)
(* for, and a planned worker without room would come behind all of them.   *)
(***************************************************************************)
LEMMA BeforeIsStrict ==
  ASSUME WorkersType, NEW c \in Containers, NEW d \in Containers
  PROVE  /\ ~(Before(c, d) /\ Before(d, c))
         /\ Before(c, d) => Load(c) <= Load(d)
         /\ Load(c) < Load(d) => Before(c, d)
BY LoadIsNat DEF Before, WorkersType

LEMMA LeastLoadedHaveRoom ==
  ASSUME WorkersType,
         NEW n \in Nat, n <= Cardinality(Free),
         NEW p \in LeastLoaded(n),
         NEW i \in 1 .. n
  PROVE  Load(p[i]) < TasksPerContainer
<1>1. p \in [1 .. n -> Members]
  BY DEF LeastLoaded
<1>2. \A c \in Members : c \in Containers
  BY DEF Members
<1>3. p[i] \in Containers
  BY <1>1, <1>2
<1> SUFFICES ASSUME ~(Load(p[i]) < TasksPerContainer)
             PROVE  FALSE
  OBVIOUS
<1>4. ASSUME NEW c \in Free
      PROVE  c \in {p[j] : j \in 1 .. i - 1}
  <2>1. c \in Containers /\ c \in Members /\ Load(c) < TasksPerContainer
    BY DEF Free, Members
  <2>2. Load(c) < Load(p[i])
    BY <2>1, <1>3, LoadIsNat, LimitsAssumption
  <2>3. Before(c, p[i])
    BY <1>3, <2>1, <2>2, BeforeIsStrict
  <2>4. ~Before(p[i], c)
    BY <1>3, <2>1, <2>3, BeforeIsStrict
  <2>5. PICK j \in 1 .. n : p[j] = c
    BY <2>1, <2>4 DEF LeastLoaded
  <2>6. ~(i < j)
    BY <2>4, <2>5 DEF LeastLoaded
  <2>7. i # j
    BY <2>2, <2>5, <1>3, LoadIsNat
  <2> QED
    BY <2>5, <2>6, <2>7
<1>5. IsFiniteSet(1 .. i - 1) /\ Cardinality(1 .. i - 1) = i - 1
  BY FS_Interval
<1>6. /\ IsFiniteSet({p[j] : j \in 1 .. i - 1})
      /\ Cardinality({p[j] : j \in 1 .. i - 1}) <= i - 1
  BY <1>5, ImageIsSmaller
<1>7. Cardinality(Free) <= Cardinality({p[j] : j \in 1 .. i - 1})
  BY <1>4, <1>6, FS_Subset
<1>8. Cardinality({p[j] : j \in 1 .. i - 1}) \in Nat
  BY <1>6, FS_CardinalityType
<1> QED
  BY <1>6, <1>7, <1>8, FreeIsFinite

LEMMA LeastLoadedAreDistinct ==
  ASSUME WorkersType, NEW n \in Nat, NEW p \in LeastLoaded(n)
  PROVE  \A i, j \in 1 .. n : p[i] = p[j] => i = j
<1> SUFFICES ASSUME NEW i \in 1 .. n, NEW j \in 1 .. n, p[i] = p[j], i < j
             PROVE  FALSE
  OBVIOUS
<1>1. p \in [1 .. n -> Members] /\ Before(p[i], p[j])
  BY DEF LeastLoaded
<1>2. p[i] \in Containers
  BY <1>1 DEF Members
<1> QED
  BY <1>1, <1>2, BeforeIsStrict

--------------------------------------------------------------------------------
(***************************************************************************)
(* Most actions give no worker a request.                                  *)
(***************************************************************************)
LEMMA NoGrowth ==
  ASSUME IInv, WorkersType', \A c \in Containers : Load(c)' <= Load(c),
         UNCHANGED <<popped, plan>>, queue' \in Seq(Requests)
  PROVE  IInv'
<1>1. PlanType'
  BY DEF IInv, PlanType
<1>2. \A c \in Containers : Load(c) \in Nat /\ Load(c)' \in Nat
  <2>1. ASSUME NEW c \in Containers
        PROVE  Load(c)' \in Nat
    BY FS_CardinalityType DEF WorkersType, Load
  <2> QED
    BY <2>1, LoadIsNat DEF IInv
<1>3. Capacity'
  BY <1>2, LimitsAssumption DEF IInv, Capacity
<1>4. PlanHasRoom'
  <2>1. \A i \in 1 .. Len(plan) : plan[i] \in Containers
    BY DEF IInv, PlanType
  <2>2. ASSUME NEW i \in 1 .. Len(plan)
        PROVE  Load(plan[i])' < TasksPerContainer
    <3>1. plan[i] \in Containers /\ plan'[i] = plan[i] /\ Load(plan[i]) < TasksPerContainer
      BY <2>1 DEF IInv, PlanHasRoom
    <3>2. Load(plan[i])' = Cardinality(workers'[plan[i]])
      BY DEF Load
    <3>3. Cardinality(workers'[plan[i]]) <= Load(plan[i])
      BY <3>1 DEF Load
    <3>4. Cardinality(workers'[plan[i]]) \in Nat
      BY <3>1, <1>2 DEF Load
    <3> QED
      BY <3>1, <3>2, <3>3, <3>4, <1>2, LimitsAssumption
  <2> QED
    BY <2>2 DEF IInv, PlanHasRoom
<1> QED
  BY <1>1, <1>3, <1>4 DEF IInv

LEMMA Quiet ==
  ASSUME IInv, UNCHANGED <<workers, place, popped, plan>>, queue' \in Seq(Requests)
  PROVE  IInv'
<1>1. WorkersType'
  BY DEF IInv, WorkersType
<1>2. \A c \in Containers : Load(c)' <= Load(c)
  BY LoadIsNat DEF IInv, Load
<1> QED
  BY <1>1, <1>2, NoGrowth

LEMMA AddingToQueue ==
  ASSUME IInv, NEW id \in Requests, AddRequestToQueue(id)
  PROVE  queue' \in Seq(Requests)
BY DEF IInv, PlanType, AddRequestToQueue

LEMMA DismissShrinks ==
  ASSUME WorkersType, NEW S, IsFiniteSet(S), Dismiss(S)
  PROVE  WorkersType' /\ \A c \in Containers : Load(c)' <= Load(c)
<1>1. \A c \in Containers : workers'[c] = {} \/ workers'[c] = workers[c]
  BY DEF Dismiss
<1>2. /\ workers' \in [Containers -> SUBSET Tasks]
      /\ \A c \in Containers : IsFiniteSet(workers'[c])
  BY <1>1, FS_EmptySet DEF Dismiss, WorkersType
<1>3. \A c \in Containers : Load(c)' <= Load(c)
  BY <1>1, LoadIsNat, FS_EmptySet DEF Load
<1>4. ASSUME NEW c \in Containers
      PROVE  Cardinality({d \in S : place[d] < place[c]}) \in Nat
  BY FS_Subset, FS_CardinalityType
<1>5. place' \in [Containers -> Int]
  BY <1>4 DEF Dismiss, WorkersType
<1> QED
  BY <1>2, <1>3, <1>5 DEF WorkersType

LEMMA EnrollShrinks ==
  ASSUME WorkersType, NEW S \in SUBSET Containers, Enroll(S)
  PROVE  WorkersType' /\ \A c \in Containers : Load(c)' <= Load(c)
<1>1. \A c \in Containers : workers'[c] = {} \/ workers'[c] = workers[c]
  BY DEF Enroll
<1>2. /\ workers' \in [Containers -> SUBSET Tasks]
      /\ \A c \in Containers : IsFiniteSet(workers'[c])
  BY <1>1, FS_EmptySet DEF Enroll, WorkersType
<1>3. \A c \in Containers : Load(c)' <= Load(c)
  BY <1>1, LoadIsNat, FS_EmptySet DEF Load
<1>4. place' \in [Containers -> Int]
  <2>1. Cardinality(Members) \in Nat /\ Cardinality(S) \in Nat
    BY FreeIsFinite, FiniteAssumption, FS_Subset, FS_CardinalityType
  <2>2. PICK p \in [S -> Cardinality(Members) + 1 .. Cardinality(Members) + Cardinality(S)] :
          place' = [c \in Containers |-> IF c \in S THEN p[c] ELSE place[c]]
    BY DEF Enroll
  <2>3. \A c \in S : p[c] \in Int
    BY <2>1, <2>2
  <2> QED
    BY <2>2, <2>3 DEF WorkersType
<1> QED
  BY <1>2, <1>3, <1>4 DEF WorkersType

LEMMA RemovingShrinks ==
  ASSUME WorkersType, NEW c \in Containers, NEW id \in Requests,
         RemoveRequestFromWorker(c, id), UNCHANGED place
  PROVE  WorkersType' /\ \A d \in Containers : Load(d)' <= Load(d)
<1>1. \A d \in Containers : workers'[d] \in SUBSET workers[d]
  BY DEF RemoveRequestFromWorker, WorkersType
<1>2. ASSUME NEW d \in Containers
      PROVE  IsFiniteSet(workers'[d]) /\ Cardinality(workers'[d]) <= Cardinality(workers[d])
  BY <1>1, FS_Subset DEF WorkersType
<1>3. workers' \in [Containers -> SUBSET Tasks]
  BY DEF RemoveRequestFromWorker, WorkersType
<1> QED
  BY <1>2, <1>3 DEF WorkersType, Load

\* A status update or the end of a job changes requests, it adds none.
LEMMA UpdatingShrinks ==
  ASSUME WorkersType, UNCHANGED place,
         NEW f,
         \A c \in Containers : \A task \in workers[c] : f[c][task] \in Tasks,
         workers' = [c \in Containers |-> {f[c][task] : task \in workers[c]}]
  PROVE  WorkersType' /\ \A d \in Containers : Load(d)' <= Load(d)
<1>1. ASSUME NEW d \in Containers
      PROVE  IsFiniteSet(workers'[d]) /\ Cardinality(workers'[d]) <= Cardinality(workers[d])
  <2>1. IsFiniteSet(workers[d])
    BY DEF WorkersType
  <2>2. workers'[d] = {f[d][task] : task \in workers[d]}
    OBVIOUS
  <2> QED
    BY <2>1, <2>2, ImageIsSmaller
<1>2. workers' \in [Containers -> SUBSET Tasks]
  OBVIOUS
<1> QED
  BY <1>1, <1>2 DEF WorkersType, Load

LEMMA AnswerIsTask ==
  ASSUME NEW task \in Tasks
  PROVE  Answer(task) \in Tasks /\ Answer(task).id = task.id
BY DEF Answer, Tasks

\* The round of status requests updates the requests one by one.
LEMMA ProbeUpdates ==
  ASSUME WorkersType, Probe
  PROVE  \E f : /\ workers' = [c \in Containers |-> {f[c][task] : task \in workers[c]}]
                /\ \A c \in Containers : \A task \in workers[c] :
                     f[c][task] \in Tasks /\ f[c][task].id = task.id
<1>1. PICK missed \in SUBSET Unanswered :
        workers' = [c \in Containers |->
                      {IF <<c, task>> \in missed THEN task ELSE Answer(task)
                         : task \in workers[c]}]
  BY DEF Probe
<1> DEFINE f == [c \in Containers |->
                  [task \in workers[c] |->
                     IF <<c, task>> \in missed THEN task ELSE Answer(task)]]
<1>2. \A c \in Containers : \A task \in workers[c] :
        f[c][task] \in Tasks /\ f[c][task].id = task.id
  BY AnswerIsTask DEF WorkersType
<1>3. workers' = [c \in Containers |-> {f[c][task] : task \in workers[c]}]
  BY <1>1
<1> HIDE DEF f
<1> QED
  BY <1>2, <1>3

LEMMA ProbeKeepsIInv ==
  ASSUME IInv, Probe
  PROVE  IInv'
<1>1. PICK f : /\ workers' = [c \in Containers |-> {f[c][task] : task \in workers[c]}]
               /\ \A c \in Containers : \A task \in workers[c] : f[c][task] \in Tasks
  BY ProbeUpdates DEF IInv
<1>2. UNCHANGED <<place, popped, plan, queue>>
  BY DEF Probe, sending, api
<1>3. WorkersType' /\ \A c \in Containers : Load(c)' <= Load(c)
  BY <1>1, <1>2, UpdatingShrinks DEF IInv
<1> QED
  BY <1>2, <1>3, NoGrowth DEF IInv, PlanType

\* The end of a job updates one request, but not what the redis-service knows.
SameForService(task, before) == task.id = before.id /\ task.known = before.known

LEMMA JobEndsUpdates ==
  ASSUME WorkersType, NEW w \in Containers, NEW ended \in Tasks, JobEnds(w, ended)
  PROVE  \E f : /\ workers' = [c \in Containers |-> {f[c][task] : task \in workers[c]}]
                /\ \A c \in Containers : \A task \in workers[c] :
                     f[c][task] \in Tasks /\ SameForService(f[c][task], task)
<1>1. PICK job \in {"converted", "erroneous"} :
        workers' = [workers EXCEPT ![w] = (@ \ {ended}) \cup {[ended EXCEPT !.job = job]}]
  BY DEF JobEnds
<1>2. ended \in workers[w]
  BY DEF JobEnds
<1> DEFINE after == [ended EXCEPT !.job = job]
           f == [c \in Containers |->
                  [task \in workers[c] |-> IF c = w /\ task = ended THEN after ELSE task]]
<1>3. after \in Tasks /\ after.id = ended.id /\ after.known = ended.known
  BY DEF Tasks
<1> HIDE DEF after
<1>4. \A c \in Containers : \A task \in workers[c] :
        f[c][task] \in Tasks /\ SameForService(f[c][task], task)
  BY <1>3 DEF WorkersType, SameForService
<1>5. workers' = [c \in Containers |-> {f[c][task] : task \in workers[c]}]
  <2>1. workers' = [workers EXCEPT ![w] = (@ \ {ended}) \cup {after}]
    BY <1>1 DEF after
  <2>2. {f[w][task] : task \in workers[w]} = (workers[w] \ {ended}) \cup {after}
    BY <1>2
  <2>3. \A c \in Containers : c # w => {f[c][task] : task \in workers[c]} = workers[c]
    OBVIOUS
  <2>4. workers'[w] = (workers[w] \ {ended}) \cup {after}
    BY <2>1 DEF WorkersType
  <2>5. \A c \in Containers : c # w => workers'[c] = workers[c]
    BY <2>1 DEF WorkersType
  <2> HIDE DEF f
  <2>6. ASSUME NEW c \in Containers
        PROVE  workers'[c] = {f[c][task] : task \in workers[c]}
    <3>1. CASE c = w
      BY <3>1, <2>2, <2>4
    <3>2. CASE c # w
      BY <3>2, <2>3, <2>5
    <3> QED
      BY <3>1, <3>2
  <2>7. workers' = [c \in Containers |-> workers'[c]]
    BY <2>1 DEF WorkersType
  <2> QED
    BY <2>6, <2>7
<1> HIDE DEF f
<1> QED
  BY <1>4, <1>5

LEMMA JobEndsKeepsIInv ==
  ASSUME IInv, NEW w \in Containers, NEW ended \in Tasks, JobEnds(w, ended)
  PROVE  IInv'
<1>1. PICK f : /\ workers' = [c \in Containers |-> {f[c][task] : task \in workers[c]}]
               /\ \A c \in Containers : \A task \in workers[c] : f[c][task] \in Tasks
  BY JobEndsUpdates DEF IInv
<1>2. UNCHANGED <<place, popped, plan, queue>>
  BY DEF JobEnds, internal, api, sending
<1>3. WorkersType' /\ \A c \in Containers : Load(c)' <= Load(c)
  BY <1>1, <1>2, UpdatingShrinks DEF IInv
<1> QED
  BY <1>2, <1>3, NoGrowth DEF IInv, PlanType

LEMMA PopRequestsKeepsIInv ==
  ASSUME IInv, PopRequests
  PROVE  IInv'
<1> DEFINE n == Smaller(Len(queue), Cardinality(Free))
<1>1. n \in Nat /\ n <= Len(queue) /\ n <= Cardinality(Free)
  BY FreeIsFinite DEF Smaller, IInv, PlanType
<1>2. /\ popped' = SubSeq(queue, 1, n)
      /\ queue' = SubSeq(queue, n + 1, Len(queue))
      /\ plan' \in LeastLoaded(n)
      /\ UNCHANGED <<workers, place>>
  BY DEF PopRequests, handler
<1> HIDE DEF n
<1>3. WorkersType' /\ Capacity'
  BY <1>2 DEF IInv, WorkersType, Capacity, Load
<1>4. plan' \in [1 .. n -> Containers]
  BY <1>2 DEF LeastLoaded, Members
<1>5. plan' \in Seq(Containers) /\ Len(plan') = n
  BY <1>1, <1>4
<1>6. PlanType'
  BY <1>1, <1>2, <1>5 DEF IInv, PlanType
<1>7. PlanHasRoom'
  <2>1. \A i \in 1 .. n : Load(plan'[i]) < TasksPerContainer
    BY <1>1, <1>2, LeastLoadedHaveRoom DEF IInv
  <2>2. \A i \in 1 .. n : Load(plan[i])' = Load(plan'[i])
    BY <1>2 DEF Load
  <2>3. \A i, j \in 1 .. n : plan'[i] = plan'[j] => i = j
    BY <1>1, <1>2, LeastLoadedAreDistinct DEF IInv
  <2> QED
    BY <1>5, <2>1, <2>2, <2>3 DEF PlanHasRoom
<1> QED
  BY <1>3, <1>6, <1>7 DEF IInv

\* After the first request was sent, the rest of the plan is still fit.
LEMMA SendShortensPlan ==
  ASSUME IInv, NEW w \in Containers, NEW id \in Requests, Send(w, id)
  PROVE  /\ PlanType' /\ UNCHANGED place
         /\ w = plan[1] /\ Load(w) < TasksPerContainer
         /\ Len(plan') = Len(plan) - 1
         /\ \A i \in 1 .. Len(plan') : plan'[i] = plan[i + 1] /\ i + 1 \in 1 .. Len(plan)
<1>1. popped # <<>> /\ popped' = Tail(popped) /\ plan' = Tail(plan) /\ w = Head(plan)
      /\ UNCHANGED <<place, queue>>
  BY DEF Send, api
<1>2. Len(popped) > 0 /\ Len(plan) > 0 /\ plan # <<>>
  BY <1>1 DEF IInv, PlanType
<1>3. /\ Len(Tail(plan)) = Len(plan) - 1 /\ Len(Tail(popped)) = Len(popped) - 1
      /\ Tail(plan) \in Seq(Containers) /\ Tail(popped) \in Seq(Requests)
      /\ \A i \in 1 .. Len(plan) - 1 : Tail(plan)[i] = plan[i + 1]
  BY <1>1, <1>2, HeadTailProperties DEF IInv, PlanType
<1>4. PlanType'
  BY <1>1, <1>3 DEF IInv, PlanType
<1>5. w = plan[1] /\ 1 \in 1 .. Len(plan)
  BY <1>1, <1>2 DEF IInv, PlanType
<1>6. Load(w) < TasksPerContainer
  BY <1>5 DEF IInv, PlanHasRoom
<1>7. Len(plan) \in Nat
  BY DEF IInv, PlanType
<1>8. \A i \in 1 .. Len(plan') : plan'[i] = plan[i + 1] /\ i + 1 \in 1 .. Len(plan)
  BY <1>1, <1>3, <1>7
<1> QED
  BY <1>1, <1>3, <1>4, <1>5, <1>6, <1>8

LEMMA DispatchKeepsIInv ==
  ASSUME IInv, NEW w \in Containers, NEW id \in Requests, Send(w, id),
         NEW job \in {"refused", "open"}, Dispatch(w, id, job)
  PROVE  IInv'
<1> DEFINE task == [id |-> id, known |-> "open", job |-> job]
<1>1. task \in Tasks
  BY DEF Tasks
<1>2. workers' = [workers EXCEPT ![w] = @ \cup {task}]
  BY DEF Dispatch
<1> HIDE DEF task
<1>3. /\ IsFiniteSet(workers[w] \cup {task})
      /\ Cardinality(workers[w] \cup {task}) <= Load(w) + 1
  <2>1. IsFiniteSet(workers[w]) /\ Cardinality(workers[w]) \in Nat
    BY LoadIsNat DEF IInv, WorkersType, Load
  <2>2. /\ IsFiniteSet(workers[w] \cup {task})
        /\ \/ Cardinality(workers[w] \cup {task}) = Cardinality(workers[w])
           \/ Cardinality(workers[w] \cup {task}) = Cardinality(workers[w]) + 1
    BY <2>1, FS_AddElement
  <2> QED
    BY <2>1, <2>2 DEF Load
<1>4. \A c \in Containers : c # w => workers'[c] = workers[c]
  BY <1>2 DEF IInv, WorkersType
<1>5. workers'[w] = workers[w] \cup {task}
  BY <1>2 DEF IInv, WorkersType
<1>6. WorkersType'
  BY <1>1, <1>2, <1>3, <1>4, <1>5, SendShortensPlan DEF IInv, WorkersType
<1>7. \A c \in Containers : c # w => Load(c)' = Load(c)
  BY <1>4 DEF Load
<1>8. Load(w)' <= TasksPerContainer
  <2>1. Load(w)' = Cardinality(workers[w] \cup {task})
    BY <1>5 DEF Load
  <2>2. Load(w)' \in Nat /\ Load(w) \in Nat
    BY <2>1, <1>3, FS_CardinalityType, LoadIsNat DEF IInv
  <2> QED
    BY <2>1, <2>2, <1>3, SendShortensPlan, LimitsAssumption
<1>9. Capacity'
  BY <1>7, <1>8 DEF IInv, Capacity
<1>10. ASSUME NEW i \in 1 .. Len(plan')
       PROVE  plan'[i] \in Containers /\ plan'[i] # w
  <2>1. plan'[i] = plan[i + 1] /\ i + 1 \in 1 .. Len(plan) /\ w = plan[1] /\ i + 1 # 1
    BY SendShortensPlan
  <2>2. 1 \in 1 .. Len(plan)
    BY <2>1 DEF IInv, PlanType
  <2> QED
    BY <2>1, <2>2 DEF IInv, PlanHasRoom, PlanType
<1>11. ASSUME NEW i \in 1 .. Len(plan')
       PROVE  Load(plan[i])' < TasksPerContainer
  <2>1. Load(plan'[i]) < TasksPerContainer
    BY SendShortensPlan DEF IInv, PlanHasRoom
  <2>2. Load(plan[i])' = Cardinality(workers'[plan'[i]])
    BY DEF Load
  <2>3. workers'[plan'[i]] = workers[plan'[i]]
    BY <1>10, <1>4
  <2> QED
    BY <2>1, <2>2, <2>3 DEF Load
<1>12. ASSUME NEW i \in 1 .. Len(plan'), NEW j \in 1 .. Len(plan'), plan'[i] = plan'[j]
       PROVE  i = j
  <2>1. /\ plan[i + 1] = plan[j + 1]
        /\ i + 1 \in 1 .. Len(plan) /\ j + 1 \in 1 .. Len(plan)
    BY <1>12, SendShortensPlan
  <2>2. i + 1 = j + 1
    BY <2>1 DEF IInv, PlanHasRoom
  <2> QED
    BY <2>2
<1>13. PlanHasRoom'
  BY <1>11, <1>12 DEF PlanHasRoom
<1> QED
  BY <1>6, <1>9, <1>13, SendShortensPlan DEF IInv

LEMMA ForwardFailsKeepsIInv ==
  ASSUME IInv, NEW w \in Containers, NEW id \in Requests, ForwardFails(w, id)
  PROVE  IInv'
<1>1. Send(w, id) /\ UNCHANGED workers
  BY DEF ForwardFails
<1>2. WorkersType' /\ Capacity'
  BY <1>1, SendShortensPlan DEF IInv, WorkersType, Capacity, Load
<1>3. ASSUME NEW i \in 1 .. Len(plan')
      PROVE  Load(plan[i])' < TasksPerContainer
  <2>1. Load(plan'[i]) < TasksPerContainer
    BY <1>1, SendShortensPlan DEF IInv, PlanHasRoom
  <2> QED
    BY <1>1, <2>1 DEF Load
<1>4. ASSUME NEW i \in 1 .. Len(plan'), NEW j \in 1 .. Len(plan'), plan'[i] = plan'[j]
      PROVE  i = j
  <2>1. /\ plan[i + 1] = plan[j + 1]
        /\ i + 1 \in 1 .. Len(plan) /\ j + 1 \in 1 .. Len(plan)
    BY <1>1, <1>4, SendShortensPlan
  <2>2. i + 1 = j + 1
    BY <2>1 DEF IInv, PlanHasRoom
  <2> QED
    BY <2>2
<1>5. PlanHasRoom'
  BY <1>3, <1>4 DEF PlanHasRoom
<1> QED
  BY <1>1, <1>2, <1>5, SendShortensPlan DEF IInv

--------------------------------------------------------------------------------
LEMMA InitIInv == Init => IInv
<1> SUFFICES ASSUME Init
             PROVE  IInv
  OBVIOUS
<1>1. WorkersType
  BY FS_EmptySet DEF Init, WorkersType
<1>2. PlanType
  BY DEF Init, PlanType
<1>3. Capacity
  BY FS_EmptySet, LimitsAssumption DEF Init, Capacity, Load
<1>4. PlanHasRoom
  BY DEF Init, PlanHasRoom
<1> QED
  BY <1>1, <1>2, <1>3, <1>4 DEF IInv

\* What the probe and one worker do with one request.
LEMMA AtWorkerKeepsIInv ==
  ASSUME IInv, NEW c \in Containers, NEW id \in Requests, AtWorker(c, id)
  PROVE  IInv'
<1>1. queue \in Seq(Requests)
  BY DEF IInv, PlanType
<1>2. CASE Forward(c, id)
  BY <1>2, DispatchKeepsIInv DEF Forward
<1>3. CASE ForwardRefused(c, id)
  BY <1>3, DispatchKeepsIInv DEF ForwardRefused
<1>4. CASE ForwardFails(c, id)
  BY <1>4, ForwardFailsKeepsIInv
<1>5. CASE FetchFile(c, id)
  <2>1. RemoveRequestFromWorker(c, id) /\ UNCHANGED <<place, queue, popped, plan>>
    BY <1>5 DEF FetchFile, api, sending
  <2> QED
    BY <1>1, <2>1, RemovingShrinks, NoGrowth DEF IInv
<1>6. CASE FetchFileFails(c, id)
  BY <1>1, <1>6, Quiet DEF FetchFileFails, handler, api, sending
<1>7. CASE CollectErroneous(c, id)
  <2>1. RemoveRequestFromWorker(c, id) /\ UNCHANGED <<place, queue, popped, plan>>
    BY <1>7 DEF CollectErroneous, api, sending
  <2> QED
    BY <1>1, <2>1, RemovingShrinks, NoGrowth DEF IInv
<1> QED
  BY <1>2, <1>3, <1>4, <1>5, <1>6, <1>7 DEF AtWorker

\* The steps of checkHealth.
LEMMA HealthKeepsIInv ==
  ASSUME IInv,
         \/ CheckHealth \/ CheckHealthFails
         \/ \E task \in Tasks : Redispatch(task) \/ RedispatchFails(task)
         \/ RemoveUnhealthy \/ RemoveUnhealthyFails
         \/ UpdateStatus \/ UpdateStatusFails
  PROVE  IInv'
<1>1. queue \in Seq(Requests)
  BY DEF IInv, PlanType
<1>2. CASE CheckHealth
  BY <1>1, <1>2, Quiet DEF CheckHealth, handler, api, sending
<1>3. CASE CheckHealthFails
  BY <1>1, <1>3, Quiet DEF CheckHealthFails, handler, api, sending
<1>4. ASSUME NEW task \in Tasks, Redispatch(task)
      PROVE  IInv'
  <2>1. AddRequestToQueue(task.id) /\ UNCHANGED <<workers, place, popped, plan>>
    BY <1>4 DEF Redispatch, handler, sending
  <2>2. task.id \in Requests
    BY DEF Tasks
  <2> QED
    BY <2>1, <2>2, AddingToQueue, Quiet
<1>5. ASSUME NEW task \in Tasks, RedispatchFails(task)
      PROVE  IInv'
  <2>1. /\ AddRequestToQueue(task.id) \/ UNCHANGED queue
        /\ UNCHANGED <<workers, place, popped, plan>>
    BY <1>5 DEF RedispatchFails, handler, sending
  <2>2. task.id \in Requests
    BY DEF Tasks
  <2> QED
    BY <1>1, <2>1, <2>2, AddingToQueue, Quiet
<1>6. CASE RemoveUnhealthy
  <2>1. Dismiss({Head(sick)}) /\ UNCHANGED <<queue, popped, plan>>
    BY <1>6 DEF RemoveUnhealthy, api, sending
  <2> QED
    BY <1>1, <2>1, FS_Singleton, DismissShrinks, NoGrowth DEF IInv
<1>7. CASE RemoveUnhealthyFails
  BY <1>1, <1>7, Quiet DEF RemoveUnhealthyFails, handler, api, sending
<1>8. CASE UpdateStatus
  BY <1>1, <1>8, Quiet DEF UpdateStatus, api, sending
<1>9. CASE UpdateStatusFails
  BY <1>1, <1>9, Quiet DEF UpdateStatusFails, api, sending
<1> QED
  BY <1>2, <1>3, <1>4, <1>5, <1>6, <1>7, <1>8, <1>9

\* The steps of applyState.
LEMMA ApplyKeepsIInv ==
  ASSUME IInv,
         \/ \E S \in SUBSET Fresh : StartContainers(S) \/ StartContainersFails(S)
         \/ RemoveIdle \/ RemoveIdleFails
  PROVE  IInv'
<1>1. queue \in Seq(Requests)
  BY DEF IInv, PlanType
<1>2. ASSUME NEW S \in SUBSET Fresh, StartContainers(S)
      PROVE  IInv'
  <2>1. Enroll(S) /\ UNCHANGED <<queue, popped, plan>> /\ S \in SUBSET Containers
    BY <1>2 DEF StartContainers, Applied, Fresh, api, sending
  <2> QED
    BY <1>1, <2>1, EnrollShrinks, NoGrowth DEF IInv
<1>3. ASSUME NEW S \in SUBSET Fresh, StartContainersFails(S)
      PROVE  IInv'
  BY <1>1, <1>3, Quiet DEF StartContainersFails, handler, api, sending
<1>4. CASE RemoveIdle
  <2>1. Dismiss(FirstIdle(toRemove)) /\ UNCHANGED <<queue, popped, plan>>
    BY <1>4 DEF RemoveIdle, Applied, api, sending
  <2>2. IsFiniteSet(FirstIdle(toRemove))
    BY FiniteAssumption, FS_Subset DEF FirstIdle, Idle, Members
  <2> QED
    BY <1>1, <2>1, <2>2, DismissShrinks, NoGrowth DEF IInv
<1>5. CASE RemoveIdleFails
  BY <1>1, <1>5, Quiet DEF RemoveIdleFails, handler, api, sending
<1> QED
  BY <1>2, <1>3, <1>4, <1>5

LEMMA ProbeStepKeepsIInv ==
  ASSUME IInv, ProbeStep
  PROVE  IInv'
<1>1. queue \in Seq(Requests)
  BY DEF IInv, PlanType
<1>2. CASE Tick
  BY <1>1, <1>2, Quiet DEF Tick, handler, api, sending
<1>3. CASE PopRequestsFails
  BY <1>1, <1>3, Quiet DEF PopRequestsFails, handler, api, sending
<1>4. CASE StoreFinished
  BY <1>1, <1>4, Quiet DEF StoreFinished, handler, api, sending
<1>5. CASE CheckFileTtl
  BY <1>1, <1>5, Quiet DEF CheckFileTtl, handler, api, sending
<1> QED
  BY <1>2, <1>3, <1>4, <1>5, HealthKeepsIInv, ApplyKeepsIInv, AtWorkerKeepsIInv,
     PopRequestsKeepsIInv, ProbeKeepsIInv DEF ProbeStep

LEMMA OutsideKeepsIInv ==
  ASSUME IInv, Outside
  PROVE  IInv'
<1>1. queue \in Seq(Requests)
  BY DEF IInv, PlanType
<1>2. ASSUME NEW id \in Requests, ConvertFile(id) \/ ConvertFileFails(id)
      PROVE  IInv'
  <2>1. /\ AddRequestToQueue(id) \/ UNCHANGED queue
        /\ UNCHANGED <<workers, place, popped, plan>>
    BY <1>2 DEF ConvertFile, ConvertFileFails, handler, sending
  <2> QED
    BY <1>1, <2>1, AddingToQueue, Quiet
<1>3. ASSUME NEW id \in Requests, GrowsOld(id) \/ FileOpens(id)
      PROVE  IInv'
  BY <1>1, <1>3, Quiet DEF GrowsOld, FileOpens, handler, api, sending
<1>4. ASSUME NEW c \in Containers, Boots(c) \/ Sickens(c) \/ Vanishes(c) \/ Appears(c)
      PROVE  IInv'
  <2>1. UNCHANGED <<workers, place, queue, popped, plan>>
    BY <1>4 DEF Boots, Sickens, Vanishes, Appears, DockerChanges, internal, api, sending
  <2> QED
    BY <1>1, <2>1, Quiet
<1>5. ASSUME NEW c \in Containers, NEW task \in Tasks, JobEnds(c, task)
      PROVE  IInv'
  BY <1>5, JobEndsKeepsIInv
<1> QED
  BY <1>2, <1>3, <1>4, <1>5 DEF Outside

LEMMA NextKeepsIInv == IInv /\ [Next]_vars => IInv'
<1> SUFFICES ASSUME IInv, [Next]_vars
             PROVE  IInv'
  OBVIOUS
<1>1. CASE UNCHANGED vars
  <2>1. UNCHANGED <<workers, place, queue, popped, plan>>
    BY <1>1 DEF vars, handler, api, sending
  <2> QED
    BY <2>1, Quiet DEF IInv, PlanType
<1> QED
  BY <1>1, ProbeStepKeepsIInv, OutsideKeepsIInv DEF Next

LEMMA Invariance == Spec => []IInv
BY InitIInv, NextKeepsIInv, PTL DEF Spec

\* No worker ever holds more than TASKS_PER_CONTAINER requests, whatever fails:
\* forwardRequestsToIdleWorkers pops as many requests as there are healthy
\* workers with room, and even an unhealthy one that forwardRequests picks
\* instead has room, as it has no more requests than one of those.
THEOREM WorkersNeverOverloaded == Spec => []WorkerCapacity
<1>1. IInv => WorkerCapacity
  BY DEF IInv, Capacity, WorkerCapacity, Members
<1> QED
  BY <1>1, Invariance, PTL
--------------------------------------------------------------------------------
(***************************************************************************)
(* The places of the workers, in Object.keys(workers), are distinct and    *)
(* run from 1 to their number.                                             *)
(***************************************************************************)
PlacesFit ==
  /\ place \in [Containers -> Nat]
  /\ \A c \in Containers : place[c] <= Cardinality(Members)
  /\ \A c, d \in Members : place[c] = place[d] => c = d

\* No more workers than numbers have their places in an interval.
LEMMA PlacesBetween ==
  ASSUME PlacesFit, NEW T \in SUBSET Members, NEW a \in Nat, NEW b \in Nat, a <= b,
         \A d \in T : a < place[d] /\ place[d] <= b
  PROVE  IsFiniteSet(T) /\ Cardinality(T) \in Nat /\ Cardinality(T) <= b - a
<1> DEFINE f == [d \in T |-> place[d]]
<1>1. T \subseteq Containers
  BY DEF Members
<1>2. \A d \in T : place[d] \in a + 1 .. b
  BY <1>1 DEF PlacesFit
<1>3. f \in Injection(T, a + 1 .. b)
  <2>1. f \in [T -> a + 1 .. b]
    BY <1>2
  <2>2. \A d, e \in T : f[d] = f[e] => d = e
    BY DEF PlacesFit
  <2> QED
    BY <2>1, <2>2, Fun_IsInj
<1>4. IsFiniteSet(a + 1 .. b) /\ Cardinality(a + 1 .. b) = b - a
  <2>1. a + 1 \in Int /\ b \in Int
    OBVIOUS
  <2>2. /\ IsFiniteSet(a + 1 .. b)
        /\ Cardinality(a + 1 .. b) = IF a + 1 > b THEN 0 ELSE b - (a + 1) + 1
    BY <2>1, FS_Interval
  <2> QED
    BY <2>2
<1>5. IsFiniteSet(T) /\ Cardinality(T) <= b - a
  BY <1>3, <1>4, FS_Injection
<1> QED
  BY <1>5, FS_CardinalityType

\* removeWorker closes the gaps: the others keep their order.
LEMMA DismissPlaces ==
  ASSUME PlacesFit, NEW S \in SUBSET Members, Dismiss(S)
  PROVE  PlacesFit' /\ Members' = Members \ S
<1> DEFINE Below(c) == {d \in S : place[d] < place[c]}
           Above(c) == {d \in S : place[d] > place[c]}
           N == Cardinality(Members)
<1>1. /\ IsFiniteSet(Members) /\ N \in Nat /\ Members \subseteq Containers
      /\ IsFiniteSet(S) /\ Cardinality(S) \in Nat /\ S \subseteq Containers
  BY FreeIsFinite, FS_Subset, FS_CardinalityType DEF Members
<1>2. \A c \in Containers : /\ IsFiniteSet(Below(c)) /\ Cardinality(Below(c)) \in Nat
                            /\ IsFiniteSet(Above(c)) /\ Cardinality(Above(c)) \in Nat
  BY <1>1, FS_Subset, FS_CardinalityType
<1>3. \A c \in Containers : place[c] \in Nat /\ (c \in Members <=> place[c] > 0)
  BY DEF PlacesFit, Members
<1>4. /\ place' = [c \in Containers |-> IF c \in S THEN 0
                                                   ELSE place[c] - Cardinality(Below(c))]
  BY DEF Dismiss
<1>5. ASSUME NEW c \in Containers, c \notin Members
      PROVE  place'[c] = 0
  <2>1. Below(c) = {}
    BY <1>1, <1>3, <1>5
  <2> QED
    BY <2>1, <1>3, <1>4, <1>5, FS_EmptySet
<1>6. ASSUME NEW c \in Members \ S
      PROVE  /\ place'[c] = place[c] - Cardinality(Below(c))
             /\ place'[c] \in Nat /\ place'[c] > 0
             /\ place'[c] <= N - Cardinality(S)
  <2>1. c \in Containers /\ place[c] \in Nat /\ place[c] > 0 /\ place[c] <= N
    BY <1>1, <1>3 DEF PlacesFit
  <2>2. place'[c] = place[c] - Cardinality(Below(c))
    BY <2>1, <1>4
  <2>3. Cardinality(Below(c)) <= place[c] - 1
    <3>1. \A d \in Below(c) : 0 < place[d] /\ place[d] <= place[c] - 1
      BY <1>1, <1>3, <2>1
    <3>2. Cardinality(Below(c)) <= (place[c] - 1) - 0
      BY <3>1, <2>1, PlacesBetween
    <3> QED
      BY <3>2, <2>1, <1>2
  <2>4. Cardinality(Above(c)) <= N - place[c]
    <3>1. \A d \in Above(c) : place[c] < place[d] /\ place[d] <= N
      BY <1>1, <1>3 DEF PlacesFit
    <3> HIDE DEF N
    <3> QED
      BY <3>1, <2>1, <1>1, PlacesBetween
  <2>5. Cardinality(S) = Cardinality(Below(c)) + Cardinality(Above(c))
    <3>1. S = Below(c) \cup Above(c) /\ Below(c) \cap Above(c) = {}
      BY <1>1, <1>3, <2>1 DEF PlacesFit
    <3>2. Cardinality(Below(c) \cup Above(c))
            = Cardinality(Below(c)) + Cardinality(Above(c)) - Cardinality(Below(c) \cap Above(c))
      BY <1>2, <2>1, FS_Union
    <3>3. Cardinality(Below(c) \cap Above(c)) = 0
      BY <3>1, FS_EmptySet
    <3> HIDE DEF Below, Above
    <3> QED
      BY <3>1, <3>2, <3>3, <1>2, <2>1
  <2> HIDE DEF Below, Above, N
  <2> QED
    BY <2>1, <2>2, <2>3, <2>4, <2>5, <1>1, <1>2
<1>7. ASSUME NEW c \in Members \ S, NEW d \in Members \ S, place[c] < place[d]
      PROVE  place'[c] # place'[d]
  <2> DEFINE Mid == {e \in S : place[c] < place[e] /\ place[e] < place[d]}
  <2>1. /\ c \in Containers /\ d \in Containers
        /\ place[c] \in Nat /\ place[d] \in Nat /\ place[d] > 0
    BY <1>1, <1>3
  <2>2. IsFiniteSet(Mid) /\ Cardinality(Mid) \in Nat
        /\ Cardinality(Mid) <= (place[d] - 1) - place[c]
    <3>1. \A e \in Mid : place[c] < place[e] /\ place[e] <= place[d] - 1
      BY <1>1, <1>3, <2>1
    <3> QED
      BY <3>1, <2>1, <1>7, PlacesBetween
  <2>3. Below(d) = Below(c) \cup Mid
    BY <1>1, <1>3, <1>7 DEF PlacesFit
  <2>4. Below(c) \cap Mid = {}
    BY <1>1, <1>3
  <2>5. Cardinality(Below(c) \cup Mid) = Cardinality(Below(c)) + Cardinality(Mid) - Cardinality(Below(c) \cap Mid)
    BY <1>2, <2>1, <2>2, FS_Union
  <2>6. Cardinality(Below(c) \cap Mid) = 0
    BY <2>4, FS_EmptySet
  <2>7. place'[c] = place[c] - Cardinality(Below(c)) /\ place'[d] = place[d] - Cardinality(Below(d))
    BY <1>6
  <2>8. Cardinality(Below(c)) \in Nat
    BY <1>2, <2>1
  <2> HIDE DEF Below, Mid
  <2> QED
    BY <2>1, <2>2, <2>3, <2>5, <2>6, <2>7, <2>8
<1> HIDE DEF Below, Above
<1>8. \A c \in Containers : place'[c] > 0 <=> c \in Members \ S
  <2> SUFFICES ASSUME NEW c \in Containers
               PROVE  place'[c] > 0 <=> c \in Members \ S
    OBVIOUS
  <2>1. CASE c \in S
    BY <2>1, <1>4
  <2>2. CASE c \notin Members
    BY <2>2, <1>5
  <2>3. CASE c \in Members \ S
    BY <2>3, <1>6
  <2> QED
    BY <2>1, <2>2, <2>3
<1>9. Members' = Members \ S
  BY <1>1, <1>8 DEF Members
<1>10. Cardinality(Members') = N - Cardinality(S)
  <2>1. Members \cap S = S
    OBVIOUS
  <2>2. Cardinality(Members \ S) = Cardinality(Members) - Cardinality(Members \cap S)
    BY <1>1, FS_Difference
  <2> QED
    BY <2>1, <2>2, <1>9
<1>11. \A c \in Containers : place'[c] \in Nat /\ place'[c] <= Cardinality(Members')
  <2>1. Cardinality(S) <= N
    BY <1>1, FS_Subset
  <2> SUFFICES ASSUME NEW c \in Containers
               PROVE  place'[c] \in Nat /\ place'[c] <= Cardinality(Members')
    OBVIOUS
  <2> HIDE DEF N
  <2>2. CASE c \in S
    BY <2>1, <2>2, <1>1, <1>4, <1>10
  <2>3. CASE c \notin Members
    BY <2>1, <2>3, <1>1, <1>5, <1>10
  <2>4. CASE c \in Members \ S
    BY <2>4, <1>6, <1>10 DEF N
  <2> QED
    BY <2>2, <2>3, <2>4
<1>12. place' \in [Containers -> Nat]
  BY <1>4, <1>11
<1>13. ASSUME NEW c \in Members \ S, NEW d \in Members \ S, place'[c] = place'[d]
       PROVE  c = d
  <2>1. place[c] \in Nat /\ place[d] \in Nat
    BY <1>1, <1>3
  <2>2. ~(place[c] < place[d]) /\ ~(place[d] < place[c])
    BY <1>7, <1>13
  <2> QED
    BY <2>1, <2>2 DEF PlacesFit
<1> QED
  BY <1>9, <1>11, <1>12, <1>13 DEF PlacesFit

\* addWorker puts new workers behind the others.
LEMMA EnrollPlaces ==
  ASSUME PlacesFit, NEW S \in SUBSET Fresh, Enroll(S)
  PROVE  /\ PlacesFit' /\ Members' = Members \cup S
         /\ Cardinality(Members') = Cardinality(Members) + Cardinality(S)
<1> DEFINE N == Cardinality(Members)
<1>1. /\ IsFiniteSet(Members) /\ N \in Nat /\ Members \subseteq Containers
      /\ IsFiniteSet(S) /\ Cardinality(S) \in Nat /\ S \subseteq Containers
  BY FreeIsFinite, FiniteAssumption, FS_Subset, FS_CardinalityType DEF Members, Fresh
<1>2. PICK p \in [S -> N + 1 .. N + Cardinality(S)] :
        /\ \A c, d \in S : p[c] = p[d] => c = d
        /\ place' = [c \in Containers |-> IF c \in S THEN p[c] ELSE place[c]]
  BY DEF Enroll
<1>3. Members \cap S = {}
  BY DEF Members, Fresh
<1>4. \A c \in S : p[c] \in Nat /\ p[c] > N /\ p[c] <= N + Cardinality(S)
  BY <1>1, <1>2
<1>5. \A c \in Containers : place[c] \in Nat /\ place[c] <= N /\ (c \in Members <=> place[c] > 0)
  BY DEF PlacesFit, Members
<1> HIDE DEF N
<1>6. \A c \in Containers : place'[c] = IF c \in S THEN p[c] ELSE place[c]
  BY <1>2
<1>7. Members' = Members \cup S
  BY <1>1, <1>4, <1>5, <1>6 DEF Members
<1>8. Cardinality(Members') = N + Cardinality(S)
  <2>1. Cardinality(Members \cup S) = N + Cardinality(S) - Cardinality(Members \cap S)
    BY <1>1, FS_Union DEF N
  <2>2. Cardinality(Members \cap S) = 0
    BY <1>3, FS_EmptySet
  <2> QED
    BY <2>1, <2>2, <1>1, <1>7
<1>9. place' \in [Containers -> Nat]
  BY <1>2, <1>4, <1>5
<1>10. \A c \in Containers : place'[c] <= Cardinality(Members')
  BY <1>1, <1>4, <1>5, <1>6, <1>8
<1>11. ASSUME NEW c \in Members \cup S, NEW d \in Members \cup S, place'[c] = place'[d]
       PROVE  c = d
  BY <1>1, <1>2, <1>3, <1>4, <1>5, <1>6, <1>11 DEF PlacesFit
<1> QED
  BY <1>7, <1>8, <1>9, <1>10, <1>11 DEF PlacesFit, N

--------------------------------------------------------------------------------
(***************************************************************************)
(* The inductive invariant.                                                *)
(***************************************************************************)
\* The types of the variables the capacity of workers does not depend on.
RequestTypes ==
  /\ client \in [Requests -> {"new", "accepted", "failed"}]
  /\ waiting \subseteq Requests
  /\ finished \in [Requests -> {"none", "converted", "erroneous"}]
  /\ input \subseteq Requests
  /\ output \subseteq Requests
  /\ opening \subseteq Requests
  /\ old \subseteq Requests
  /\ redone \subseteq Requests
  /\ todo \subseteq Containers \X Requests \X {"converted", "erroneous"}
  /\ batch \subseteq Requests \X {"converted", "erroneous"}

EngineTypes ==
  /\ health \in [Containers -> {"none", "starting", "healthy", "unhealthy"}]
  /\ docker \in [Containers -> {"none", "creating", "starting", "healthy", "unhealthy"}]
  /\ sick \in Seq(Containers)

ControlTypes ==
  /\ mode \in {"boot", "start", "probe", "exited"}
  /\ pc \in {"idle", "health", "redispatch", "forward", "send", "fetch", "apply", "ttl"}
  /\ probe \in 0 .. ProbesPerApply - 1
  /\ pending \in Nat
  /\ toStart \in Int
  /\ toRemove \in Nat

\* The unhealthy workers still to be emptied are workers, each is there once,
\* and what was re-dispatched of the first of them is in the queue: nobody pops
\* a request before the check of the health has ended.
CheckFits ==
  /\ sick # <<>> => pc = "redispatch"
  /\ redone # {} => sick # <<>>
  /\ \A i \in DOMAIN sick : sick[i] \in Members
  /\ \A i, j \in DOMAIN sick : sick[i] = sick[j] => i = j
  /\ \A id \in redone : \E i \in DOMAIN queue : queue[i] = id

\* A request whose result is collected or published has no input file, and will
\* not get one again: DeleteInput collects only what has one.
ResultsFit ==
  /\ batch # {} => pc = "fetch"
  /\ \A id \in Requests : finished[id] = "converted" => id \in output \cup opening
  /\ \A b \in batch : /\ finished[b[1]] = "none" /\ b[1] \notin input /\ client[b[1]] # "new"
                      /\ b[2] = "converted" => b[1] \in output \cup opening
  /\ \A id \in Requests : finished[id] # "none" => id \notin input /\ client[id] # "new"
  /\ \A id \in input : client[id] # "new"

FInv == /\ IInv /\ RequestTypes /\ EngineTypes /\ ControlTypes
        /\ PlacesFit /\ CheckFits /\ ResultsFit

LEMMA FInvTypeOK == FInv => TypeOK
BY DEF FInv, IInv, WorkersType, PlanType, RequestTypes, EngineTypes, ControlTypes, PlacesFit,
       TypeOK

--------------------------------------------------------------------------------
(***************************************************************************)
(* RequestTypes.                                                           *)
(***************************************************************************)
LEMMA ThrowTypes ==
  ASSUME Throw
  PROVE  redone' = {} /\ sick' = <<>> /\ sick' \in Seq(Containers)
BY DEF Throw

LEMMA KeepsRequestTypes ==
  ASSUME FInv, [Next]_vars
  PROVE  RequestTypes'
<1> USE DEF FInv, RequestTypes
<1>1. ASSUME NEW id \in Requests,
             ConvertFile(id) \/ ConvertFileFails(id) \/ GrowsOld(id) \/ FileOpens(id)
      PROVE  RequestTypes'
  BY <1>1 DEF ConvertFile, ConvertFileFails, GrowsOld, FileOpens, AddRequestToQueue, files,
     results, checking, sending, fetching, api
<1>2. ASSUME NEW c \in Containers,
             Boots(c) \/ Sickens(c) \/ Vanishes(c) \/ Appears(c)
               \/ \E task \in Tasks : JobEnds(c, task)
      PROVE  RequestTypes'
  BY <1>2 DEF Boots, Sickens, Vanishes, Appears, JobEnds, DockerChanges, internal, files, api,
     results, checking, fetching
<1>3. CASE Tick \/ CheckHealth \/ UpdateStatus \/ RemoveUnhealthy \/ PopRequests
  BY <1>3 DEF Tick, CheckHealth, UpdateStatus, RemoveUnhealthy, PopRequests, StillWaiting,
     files, api, results, checking, fetching
<1>4. CASE CheckHealthFails \/ UpdateStatusFails \/ RemoveUnhealthyFails \/ PopRequestsFails
             \/ RemoveIdleFails \/ \E S \in SUBSET Fresh : StartContainersFails(S)
  BY <1>4, ThrowTypes DEF CheckHealthFails, UpdateStatusFails, RemoveUnhealthyFails,
     PopRequestsFails, RemoveIdleFails, StartContainersFails, files, api, results, fetching
<1>5. ASSUME NEW task \in Tasks, Redispatch(task) \/ RedispatchFails(task)
      PROVE  RequestTypes'
  <2>1. task.id \in Requests
    BY DEF Tasks
  <2> QED
    BY <1>5, <2>1, ThrowTypes DEF Redispatch, RedispatchFails, AddRequestToQueue, files, api,
       results, fetching
<1>6. ASSUME NEW c \in Containers, NEW id \in Requests,
             Forward(c, id) \/ ForwardRefused(c, id) \/ ForwardFails(c, id)
      PROVE  RequestTypes'
  BY <1>6 DEF Forward, ForwardRefused, ForwardFails, Send, files, api, results, checking, fetching
<1>7. ASSUME NEW c \in Containers, NEW id \in Requests,
             FetchFile(c, id) \/ FetchFileFails(c, id) \/ CollectErroneous(c, id)
      PROVE  RequestTypes'
  BY <1>7 DEF FetchFile, FetchFileFails, CollectErroneous, DeleteInput, files, api, results,
     checking
<1>8. CASE Probe
  BY <1>8 DEF Probe, Members, files, api, results, checking
<1>9. CASE StoreFinished
  BY <1>9 DEF StoreFinished, files, api, checking
<1>10. CASE RemoveIdle \/ \E S \in SUBSET Fresh : StartContainers(S)
  BY <1>10 DEF RemoveIdle, StartContainers, Applied, files, api, results, checking, fetching
<1>11. CASE CheckFileTtl
  BY <1>11 DEF CheckFileTtl, api, checking, fetching
<1>12. CASE UNCHANGED vars
  BY <1>12 DEF vars, files, api, results, checking, fetching
<1> QED
  BY <1>1, <1>2, <1>3, <1>4, <1>5, <1>6, <1>7, <1>8, <1>9, <1>10, <1>11, <1>12
  DEF Next, ProbeStep, Outside, AtWorker

--------------------------------------------------------------------------------
(***************************************************************************)
(* EngineTypes.                                                            *)
(***************************************************************************)
\* A numbering of a finite set of containers is a sequence of containers.
LEMMA NumberingIsSeq ==
  ASSUME NEW T \in SUBSET Containers, NEW s \in [1 .. Cardinality(T) -> T]
  PROVE  s \in Seq(Containers)
<1>1. Cardinality(T) \in Nat
  BY FiniteAssumption, FS_Subset, FS_CardinalityType
<1> QED
  BY <1>1

\* What checkHealth may leave in unhealthyContainerIds.
LEMMA SickAreWorkers ==
  ASSUME CheckHealth
  PROVE  /\ sick' \in Seq(Containers)
         /\ \A i \in DOMAIN sick' : sick'[i] \in Members
         /\ \A i, j \in DOMAIN sick' : sick'[i] = sick'[j] => i = j
<1> DEFINE unhealthy == {c \in Listed \cap Members : docker[c] = "unhealthy"}
<1>1. sick' \in [1 .. Cardinality(unhealthy) -> unhealthy]
      /\ \A i, j \in DOMAIN sick' : sick'[i] = sick'[j] => i = j
  BY DEF CheckHealth
<1>2. unhealthy \subseteq Members /\ unhealthy \subseteq Containers
  BY DEF Members
<1> HIDE DEF unhealthy
<1>3. sick' \in Seq(Containers)
  BY <1>1, <1>2, NumberingIsSeq
<1> QED
  BY <1>1, <1>2, <1>3

LEMMA KeepsEngineTypes ==
  ASSUME FInv, [Next]_vars
  PROVE  EngineTypes'
<1> USE DEF FInv, EngineTypes
<1>1. ASSUME NEW id \in Requests,
             ConvertFile(id) \/ ConvertFileFails(id) \/ GrowsOld(id) \/ FileOpens(id)
      PROVE  EngineTypes'
  BY <1>1 DEF ConvertFile, ConvertFileFails, GrowsOld, FileOpens, handler, checking
<1>2. ASSUME NEW c \in Containers,
             Boots(c) \/ Sickens(c) \/ Vanishes(c) \/ Appears(c)
               \/ \E task \in Tasks : JobEnds(c, task)
      PROVE  EngineTypes'
  BY <1>2 DEF Boots, Sickens, Vanishes, Appears, JobEnds, DockerChanges, internal, checking
<1>3. CASE Tick \/ PopRequests \/ StoreFinished \/ CheckFileTtl \/ Probe
  BY <1>3 DEF Tick, PopRequests, StoreFinished, CheckFileTtl, Probe, handler, checking
<1>4. CASE CheckHealth
  <2>1. sick' \in Seq(Containers)
    BY <1>4, SickAreWorkers
  <2> QED
    BY <1>4, <2>1 DEF CheckHealth, Deleted, handler
<1>5. CASE CheckHealthFails \/ RemoveUnhealthyFails \/ RemoveIdleFails
             \/ \E S \in SUBSET Fresh : StartContainersFails(S)
  <2>1. sick' \in Seq(Containers)
    BY <1>5, ThrowTypes
    DEF CheckHealthFails, RemoveUnhealthyFails, RemoveIdleFails, StartContainersFails
  <2>2. health' = health
    BY <1>5 DEF CheckHealthFails, RemoveUnhealthyFails, RemoveIdleFails, StartContainersFails,
       handler
  <2>3. docker' \in [Containers -> {"none", "creating", "starting", "healthy", "unhealthy"}]
    BY <1>5 DEF CheckHealthFails, RemoveUnhealthyFails, RemoveIdleFails, StartContainersFails,
       Deleted
  <2> QED
    BY <2>1, <2>2, <2>3
<1>6. CASE PopRequestsFails \/ \E task \in Tasks : Redispatch(task) \/ RedispatchFails(task)
  <2>1. sick' \in Seq(Containers)
    BY <1>6, ThrowTypes DEF PopRequestsFails, Redispatch, RedispatchFails
  <2> QED
    BY <1>6, <2>1 DEF PopRequestsFails, Redispatch, RedispatchFails, handler
<1>7. CASE RemoveUnhealthy
  <2>1. sick # <<>> /\ sick' = Tail(sick)
    BY <1>7 DEF RemoveUnhealthy
  <2>2. sick' \in Seq(Containers)
    BY <2>1
  <2> QED
    BY <1>7, <2>2 DEF RemoveUnhealthy, Deleted, Dismiss
<1>8. CASE UpdateStatus \/ UpdateStatusFails
  <2>1. sick' \in Seq(Containers)
    BY <1>8, ThrowTypes DEF UpdateStatus, UpdateStatusFails
  <2>2. docker' = docker
    BY <1>8 DEF UpdateStatus, UpdateStatusFails
  <2>3. \/ health' = health
        \/ \E S \in SUBSET Listed : health' = Refreshed(S)
    BY <1>8 DEF UpdateStatus, UpdateStatusFails
  <2> QED
    BY <2>1, <2>2, <2>3 DEF Refreshed, Listed
<1>9. ASSUME NEW c \in Containers, NEW id \in Requests, AtWorker(c, id)
      PROVE  EngineTypes'
  BY <1>9 DEF AtWorker, Forward, ForwardRefused, ForwardFails, Send, FetchFile, FetchFileFails,
     CollectErroneous, checking, handler
<1>10. CASE RemoveIdle \/ \E S \in SUBSET Fresh : StartContainers(S)
  BY <1>10 DEF RemoveIdle, StartContainers, Applied, Dismiss, Enroll, Deleted, checking
<1>11. CASE UNCHANGED vars
  BY <1>11 DEF vars, handler, checking
<1> QED
  BY <1>1, <1>2, <1>3, <1>4, <1>5, <1>6, <1>7, <1>8, <1>9, <1>10, <1>11
  DEF Next, ProbeStep, Outside

--------------------------------------------------------------------------------
(***************************************************************************)
(* ControlTypes.                                                           *)
(***************************************************************************)
LEMMA AssignedIsFinite ==
  ASSUME WorkersType
  PROVE  IsFiniteSet(Assigned) /\ Cardinality(Assigned) \in Nat
<1> DEFINE T == {{c} \X workers[c] : c \in Members}
<1>1. IsFiniteSet(Members) /\ \A c \in Members : c \in Containers
  BY FreeIsFinite DEF Members
<1>2. IsFiniteSet(T)
  <2> DEFINE f == [c \in Members |-> {c} \X workers[c]]
  <2>1. T = {f[c] : c \in Members}
    OBVIOUS
  <2> HIDE DEF f, T
  <2> QED
    BY <2>1, <1>1, ImageIsSmaller
<1>3. \A A \in T : IsFiniteSet(A)
  <2> SUFFICES ASSUME NEW c \in Members
               PROVE  IsFiniteSet({c} \X workers[c])
    OBVIOUS
  <2>1. IsFiniteSet({c}) /\ IsFiniteSet(workers[c])
    BY <1>1, FS_Singleton DEF WorkersType
  <2> QED
    BY <2>1, FS_Product
<1>4. Assigned = UNION T
  BY DEF Assigned
<1> HIDE DEF T
<1>5. IsFiniteSet(Assigned)
  BY <1>2, <1>3, <1>4, FS_UNION
<1> QED
  BY <1>5, FS_CardinalityType

LEMMA StatusIsWhole ==
  ASSUME FInv, ComputeStatus
  PROVE  toStart' \in Int /\ toRemove' \in Nat
<1>1. Cardinality(Listed) \in Nat
  BY FiniteAssumption, FS_Subset, FS_CardinalityType DEF Listed
<1>2. pending + Cardinality(Assigned) \in Nat
  BY AssignedIsFinite DEF FInv, IInv, ControlTypes
<1> QED
  BY <1>1, <1>2, StartIsInt, RemoveFits DEF ComputeStatus

LEMMA NextProbeInRange ==
  ASSUME FInv
  PROVE  NextProbe \in 0 .. ProbesPerApply - 1
BY ProbesAssumption DEF FInv, ControlTypes, NextProbe

LEMMA ThrowControls ==
  ASSUME FInv, Throw
  PROVE  /\ mode' \in {"boot", "start", "probe", "exited"}
         /\ pc' = "idle" /\ pending' \in Nat
         /\ probe' \in 0 .. ProbesPerApply - 1
BY NextProbeInRange DEF Throw

LEMMA KeepsControlTypes ==
  ASSUME FInv, [Next]_vars
  PROVE  ControlTypes'
<1>0. ControlTypes /\ Len(queue) \in Nat
  BY DEF FInv, IInv, PlanType
<1> USE DEF ControlTypes
<1>1. ASSUME NEW id \in Requests,
             ConvertFile(id) \/ ConvertFileFails(id) \/ GrowsOld(id) \/ FileOpens(id)
      PROVE  ControlTypes'
  BY <1>0, <1>1 DEF ConvertFile, ConvertFileFails, GrowsOld, FileOpens, control, checking, status
<1>2. ASSUME NEW c \in Containers,
             Boots(c) \/ Sickens(c) \/ Vanishes(c) \/ Appears(c)
               \/ \E task \in Tasks : JobEnds(c, task)
      PROVE  ControlTypes'
  BY <1>0, <1>2 DEF Boots, Sickens, Vanishes, Appears, JobEnds, DockerChanges, internal, checking,
     control, status
<1>3. CASE Tick \/ PopRequests \/ StoreFinished \/ Probe
  BY <1>0, <1>3 DEF Tick, PopRequests, StoreFinished, Probe, checking, status
<1>4. CASE CheckHealth
  BY <1>0, <1>4 DEF CheckHealth, status
<1>5. CASE CheckHealthFails \/ RemoveUnhealthyFails \/ RemoveIdleFails \/ PopRequestsFails
             \/ \E task \in Tasks : RedispatchFails(task)
  <2>1. Throw /\ UNCHANGED status
    BY <1>5 DEF CheckHealthFails, RemoveUnhealthyFails, RemoveIdleFails, PopRequestsFails,
       RedispatchFails
  <2> QED
    BY <1>0, <2>1, ThrowControls DEF status
<1>6. CASE RemoveUnhealthy \/ \E task \in Tasks : Redispatch(task)
  BY <1>0, <1>6 DEF RemoveUnhealthy, Redispatch, control, status
<1>7. CASE UpdateStatus
  <2>1. toStart' \in Int /\ toRemove' \in Nat
    BY <1>7, StatusIsWhole DEF UpdateStatus
  <2>2. pc' \in {"apply", "idle", "forward"}
    BY <1>7 DEF UpdateStatus
  <2> QED
    BY <1>0, <1>7, <2>1, <2>2 DEF UpdateStatus
<1>8. CASE UpdateStatusFails
  <2>1. toStart' \in Int /\ toRemove' \in Nat
    BY <1>0, <1>8, StatusIsWhole DEF UpdateStatusFails, status
  <2> QED
    BY <1>0, <1>8, <2>1, ThrowControls DEF UpdateStatusFails
<1>9. ASSUME NEW c \in Containers, NEW id \in Requests, AtWorker(c, id)
      PROVE  ControlTypes'
  BY <1>0, <1>9 DEF AtWorker, Forward, ForwardRefused, ForwardFails, Send, FetchFile,
     FetchFileFails, CollectErroneous, checking, control, status
<1>10. CASE RemoveIdle
  BY <1>0, <1>10 DEF RemoveIdle, Applied, checking
<1>11. ASSUME NEW S \in SUBSET Fresh, StartContainers(S) \/ StartContainersFails(S)
       PROVE  ControlTypes'
  <2>1. CASE StartContainers(S)
    BY <1>0, <2>1 DEF StartContainers, Applied, checking
  <2>2. CASE StartContainersFails(S)
    BY <1>0, <2>2, ThrowControls DEF StartContainersFails, status
  <2> QED
    BY <1>11, <2>1, <2>2
<1>12. CASE CheckFileTtl
  BY <1>0, <1>12, NextProbeInRange DEF CheckFileTtl, checking, status
<1>13. CASE UNCHANGED vars
  BY <1>0, <1>13 DEF vars, checking, control, status
<1> HIDE DEF ControlTypes
<1>14. CASE ProbeStep
  BY <1>14, <1>3, <1>4, <1>5, <1>6, <1>7, <1>8, <1>9, <1>10, <1>11, <1>12 DEF ProbeStep
<1>15. CASE Outside
  BY <1>15, <1>1, <1>2 DEF Outside
<1> QED
  BY <1>13, <1>14, <1>15 DEF Next

--------------------------------------------------------------------------------
(***************************************************************************)
(* PlacesFit.                                                              *)
(***************************************************************************)
LEMMA FirstIdleAreMembers ==
  ASSUME NEW n
  PROVE  FirstIdle(n) \in SUBSET Members /\ \A c \in FirstIdle(n) : workers[c] = {}
BY DEF FirstIdle, Idle

\* The first unhealthy worker is a worker, and the others are other workers.
LEMMA HeadIsMember ==
  ASSUME FInv, sick # <<>>
  PROVE  /\ Head(sick) \in Members /\ Head(sick) \in Containers
         /\ Tail(sick) \in Seq(Containers) /\ Len(Tail(sick)) = Len(sick) - 1
         /\ \A i \in DOMAIN Tail(sick) : /\ i + 1 \in DOMAIN sick
                                         /\ Tail(sick)[i] = sick[i + 1]
                                         /\ Tail(sick)[i] # Head(sick)
<1>1. sick \in Seq(Containers) /\ Len(sick) \in Nat /\ Len(sick) > 0 /\ Head(sick) = sick[1]
  BY DEF FInv, EngineTypes
<1>2. /\ Tail(sick) \in Seq(Containers) /\ Len(Tail(sick)) = Len(sick) - 1
      /\ \A i \in 1 .. Len(sick) - 1 : Tail(sick)[i] = sick[i + 1]
  BY <1>1, HeadTailProperties
<1>3. 1 \in DOMAIN sick /\ Head(sick) \in Members
  BY <1>1 DEF FInv, CheckFits
<1>4. ASSUME NEW i \in DOMAIN Tail(sick)
      PROVE  i + 1 \in DOMAIN sick /\ Tail(sick)[i] = sick[i + 1] /\ Tail(sick)[i] # Head(sick)
  <2>1. i \in 1 .. Len(sick) - 1 /\ i + 1 \in DOMAIN sick /\ i + 1 # 1
    BY <1>1, <1>2
  <2>2. sick[i + 1] # sick[1]
    BY <1>3, <2>1 DEF FInv, CheckFits
  <2> QED
    BY <1>1, <1>2, <2>1, <2>2
<1> QED
  BY <1>2, <1>3, <1>4 DEF Members

\* Workers come and go in three actions.
LEMMA PlaceChanges ==
  ASSUME [Next]_vars
  PROVE  \/ place' = place
         \/ RemoveUnhealthy
         \/ RemoveIdle
         \/ \E S \in SUBSET Fresh : StartContainers(S)
<1>1. ASSUME NEW id \in Requests,
             ConvertFile(id) \/ ConvertFileFails(id) \/ GrowsOld(id) \/ FileOpens(id)
      PROVE  place' = place
  BY <1>1 DEF ConvertFile, ConvertFileFails, GrowsOld, FileOpens, handler
<1>2. ASSUME NEW c \in Containers,
             Boots(c) \/ Sickens(c) \/ Vanishes(c) \/ Appears(c)
               \/ \E task \in Tasks : JobEnds(c, task)
      PROVE  place' = place
  BY <1>2 DEF Boots, Sickens, Vanishes, Appears, JobEnds, DockerChanges, internal
<1>3. CASE \/ Tick \/ CheckHealth \/ UpdateStatus \/ PopRequests \/ Probe \/ StoreFinished
           \/ CheckFileTtl
  BY <1>3 DEF Tick, CheckHealth, UpdateStatus, PopRequests, Probe, StoreFinished, CheckFileTtl,
     handler
<1>4. CASE CheckHealthFails \/ RemoveUnhealthyFails \/ UpdateStatusFails \/ PopRequestsFails
             \/ RemoveIdleFails
  BY <1>4 DEF CheckHealthFails, RemoveUnhealthyFails, UpdateStatusFails, PopRequestsFails,
     RemoveIdleFails, handler
<1>5. ASSUME NEW task \in Tasks, Redispatch(task) \/ RedispatchFails(task)
      PROVE  place' = place
  BY <1>5 DEF Redispatch, RedispatchFails, handler
<1>6. ASSUME NEW c \in Containers, NEW id \in Requests, AtWorker(c, id)
      PROVE  place' = place
  BY <1>6 DEF AtWorker, Forward, ForwardRefused, ForwardFails, Send, FetchFile, FetchFileFails,
     CollectErroneous, handler
<1>7. ASSUME NEW S \in SUBSET Fresh, StartContainersFails(S)
      PROVE  place' = place
  BY <1>7 DEF StartContainersFails, handler
<1>8. CASE UNCHANGED vars
  BY <1>8 DEF vars, handler
<1>9. CASE ProbeStep
  BY <1>9, <1>3, <1>4, <1>5, <1>6, <1>7 DEF ProbeStep
<1>10. CASE Outside
  BY <1>10, <1>1, <1>2 DEF Outside
<1> QED
  BY <1>8, <1>9, <1>10 DEF Next

LEMMA KeepsPlacesFit ==
  ASSUME FInv, [Next]_vars
  PROVE  PlacesFit'
<1>1. CASE place' = place
  BY <1>1 DEF FInv, PlacesFit, Members
<1>2. CASE RemoveUnhealthy
  <2>1. Dismiss({Head(sick)}) /\ {Head(sick)} \in SUBSET Members
    BY <1>2, HeadIsMember DEF RemoveUnhealthy
  <2> QED
    BY <2>1, DismissPlaces DEF FInv
<1>3. CASE RemoveIdle
  BY <1>3, FirstIdleAreMembers, DismissPlaces DEF FInv, RemoveIdle
<1>4. ASSUME NEW S \in SUBSET Fresh, StartContainers(S)
      PROVE  PlacesFit'
  BY <1>4, EnrollPlaces DEF FInv, StartContainers
<1> QED
  BY <1>1, <1>2, <1>3, <1>4, PlaceChanges

--------------------------------------------------------------------------------
(***************************************************************************)
(* CheckFits.                                                              *)
(***************************************************************************)
LEMMA AddedIsLast ==
  ASSUME queue \in Seq(Requests), NEW id \in Requests, AddRequestToQueue(id)
  PROVE  /\ \A i \in DOMAIN queue : i \in DOMAIN queue' /\ queue'[i] = queue[i]
         /\ \E i \in DOMAIN queue' : queue'[i] = id
<1>1. queue' = Append(queue, id) /\ Len(queue) \in Nat
  BY DEF AddRequestToQueue
<1>2. /\ DOMAIN queue = 1 .. Len(queue) /\ DOMAIN queue' = 1 .. Len(queue) + 1
      /\ queue'[Len(queue) + 1] = id
      /\ \A i \in 1 .. Len(queue) : queue'[i] = queue[i]
  BY <1>1
<1> QED
  BY <1>1, <1>2

\* A step that does not touch the check, and takes nothing off the queue while
\* it runs.
LEMMA CheckUntouched ==
  ASSUME FInv, UNCHANGED <<sick, redone, place>>,
         pc = "redispatch" =>
           /\ pc' = pc \/ sick = <<>>
           /\ \/ queue' = queue
              \/ \E id \in Requests : AddRequestToQueue(id)
  PROVE  CheckFits'
<1>1. CASE sick = <<>>
  <2>1. redone = {} /\ sick' = <<>> /\ redone' = {}
    BY <1>1 DEF FInv, CheckFits
  <2> QED
    BY <1>1, <2>1 DEF CheckFits
<1>2. CASE sick # <<>>
  <2>1. pc = "redispatch" /\ pc' = pc
    BY <1>2 DEF FInv, CheckFits
  <2>2. \A x \in redone : \E i \in DOMAIN queue' : queue'[i] = x
    <3>1. \A x \in redone : \E i \in DOMAIN queue : queue[i] = x
      BY DEF FInv, CheckFits
    <3>2. CASE queue' = queue
      BY <3>1, <3>2
    <3>3. ASSUME NEW id \in Requests, AddRequestToQueue(id)
          PROVE  \A x \in redone : \E i \in DOMAIN queue' : queue'[i] = x
      <4>1. \A i \in DOMAIN queue : i \in DOMAIN queue' /\ queue'[i] = queue[i]
        BY <3>3, AddedIsLast DEF FInv, IInv, PlanType
      <4> QED
        BY <3>1, <4>1
    <3> QED
      BY <2>1, <3>2, <3>3
  <2>3. Members' = Members
    BY DEF Members
  <2> QED
    BY <1>2, <2>1, <2>2, <2>3 DEF FInv, CheckFits
<1> QED
  BY <1>1, <1>2

LEMMA CheckEnds ==
  ASSUME sick' = <<>>, redone' = {}
  PROVE  CheckFits'
BY DEF CheckFits

LEMMA KeepsCheckFits ==
  ASSUME FInv, [Next]_vars
  PROVE  CheckFits'
<1> USE DEF handler, checking, api
<1>1. ASSUME NEW id \in Requests,
             ConvertFile(id) \/ ConvertFileFails(id) \/ GrowsOld(id) \/ FileOpens(id)
      PROVE  CheckFits'
  <2>1. UNCHANGED <<sick, redone, place, pc>> /\ (AddRequestToQueue(id) \/ queue' = queue)
    BY <1>1 DEF ConvertFile, ConvertFileFails, GrowsOld, FileOpens, control
  <2> QED
    BY <2>1, CheckUntouched
<1>2. ASSUME NEW c \in Containers,
             Boots(c) \/ Sickens(c) \/ Vanishes(c) \/ Appears(c)
               \/ \E task \in Tasks : JobEnds(c, task)
      PROVE  CheckFits'
  <2>1. UNCHANGED <<sick, redone, place, pc, queue>>
    BY <1>2 DEF Boots, Sickens, Vanishes, Appears, JobEnds, DockerChanges, internal, control
  <2> QED
    BY <2>1, CheckUntouched
<1>3. CASE Tick \/ PopRequests \/ Probe \/ StoreFinished \/ CheckFileTtl
  <2>1. UNCHANGED <<sick, redone, place>> /\ pc # "redispatch"
    BY <1>3 DEF Tick, PopRequests, Probe, StoreFinished, CheckFileTtl
  <2> QED
    BY <2>1, CheckUntouched
<1>4. CASE CheckHealth
  <2>1. pc = "health" /\ pc' = "redispatch" /\ UNCHANGED <<redone, place>>
    BY <1>4 DEF CheckHealth
  <2>2. redone' = {}
    BY <2>1 DEF FInv, CheckFits
  <2>3. /\ \A i \in DOMAIN sick' : sick'[i] \in Members'
        /\ \A i, j \in DOMAIN sick' : sick'[i] = sick'[j] => i = j
    BY <1>4, <2>1, SickAreWorkers DEF Members
  <2> QED
    BY <2>1, <2>2, <2>3 DEF CheckFits
<1>5. CASE CheckHealthFails \/ RemoveUnhealthyFails \/ UpdateStatusFails \/ PopRequestsFails
             \/ RemoveIdleFails
  <2>1. Throw
    BY <1>5 DEF CheckHealthFails, RemoveUnhealthyFails, UpdateStatusFails, PopRequestsFails,
       RemoveIdleFails
  <2> QED
    BY <2>1, ThrowTypes, CheckEnds
<1>6. ASSUME NEW task \in Tasks, Redispatch(task) \/ RedispatchFails(task)
      PROVE  CheckFits'
  <2>1. CASE Redispatch(task)
    <3>1. /\ UNCHANGED <<sick, place, pc>> /\ pc = "redispatch" /\ sick # <<>>
          /\ AddRequestToQueue(task.id) /\ redone' = redone \cup {task.id}
      BY <2>1 DEF Redispatch, control
    <3>2. task.id \in Requests /\ queue \in Seq(Requests)
      BY DEF Tasks, FInv, IInv, PlanType
    <3>3. /\ \A i \in DOMAIN queue : i \in DOMAIN queue' /\ queue'[i] = queue[i]
          /\ \E i \in DOMAIN queue' : queue'[i] = task.id
      BY <3>1, <3>2, AddedIsLast
    <3>4. \A x \in redone' : \E i \in DOMAIN queue' : queue'[i] = x
      BY <3>1, <3>3 DEF FInv, CheckFits
    <3>5. Members' = Members
      BY <3>1 DEF Members
    <3> QED
      BY <3>1, <3>4, <3>5 DEF FInv, CheckFits
  <2>2. CASE RedispatchFails(task)
    BY <2>2, ThrowTypes, CheckEnds DEF RedispatchFails
  <2> QED
    BY <1>6, <2>1, <2>2
<1>7. CASE RemoveUnhealthy
  <2>1. /\ pc = "redispatch" /\ sick # <<>> /\ Dismiss({Head(sick)})
        /\ sick' = Tail(sick) /\ redone' = {} /\ UNCHANGED <<pc, queue>>
    BY <1>7 DEF RemoveUnhealthy, control
  <2>2. Members' = Members \ {Head(sick)}
    BY <2>1, HeadIsMember, DismissPlaces DEF FInv
  <2>3. ASSUME NEW i \in DOMAIN sick'
        PROVE  sick'[i] \in Members'
    BY <2>1, <2>2, <2>3, HeadIsMember DEF FInv, CheckFits
  <2>4. ASSUME NEW i \in DOMAIN sick', NEW j \in DOMAIN sick', sick'[i] = sick'[j]
        PROVE  i = j
    <3>1. i + 1 \in DOMAIN sick /\ j + 1 \in DOMAIN sick /\ sick[i + 1] = sick[j + 1]
      BY <2>1, <2>4, HeadIsMember
    <3>2. i + 1 = j + 1
      BY <3>1 DEF FInv, CheckFits
    <3>3. i \in Nat /\ j \in Nat
      BY <2>1, HeadIsMember
    <3> QED
      BY <3>2, <3>3
  <2> QED
    BY <2>1, <2>3, <2>4 DEF CheckFits
<1>8. CASE UpdateStatus
  BY <1>8, CheckUntouched DEF UpdateStatus
<1>9. ASSUME NEW c \in Containers, NEW id \in Requests, AtWorker(c, id)
      PROVE  CheckFits'
  <2>1. UNCHANGED <<sick, redone, place, pc, queue>>
    BY <1>9 DEF AtWorker, Forward, ForwardRefused, ForwardFails, Send, FetchFile, FetchFileFails,
       CollectErroneous, control
  <2> QED
    BY <2>1, CheckUntouched
<1>10. CASE RemoveIdle
  <2>1. UNCHANGED <<sick, redone>> /\ pc # "redispatch"
    BY <1>10 DEF RemoveIdle, Applied
  <2> QED
    BY <2>1, CheckEnds DEF FInv, CheckFits
<1>11. ASSUME NEW S \in SUBSET Fresh, StartContainers(S) \/ StartContainersFails(S)
       PROVE  CheckFits'
  <2>1. CASE StartContainers(S)
    <3>1. UNCHANGED <<sick, redone>> /\ pc # "redispatch"
      BY <2>1 DEF StartContainers, Applied
    <3> QED
      BY <3>1, CheckEnds DEF FInv, CheckFits
  <2>2. CASE StartContainersFails(S)
    BY <2>2, ThrowTypes, CheckEnds DEF StartContainersFails
  <2> QED
    BY <1>11, <2>1, <2>2
<1>12. CASE UNCHANGED vars
  <2>1. UNCHANGED <<sick, redone, place, pc, queue>>
    BY <1>12 DEF vars, control
  <2> QED
    BY <2>1, CheckUntouched
<1>13. CASE ProbeStep
  BY <1>13, <1>3, <1>4, <1>5, <1>6, <1>7, <1>8, <1>9, <1>10, <1>11 DEF ProbeStep
<1>14. CASE Outside
  BY <1>14, <1>1, <1>2 DEF Outside
<1> QED
  BY <1>12, <1>13, <1>14 DEF Next

--------------------------------------------------------------------------------
(***************************************************************************)
(* ResultsFit.                                                             *)
(***************************************************************************)
LEMMA ResultsUntouched ==
  ASSUME FInv, UNCHANGED <<client, finished, input, batch>>,
         output' \cup opening' = output \cup opening,
         pc' = pc \/ pc # "fetch"
  PROVE  ResultsFit'
BY DEF FInv, ResultsFit

LEMMA FilesUntouched ==
  ASSUME FInv, UNCHANGED <<files, results, fetching, client>>, pc' = pc \/ pc # "fetch"
  PROVE  ResultsFit'
BY ResultsUntouched DEF files, results, fetching

\* What becomes of a request taken from its worker: with its input gone it is
\* collected, or else nobody holds it any more.
LEMMA CollectingFits ==
  ASSUME FInv, NEW id \in Requests, NEW outcome \in {"converted", "erroneous"},
         DeleteInput(id, outcome), pc = "fetch", UNCHANGED <<client, finished, pc>>,
         output' = output, opening \subseteq opening',
         outcome = "converted" => id \in opening'
  PROVE  ResultsFit'
<1>1. CASE UNCHANGED <<input, batch>>
  BY <1>1 DEF FInv, ResultsFit
<1>2. CASE id \in input /\ input' = input \ {id} /\ batch' = batch \cup {<<id, outcome>>}
  <2>1. finished[id] = "none" /\ client[id] # "new"
    BY <1>2 DEF FInv, ResultsFit
  <2>2. ASSUME NEW b \in batch'
        PROVE  /\ finished[b[1]] = "none" /\ b[1] \notin input' /\ client[b[1]] # "new"
               /\ b[2] = "converted" => b[1] \in output' \cup opening'
    <3>1. CASE b \in batch
      BY <3>1, <1>2 DEF FInv, ResultsFit
    <3>2. CASE b = <<id, outcome>>
      BY <3>2, <1>2, <2>1
    <3> QED
      BY <1>2, <3>1, <3>2
  <2> QED
    BY <1>2, <2>2 DEF FInv, ResultsFit
<1> QED
  BY <1>1, <1>2 DEF DeleteInput

LEMMA StoringFits ==
  ASSUME FInv, StoreFinished
  PROVE  ResultsFit'
<1>1. /\ finished' \in [Requests -> {"none", "converted", "erroneous"}]
      /\ \A id \in Requests : IF \E b \in batch : b[1] = id
                                THEN <<id, finished'[id]>> \in batch
                                ELSE finished'[id] = finished[id]
      /\ batch' = {} /\ UNCHANGED <<client, input, output, opening>>
  BY DEF StoreFinished, files, api
<1>2. ASSUME NEW id \in Requests
      PROVE  /\ finished'[id] = "converted" => id \in output \cup opening
             /\ finished'[id] # "none" => id \notin input /\ client[id] # "new"
  <2>1. CASE <<id, finished'[id]>> \in batch
    BY <2>1 DEF FInv, ResultsFit
  <2>2. CASE finished'[id] = finished[id]
    BY <2>2 DEF FInv, ResultsFit
  <2> QED
    BY <1>1, <2>1, <2>2
<1> QED
  BY <1>1, <1>2 DEF FInv, ResultsFit

\* checkFileTtl takes the output of a result only with the result.
LEMMA ExpiringFits ==
  ASSUME FInv, CheckFileTtl
  PROVE  ResultsFit'
<1>1. /\ finished' = [id \in Requests |-> IF id \in Outdated THEN "none" ELSE finished[id]]
      /\ output' = output \ (Outdated \cup Orphans)
      /\ batch' = {} /\ UNCHANGED <<client, input, opening>>
  BY DEF CheckFileTtl, api, fetching, FInv, ResultsFit
<1>2. ASSUME NEW id \in Requests
      PROVE  /\ finished'[id] = "converted" => id \in output' \cup opening'
             /\ finished'[id] # "none" => id \notin input /\ client[id] # "new"
  <2>1. finished'[id] # "none" => id \notin Outdated /\ finished'[id] = finished[id]
    BY <1>1
  <2>2. finished[id] # "none" => id \notin Orphans
    BY DEF Orphans
  <2> QED
    BY <1>1, <2>1, <2>2 DEF FInv, ResultsFit
<1> QED
  BY <1>1, <1>2 DEF FInv, ResultsFit

LEMMA KeepsResultsFit ==
  ASSUME FInv, [Next]_vars
  PROVE  ResultsFit'
<1>1. ASSUME NEW id \in Requests, ConvertFile(id) \/ ConvertFileFails(id)
      PROVE  ResultsFit'
  <2>1. /\ client[id] = "new" /\ input' = input \cup {id}
        /\ UNCHANGED <<finished, output, opening, batch, pc>>
        /\ \/ client' = [client EXCEPT ![id] = "accepted"]
           \/ client' = [client EXCEPT ![id] = "failed"]
    BY <1>1 DEF ConvertFile, ConvertFileFails, results, fetching, control
  <2>2. client \in [Requests -> {"new", "accepted", "failed"}]
    BY DEF FInv, RequestTypes
  <2>3. client'[id] # "new" /\ \A x \in Requests : client[x] # "new" => client'[x] # "new"
    BY <2>1, <2>2
  <2>4. finished[id] = "none" /\ \A b \in batch : b[1] # id
    BY <2>1 DEF FInv, ResultsFit
  <2>5. \A b \in batch : b[1] \in Requests
    BY DEF FInv, RequestTypes
  <2>6. input \subseteq Requests
    BY DEF FInv, RequestTypes
  <2> QED
    BY <2>1, <2>3, <2>4, <2>5, <2>6 DEF FInv, ResultsFit
<1>2. ASSUME NEW id \in Requests, GrowsOld(id) \/ FileOpens(id)
      PROVE  ResultsFit'
  BY <1>2, ResultsUntouched DEF GrowsOld, FileOpens, files, api, results, fetching, control
<1>3. ASSUME NEW c \in Containers,
             Boots(c) \/ Sickens(c) \/ Vanishes(c) \/ Appears(c)
               \/ \E task \in Tasks : JobEnds(c, task)
      PROVE  ResultsFit'
  <2>1. UNCHANGED <<files, results, fetching, client, pc>>
    BY <1>3 DEF Boots, Sickens, Vanishes, Appears, JobEnds, DockerChanges, internal, control, api
  <2> QED
    BY <2>1, FilesUntouched
<1>4. CASE Tick \/ CheckHealth \/ UpdateStatus \/ PopRequests \/ Probe
  BY <1>4, FilesUntouched, ResultsUntouched DEF Tick, CheckHealth, UpdateStatus, PopRequests,
     Probe, api, files, results, fetching, FInv, ResultsFit
<1>5. CASE CheckHealthFails \/ RemoveUnhealthyFails \/ UpdateStatusFails \/ PopRequestsFails
             \/ RemoveIdleFails
  BY <1>5, FilesUntouched DEF CheckHealthFails, RemoveUnhealthyFails, UpdateStatusFails,
     PopRequestsFails, RemoveIdleFails, api
<1>6. ASSUME NEW task \in Tasks, Redispatch(task) \/ RedispatchFails(task)
      PROVE  ResultsFit'
  BY <1>6, FilesUntouched DEF Redispatch, RedispatchFails, control
<1>7. CASE RemoveUnhealthy
  BY <1>7, FilesUntouched DEF RemoveUnhealthy, control, api
<1>8. ASSUME NEW c \in Containers, NEW id \in Requests, AtWorker(c, id)
      PROVE  ResultsFit'
  <2>1. CASE Forward(c, id) \/ ForwardRefused(c, id) \/ ForwardFails(c, id)
    BY <2>1, FilesUntouched DEF Forward, ForwardRefused, ForwardFails, Send, control, api
  <2>2. CASE FetchFile(c, id)
    BY <2>2, CollectingFits DEF FetchFile, api, results, control
  <2>3. CASE FetchFileFails(c, id)
    BY <2>3, ResultsUntouched DEF FetchFileFails, files, api, results, control
  <2>4. CASE CollectErroneous(c, id)
    BY <2>4, CollectingFits DEF CollectErroneous, api, results, control
  <2> QED
    BY <1>8, <2>1, <2>2, <2>3, <2>4 DEF AtWorker
<1>9. CASE StoreFinished
  BY <1>9, StoringFits
<1>10. CASE RemoveIdle
  BY <1>10, FilesUntouched DEF RemoveIdle, Applied, api
<1>11. ASSUME NEW S \in SUBSET Fresh, StartContainers(S) \/ StartContainersFails(S)
       PROVE  ResultsFit'
  BY <1>11, FilesUntouched DEF StartContainers, StartContainersFails, Applied, api
<1>12. CASE CheckFileTtl
  BY <1>12, ExpiringFits
<1>13. CASE UNCHANGED vars
  BY <1>13, FilesUntouched DEF vars, api, control
<1>14. CASE ProbeStep
  BY <1>14, <1>4, <1>5, <1>6, <1>7, <1>8, <1>9, <1>10, <1>11, <1>12 DEF ProbeStep
<1>15. CASE Outside
  BY <1>15, <1>1, <1>2, <1>3 DEF Outside
<1> QED
  BY <1>13, <1>14, <1>15 DEF Next

--------------------------------------------------------------------------------
\* Two actions write `finished`.
LEMMA FinishedChanges ==
  ASSUME [Next]_vars
  PROVE  finished' = finished \/ StoreFinished \/ CheckFileTtl
<1> USE DEF results
<1>1. ASSUME NEW id \in Requests,
             ConvertFile(id) \/ ConvertFileFails(id) \/ GrowsOld(id) \/ FileOpens(id)
      PROVE  finished' = finished
  BY <1>1 DEF ConvertFile, ConvertFileFails, GrowsOld, FileOpens
<1>2. ASSUME NEW c \in Containers,
             Boots(c) \/ Sickens(c) \/ Vanishes(c) \/ Appears(c)
               \/ \E task \in Tasks : JobEnds(c, task)
      PROVE  finished' = finished
  BY <1>2 DEF Boots, Sickens, Vanishes, Appears, JobEnds, DockerChanges, internal
<1>3. CASE \/ Tick \/ CheckHealth \/ UpdateStatus \/ PopRequests \/ Probe \/ RemoveUnhealthy
           \/ RemoveIdle
  BY <1>3 DEF Tick, CheckHealth, UpdateStatus, PopRequests, Probe, RemoveUnhealthy, RemoveIdle,
     Applied
<1>4. CASE CheckHealthFails \/ RemoveUnhealthyFails \/ UpdateStatusFails \/ PopRequestsFails
             \/ RemoveIdleFails
  BY <1>4 DEF CheckHealthFails, RemoveUnhealthyFails, UpdateStatusFails, PopRequestsFails,
     RemoveIdleFails
<1>5. ASSUME NEW task \in Tasks, Redispatch(task) \/ RedispatchFails(task)
      PROVE  finished' = finished
  BY <1>5 DEF Redispatch, RedispatchFails
<1>6. ASSUME NEW c \in Containers, NEW id \in Requests, AtWorker(c, id)
      PROVE  finished' = finished
  BY <1>6 DEF AtWorker, Forward, ForwardRefused, ForwardFails, Send, FetchFile, FetchFileFails,
     CollectErroneous
<1>7. ASSUME NEW S \in SUBSET Fresh, StartContainers(S) \/ StartContainersFails(S)
      PROVE  finished' = finished
  BY <1>7 DEF StartContainers, StartContainersFails, Applied
<1>8. CASE UNCHANGED vars
  BY <1>8 DEF vars
<1>9. CASE ProbeStep
  BY <1>9, <1>3, <1>4, <1>5, <1>6, <1>7 DEF ProbeStep
<1>10. CASE Outside
  BY <1>10, <1>1, <1>2 DEF Outside
<1> QED
  BY <1>8, <1>9, <1>10 DEF Next

LEMMA InitFInv == Init => FInv
<1> SUFFICES ASSUME Init
             PROVE  FInv
  OBVIOUS
<1>1. IInv
  BY InitIInv
<1>2. RequestTypes
  BY DEF Init, RequestTypes
<1>3. EngineTypes
  BY DEF Init, EngineTypes
<1>4. ControlTypes
  BY ProbesAssumption DEF Init, ControlTypes
<1>5. PlacesFit
  <2>1. place = [c \in Containers |-> 0]
    BY DEF Init
  <2> QED
    BY <2>1, FreeIsFinite DEF PlacesFit, Members
<1>6. CheckFits
  BY DEF Init, CheckFits
<1>7. ResultsFit
  BY DEF Init, ResultsFit
<1> QED
  BY <1>1, <1>2, <1>3, <1>4, <1>5, <1>6, <1>7 DEF FInv

LEMMA NextKeepsFInv == FInv /\ [Next]_vars => FInv'
<1> SUFFICES ASSUME FInv, [Next]_vars
             PROVE  FInv'
  OBVIOUS
<1>1. IInv'
  BY NextKeepsIInv DEF FInv
<1> QED
  BY <1>1, KeepsRequestTypes, KeepsEngineTypes, KeepsControlTypes, KeepsPlacesFit, KeepsCheckFits,
     KeepsResultsFit DEF FInv

LEMMA FInvariance == Spec => []FInv
BY InitFInv, NextKeepsFInv, PTL DEF Spec

--------------------------------------------------------------------------------
(***************************************************************************)
(* The theorems.                                                           *)
(***************************************************************************)
\* Type correctness of the redis-service.  Two types say something of the code:
\* `probe` never leaves 0 .. ProbesPerApply - 1, as every way a probe can end
\* resets probeCount, and `place` stays in Nat, as removeWorker is called for
\* workers only.
THEOREM TypeCorrect == Spec => []TypeOK
BY FInvTypeOK, FInvariance, PTL

\* A request reported as converted has its file or a stream that is about to open
\* it, whatever fails: checkFileTtl deletes an output with its entry or when there
\* is no entry, and a request is published after its stream was created.
THEOREM ResultsHaveFile == Spec => []ResultHasFile
<1>1. FInv => ResultHasFile
  BY DEF FInv, ResultsFit, ResultHasFile
<1> QED
  BY <1>1, FInvariance, PTL

\* A published result does not change until the TTL takes it: what fetchFiles
\* collects had an input file until then, and a finished request has none.
THEOREM ResultsAreFinal == Spec => ResultIsFinal
<1> DEFINE Final == \A id \in Requests : finished[id] # "none" =>
                      finished'[id] = finished[id] \/ Expired(id)'
<1>1. ASSUME FInv, [Next]_vars
      PROVE  [Final]_vars
  <2>1. CASE StoreFinished
    <3>1. \A id \in Requests : IF \E b \in batch : b[1] = id
                                 THEN <<id, finished'[id]>> \in batch
                                 ELSE finished'[id] = finished[id]
      BY <2>1 DEF StoreFinished
    <3>2. \A b \in batch : finished[b[1]] = "none"
      BY <1>1 DEF FInv, ResultsFit
    <3> QED
      BY <3>1, <3>2
  <2>2. CASE CheckFileTtl
    <3>1. /\ finished' = [id \in Requests |-> IF id \in Outdated THEN "none" ELSE finished[id]]
          /\ old' = old
      BY <2>2 DEF CheckFileTtl
    <3> QED
      BY <3>1 DEF Expired, Outdated
  <2>3. CASE finished' = finished
    BY <2>3
  <2> QED
    BY <1>1, <2>1, <2>2, <2>3, FinishedChanges
<1>2. Spec => [][Final]_vars
  BY <1>1, FInvariance, PTL DEF Spec
<1> QED
  BY <1>2 DEF ResultIsFinal

\* No worker goes down with a request nobody else holds: scaling removes idle
\* workers only, and an unhealthy one is removed when each of its requests is in
\* the queue, whatever failed on the way.
THEOREM NoRequestsGoDown == Spec => NoRequestGoesDown
<1> DEFINE Kept == \A c \in Members : c \in Members' \/ \A task \in workers[c] :
                                             \E i \in DOMAIN queue : queue[i] = task.id
<1>1. ASSUME FInv, [Next]_vars
      PROVE  [Kept]_vars
  <2>1. CASE place' = place
    BY <2>1 DEF Members
  <2>2. CASE RemoveUnhealthy
    <3>1. /\ sick # <<>> /\ Dismiss({Head(sick)})
          /\ \A task \in workers[Head(sick)] : task.id \in redone
      BY <2>2 DEF RemoveUnhealthy
    <3>2. Members' = Members \ {Head(sick)}
      BY <1>1, <3>1, HeadIsMember, DismissPlaces DEF FInv
    <3>3. \A task \in workers[Head(sick)] : \E i \in DOMAIN queue : queue[i] = task.id
      BY <1>1, <3>1 DEF FInv, CheckFits
    <3> QED
      BY <3>2, <3>3
  <2>3. CASE RemoveIdle
    <3>1. Members' = Members \ FirstIdle(toRemove)
      BY <1>1, <2>3, FirstIdleAreMembers, DismissPlaces DEF FInv, RemoveIdle
    <3> QED
      BY <3>1, FirstIdleAreMembers
  <2>4. ASSUME NEW S \in SUBSET Fresh, StartContainers(S)
        PROVE  Kept
    BY <1>1, <2>4, EnrollPlaces DEF FInv, StartContainers
  <2> QED
    BY <1>1, <2>1, <2>2, <2>3, <2>4, PlaceChanges
<1>2. Spec => [][Kept]_vars
  BY <1>1, FInvariance, PTL DEF Spec
<1> QED
  BY <1>2 DEF NoRequestGoesDown
--------------------------------------------------------------------------------
(***************************************************************************)
(* The docker engine and the workers.                                      *)
(***************************************************************************)
\* Nobody else removes containers, and docker does what it is told.
EngineObeys == "vanish" \notin Faults /\ "docker" \notin Faults

\* The workers are the containers docker lists, but for a probe that has not yet
\* removed those of an earlier run, and for a process that has ended.
EngineFits ==
  /\ \A c \in Containers : docker[c] # "creating"
  /\ \/ Members = Listed
     \/ /\ Members = {}
        /\ (mode = "boot" /\ pc = "health") \/ (mode = "exited" /\ pc = "idle")

EInv == FInv /\ EngineFits

LEMMA EngineUntouched ==
  ASSUME EInv, UNCHANGED <<place, docker>>,
         \/ UNCHANGED <<mode, pc>>
         \/ pc = "idle" /\ mode = "probe"
         \/ pc \notin {"idle", "health"}
  PROVE  EngineFits'
<1>1. Members' = Members /\ Listed' = Listed
  BY DEF Members, Listed
<1> QED
  BY <1>1 DEF EInv, EngineFits

\* A probe that is past the listing of the containers knows them all.
LEMMA ProbeKnowsEngine ==
  ASSUME EInv, pc \notin {"idle", "health"}
  PROVE  Members = Listed
BY DEF EInv, EngineFits

\* What is removed from the engine is removed from the workers.
LEMMA BothRemoved ==
  ASSUME EInv, pc \notin {"idle", "health"}, NEW S \in SUBSET Members,
         docker' = Deleted(S), Members' = Members \ S
  PROVE  EngineFits'
<1>1. \A c \in Containers : docker'[c] = IF c \in S THEN "none" ELSE docker[c]
  BY DEF Deleted
<1>2. Listed' = Listed \ S
  BY <1>1 DEF Listed
<1> QED
  BY <1>1, <1>2, ProbeKnowsEngine DEF EInv, EngineFits

LEMMA KeepsEngineFits ==
  ASSUME EngineObeys, EInv, [Next]_vars
  PROVE  EngineFits'
<1> USE DEF handler
<1>1. ASSUME NEW id \in Requests,
             ConvertFile(id) \/ ConvertFileFails(id) \/ GrowsOld(id) \/ FileOpens(id)
      PROVE  EngineFits'
  BY <1>1, EngineUntouched DEF ConvertFile, ConvertFileFails, GrowsOld, FileOpens, control
<1>2. ASSUME NEW c \in Containers, Boots(c) \/ Sickens(c)
      PROVE  EngineFits'
  <2>1. PICK to \in {"healthy", "unhealthy"} :
          docker[c] \in {"starting", "healthy"} /\ docker' = [docker EXCEPT ![c] = to]
    BY <1>2 DEF Boots, Sickens, DockerChanges
  <2>2. UNCHANGED <<place, mode, pc>>
    BY <1>2 DEF Boots, Sickens, DockerChanges, internal, control
  <2>3. \A d \in Containers : docker'[d] = IF d = c THEN to ELSE docker[d]
    BY <2>1 DEF EInv, FInv, EngineTypes
  <2>4. Members' = Members /\ Listed' = Listed
    BY <2>1, <2>2, <2>3 DEF Members, Listed
  <2> QED
    BY <2>2, <2>3, <2>4 DEF EInv, EngineFits
<1>3. ASSUME NEW c \in Containers, Vanishes(c) \/ Appears(c)
      PROVE  FALSE
  BY <1>3 DEF Vanishes, Appears, DockerChanges, EngineObeys, EInv, EngineFits
<1>4. ASSUME NEW c \in Containers, NEW task \in Tasks, JobEnds(c, task)
      PROVE  EngineFits'
  BY <1>4, EngineUntouched DEF JobEnds, internal, control
<1>5. CASE Tick \/ UpdateStatus \/ PopRequests \/ Probe \/ StoreFinished \/ CheckFileTtl
  BY <1>5, EngineUntouched DEF Tick, UpdateStatus, PopRequests, Probe, StoreFinished, CheckFileTtl
<1>6. CASE CheckHealth
  <2>1. /\ docker' = Deleted(Listed \ Members) /\ UNCHANGED <<place, mode>>
        /\ pc = "health"
    BY <1>6 DEF CheckHealth
  <2>2. \A c \in Containers :
          docker'[c] = IF c \in Listed \ Members THEN "none" ELSE docker[c]
    BY <2>1 DEF Deleted
  <2>3. Members' = Members
    BY <2>1 DEF Members
  <2>4. Listed' = Listed \cap Members
    BY <2>2 DEF Listed
  <2>5. Members = Listed \/ Members = {}
    BY DEF EInv, EngineFits
  <2> QED
    BY <2>2, <2>3, <2>4, <2>5 DEF EInv, EngineFits
<1>7. CASE CheckHealthFails
  <2>1. UNCHANGED <<place, docker>> /\ Throw /\ pc = "health"
    BY <1>7 DEF CheckHealthFails, EngineObeys
  <2>2. Members' = Members /\ Listed' = Listed
    BY <2>1 DEF Members, Listed
  <2>3. pc' = "idle" /\ (mode = "boot" => mode' = "exited")
    BY <2>1 DEF Throw
  <2> QED
    BY <2>1, <2>2, <2>3 DEF EInv, EngineFits
<1>8. ASSUME NEW task \in Tasks, Redispatch(task) \/ RedispatchFails(task)
      PROVE  EngineFits'
  BY <1>8, EngineUntouched DEF Redispatch, RedispatchFails
<1>9. CASE RemoveUnhealthy
  <2>1. /\ pc = "redispatch" /\ sick # <<>>
        /\ docker' = Deleted({Head(sick)}) /\ Dismiss({Head(sick)})
    BY <1>9 DEF RemoveUnhealthy
  <2>2. {Head(sick)} \in SUBSET Members
    BY <2>1, HeadIsMember DEF EInv
  <2>3. Members' = Members \ {Head(sick)}
    BY <2>1, <2>2, DismissPlaces DEF EInv, FInv
  <2> QED
    BY <2>1, <2>2, <2>3, BothRemoved
<1>10. CASE RemoveUnhealthyFails
  <2>1. pc = "redispatch" /\ sick # <<>> /\ docker[Head(sick)] = "none"
    BY <1>10 DEF RemoveUnhealthyFails, EngineObeys
  <2>2. Head(sick) \in Listed
    BY <2>1, HeadIsMember, ProbeKnowsEngine DEF EInv
  <2> QED
    BY <2>1, <2>2 DEF Listed
<1>11. CASE UpdateStatusFails \/ PopRequestsFails
  BY <1>11, EngineUntouched DEF UpdateStatusFails, PopRequestsFails
<1>12. ASSUME NEW c \in Containers, NEW id \in Requests, AtWorker(c, id)
       PROVE  EngineFits'
  BY <1>12, EngineUntouched DEF AtWorker, Forward, ForwardRefused, ForwardFails, Send, FetchFile,
     FetchFileFails, CollectErroneous, control
<1>13. ASSUME NEW S \in SUBSET Fresh, StartContainers(S) \/ StartContainersFails(S)
       PROVE  EngineFits'
  <2>1. /\ StartContainers(S) /\ pc = "apply" /\ Enroll(S)
        /\ docker' = [c \in Containers |-> IF c \in S THEN "starting" ELSE docker[c]]
    BY <1>13 DEF StartContainers, StartContainersFails, EngineObeys
  <2>2. Members' = Members \cup S
    BY <2>1, EnrollPlaces DEF EInv, FInv
  <2>3. Listed' = Listed \cup S
    BY <2>1 DEF Listed, Fresh
  <2> QED
    BY <2>1, <2>2, <2>3, ProbeKnowsEngine DEF EInv, EngineFits
<1>14. CASE RemoveIdle
  <2>1. /\ pc = "apply" /\ docker' = Deleted(FirstIdle(toRemove))
        /\ Dismiss(FirstIdle(toRemove))
    BY <1>14 DEF RemoveIdle
  <2>2. Members' = Members \ FirstIdle(toRemove)
    BY <2>1, FirstIdleAreMembers, DismissPlaces DEF EInv, FInv
  <2> QED
    BY <2>1, <2>2, FirstIdleAreMembers, BothRemoved
<1>15. CASE RemoveIdleFails
  <2>1. pc = "apply"
    BY <1>15 DEF RemoveIdleFails
  <2>2. \A c \in FirstIdle(toRemove) : docker[c] # "none"
    BY <2>1, FirstIdleAreMembers, ProbeKnowsEngine DEF Listed
  <2> QED
    BY <1>15, <2>2 DEF RemoveIdleFails, EngineObeys
<1>16. CASE UNCHANGED vars
  BY <1>16, EngineUntouched DEF vars, control
<1>17. CASE ProbeStep
  BY <1>17, <1>5, <1>6, <1>7, <1>8, <1>9, <1>10, <1>11, <1>12, <1>13, <1>14, <1>15
  DEF ProbeStep
<1>18. CASE Outside
  BY <1>18, <1>1, <1>2, <1>3, <1>4 DEF Outside
<1> QED
  BY <1>16, <1>17, <1>18 DEF Next

LEMMA EInvariance == EngineObeys => (Spec => []EInv)
<1> SUFFICES ASSUME EngineObeys
             PROVE  Spec => []EInv
  OBVIOUS
<1>1. Init => EInv
  <2>1. Init => EngineFits
    BY DEF Init, EngineFits, Members
  <2> QED
    BY <2>1, InitFInv DEF EInv
<1>2. EInv /\ [Next]_vars => EInv'
  BY NextKeepsFInv, KeepsEngineFits DEF EInv
<1> QED
  BY <1>1, <1>2, PTL DEF Spec

--------------------------------------------------------------------------------
(***************************************************************************)
(* The number of workers.                                                  *)
(***************************************************************************)
\* What lastStatus still wants to start fits, too.
RoomToStart == Cardinality(Members) + Larger(toStart, 0) <= MaxContainers

RInv == EInv /\ RoomToStart

\* lastStatus is written in four actions.
LEMMA StatusChanges ==
  ASSUME [Next]_vars
  PROVE  \/ UNCHANGED toStart
         \/ UpdateStatus \/ UpdateStatusFails
         \/ RemoveIdle
         \/ \E S \in SUBSET Fresh : StartContainers(S)
<1> USE DEF status
<1>1. ASSUME NEW id \in Requests,
             ConvertFile(id) \/ ConvertFileFails(id) \/ GrowsOld(id) \/ FileOpens(id)
      PROVE  UNCHANGED toStart
  BY <1>1 DEF ConvertFile, ConvertFileFails, GrowsOld, FileOpens
<1>2. ASSUME NEW c \in Containers,
             Boots(c) \/ Sickens(c) \/ Vanishes(c) \/ Appears(c)
               \/ \E task \in Tasks : JobEnds(c, task)
      PROVE  UNCHANGED toStart
  BY <1>2 DEF Boots, Sickens, Vanishes, Appears, JobEnds, DockerChanges, internal
<1>3. CASE \/ Tick \/ CheckHealth \/ PopRequests \/ Probe \/ StoreFinished \/ CheckFileTtl
           \/ RemoveUnhealthy
  BY <1>3 DEF Tick, CheckHealth, PopRequests, Probe, StoreFinished, CheckFileTtl, RemoveUnhealthy
<1>4. CASE CheckHealthFails \/ RemoveUnhealthyFails \/ PopRequestsFails \/ RemoveIdleFails
  BY <1>4 DEF CheckHealthFails, RemoveUnhealthyFails, PopRequestsFails, RemoveIdleFails
<1>5. ASSUME NEW task \in Tasks, Redispatch(task) \/ RedispatchFails(task)
      PROVE  UNCHANGED toStart
  BY <1>5 DEF Redispatch, RedispatchFails
<1>6. ASSUME NEW c \in Containers, NEW id \in Requests, AtWorker(c, id)
      PROVE  UNCHANGED toStart
  BY <1>6 DEF AtWorker, Forward, ForwardRefused, ForwardFails, Send, FetchFile, FetchFileFails,
     CollectErroneous
<1>7. ASSUME NEW S \in SUBSET Fresh, StartContainersFails(S)
      PROVE  UNCHANGED toStart
  BY <1>7 DEF StartContainersFails
<1>8. CASE UNCHANGED vars
  BY <1>8 DEF vars
<1>9. CASE ProbeStep
  BY <1>9, <1>3, <1>4, <1>5, <1>6, <1>7 DEF ProbeStep
<1>10. CASE Outside
  BY <1>10, <1>1, <1>2 DEF Outside
<1> QED
  BY <1>8, <1>9, <1>10 DEF Next

LEMMA KeepsRoomToStart ==
  ASSUME EngineObeys, LimitsOrdered, RInv, [Next]_vars
  PROVE  RoomToStart'
<1>1. /\ Cardinality(Members) \in Nat /\ toStart \in Int /\ MaxContainers \in Nat
      /\ Larger(toStart, 0) \in Nat
      /\ Cardinality(Members) + Larger(toStart, 0) <= MaxContainers
  <2>1. Cardinality(Members) \in Nat /\ toStart \in Int /\ MaxContainers \in Nat
    BY FreeIsFinite, LimitsAssumption DEF RInv, EInv, FInv, ControlTypes
  <2> QED
    BY <2>1 DEF RInv, RoomToStart, Larger
<1>2. ASSUME NEW S \in SUBSET Members, Members' = Members \ S
      PROVE  Cardinality(Members') \in Nat /\ Cardinality(Members') <= Cardinality(Members)
  BY <1>2, FreeIsFinite, FS_Subset, FS_CardinalityType
<1>3. CASE place' = place /\ UNCHANGED toStart
  BY <1>1, <1>3 DEF RoomToStart, Members
<1>4. CASE UpdateStatus \/ UpdateStatusFails
  <2>1. Members' = Members /\ pc = "redispatch"
    BY <1>4 DEF UpdateStatus, UpdateStatusFails, Members
  <2>2. CASE UNCHANGED toStart
    BY <1>1, <2>1, <2>2 DEF RoomToStart
  <2>3. CASE ComputeStatus
    <3>1. PICK p \in Nat : toStart' = StartAmount(Cardinality(Members), p)
      <4>1. pending + Cardinality(Assigned) \in Nat
        BY AssignedIsFinite DEF RInv, EInv, FInv, IInv, ControlTypes
      <4>2. Members = Listed
        BY <2>1, ProbeKnowsEngine DEF RInv
      <4> QED
        BY <2>3, <4>1, <4>2 DEF ComputeStatus
    <3>2. toStart' \in Nat /\ Cardinality(Members) + toStart' <= MaxContainers
      <4>1. Cardinality(Members) <= MaxContainers
        BY <1>1
      <4> QED
        BY <1>1, <3>1, <4>1, StartFits
    <3>3. Larger(toStart', 0) = toStart'
      BY <3>2 DEF Larger
    <3> QED
      BY <2>1, <3>2, <3>3 DEF RoomToStart
  <2> QED
    BY <1>4, <2>2, <2>3 DEF UpdateStatus, UpdateStatusFails, status
<1>5. CASE RemoveUnhealthy
  <2>1. sick # <<>> /\ Dismiss({Head(sick)}) /\ UNCHANGED toStart
    BY <1>5 DEF RemoveUnhealthy, status
  <2>2. {Head(sick)} \in SUBSET Members
    BY <2>1, HeadIsMember DEF RInv, EInv
  <2>3. Members' = Members \ {Head(sick)}
    BY <2>1, <2>2, DismissPlaces DEF RInv, EInv, FInv
  <2>4. Cardinality(Members') \in Nat /\ Cardinality(Members') <= Cardinality(Members)
    BY <1>2, <2>2, <2>3
  <2> QED
    BY <1>1, <2>1, <2>4 DEF RoomToStart
<1>6. CASE RemoveIdle
  <2>1. Dismiss(FirstIdle(toRemove)) /\ toStart' = 0
    BY <1>6 DEF RemoveIdle, Applied
  <2>2. Members' = Members \ FirstIdle(toRemove)
    BY <2>1, FirstIdleAreMembers, DismissPlaces DEF RInv, EInv, FInv
  <2>3. Cardinality(Members') \in Nat /\ Cardinality(Members') <= Cardinality(Members)
    BY <1>2, <2>2, FirstIdleAreMembers
  <2>4. Larger(toStart', 0) = 0
    BY <2>1 DEF Larger
  <2> QED
    BY <1>1, <2>3, <2>4 DEF RoomToStart
<1>7. ASSUME NEW S \in SUBSET Fresh, StartContainers(S)
      PROVE  RoomToStart'
  <2>1. Enroll(S) /\ toStart' = 0 /\ Cardinality(S) = Larger(toStart, 0)
    BY <1>7 DEF StartContainers, Applied
  <2>2. Cardinality(Members') = Cardinality(Members) + Cardinality(S)
    BY <2>1, EnrollPlaces DEF RInv, EInv, FInv
  <2>3. Larger(toStart', 0) = 0
    BY <2>1 DEF Larger
  <2> QED
    BY <1>1, <2>1, <2>2, <2>3 DEF RoomToStart
<1> QED
  BY <1>3, <1>4, <1>5, <1>6, <1>7, PlaceChanges, StatusChanges

\* "The scaling will not exceed this number" (MAX_WORKER_CONTAINERS), as long as
\* it is at least the minimum and containers vanish only by the service's hand:
\* the containers counted by the probe that computes lastStatus are the workers
\* of the probe that applies it, less those removed in between.
THEOREM ScalingIsBounded == EngineObeys /\ LimitsOrdered => (Spec => []AtMostMax)
<1> SUFFICES ASSUME EngineObeys, LimitsOrdered
             PROVE  Spec => []AtMostMax
  OBVIOUS
<1>1. Init => RoomToStart
  <2>1. ASSUME Init
        PROVE  Members = {} /\ toStart = 0
    BY <2>1 DEF Init, Members
  <2> QED
    BY <2>1, FS_EmptySet, LimitsAssumption DEF RoomToStart, Larger
<1>2. EInv /\ EInv' /\ RoomToStart /\ [Next]_vars => RoomToStart'
  BY KeepsRoomToStart DEF RInv
<1>3. Spec => []EInv
  BY EInvariance
<1>4. EInv /\ RoomToStart => AtMostMax
  <2>1. EInv => Cardinality(Members) \in Nat /\ toStart \in Int /\ MaxContainers \in Nat
    BY FreeIsFinite, LimitsAssumption DEF EInv, FInv, ControlTypes
  <2> QED
    BY <2>1 DEF RoomToStart, AtMostMax, Larger
<1> QED
  BY <1>1, <1>2, <1>3, <1>4, PTL DEF Spec

--------------------------------------------------------------------------------
(***************************************************************************)
(* No probe throws when redis obeys, too.                                  *)
(***************************************************************************)
ProbesEnd == EngineObeys /\ "redis" \notin Faults

\* The steps that remain.
ProbeGoesOn ==
  \/ Tick
  \/ CheckHealth
  \/ \E task \in Tasks : Redispatch(task)
  \/ RemoveUnhealthy
  \/ UpdateStatus
  \/ PopRequests
  \/ \E c \in Containers, id \in Requests : AtWorker(c, id)
  \/ Probe
  \/ StoreFinished
  \/ \E S \in SUBSET Fresh : StartContainers(S)
  \/ RemoveIdle
  \/ CheckFileTtl

WorldGoesOn ==
  \/ \E id \in Requests : ConvertFile(id) \/ GrowsOld(id) \/ FileOpens(id)
  \/ \E c \in Containers : Boots(c) \/ Sickens(c) \/ \E task \in Tasks : JobEnds(c, task)

LEMMA NothingThrows ==
  ASSUME ProbesEnd, EInv, [Next]_vars
  PROVE  ProbeGoesOn \/ WorldGoesOn \/ UNCHANGED vars
<1> USE DEF ProbesEnd, EngineObeys
<1>1. ~CheckHealthFails /\ ~PopRequestsFails
  BY DEF CheckHealthFails, PopRequestsFails
<1>2. ASSUME NEW task
      PROVE  ~RedispatchFails(task)
  BY DEF RedispatchFails
<1>3. ~RemoveUnhealthyFails
  <2>1. ASSUME pc = "redispatch", sick # <<>>
        PROVE  docker[Head(sick)] # "none"
    BY <2>1, HeadIsMember, ProbeKnowsEngine DEF EInv, Listed
  <2> QED
    BY <2>1 DEF RemoveUnhealthyFails
<1>4. ~UpdateStatusFails
  BY ProbeKnowsEngine DEF UpdateStatusFails
<1>5. ASSUME NEW S
      PROVE  ~StartContainersFails(S)
  BY DEF StartContainersFails
<1>6. ~RemoveIdleFails
  <2>1. ASSUME pc = "apply"
        PROVE  \A c \in FirstIdle(toRemove) : docker[c] # "none"
    BY <2>1, FirstIdleAreMembers, ProbeKnowsEngine DEF Listed
  <2> QED
    BY <2>1 DEF RemoveIdleFails
<1>7. ASSUME NEW id \in Requests
      PROVE  ~ConvertFileFails(id)
  BY DEF ConvertFileFails
<1>8. ASSUME NEW c \in Containers
      PROVE  ~Vanishes(c) /\ ~Appears(c)
  BY DEF Vanishes, Appears, DockerChanges, EInv, EngineFits
<1>9. CASE ProbeStep
  BY <1>9, <1>1, <1>2, <1>3, <1>4, <1>5, <1>6 DEF ProbeStep, ProbeGoesOn
<1>10. CASE Outside
  BY <1>10, <1>7, <1>8 DEF Outside, WorldGoesOn
<1> QED
  BY <1>9, <1>10 DEF Next

LEMMA ModeStays ==
  ASSUME ProbesEnd, EInv, [Next]_vars, mode # "exited"
  PROVE  mode' # "exited"
<1> USE DEF control
<1>1. CASE WorldGoesOn
  BY <1>1 DEF WorldGoesOn, ConvertFile, GrowsOld, FileOpens, Boots, Sickens, JobEnds,
     DockerChanges, internal
<1>2. CASE \/ Tick \/ CheckHealth \/ PopRequests \/ Probe \/ StoreFinished \/ CheckFileTtl
           \/ RemoveUnhealthy \/ RemoveIdle \/ UpdateStatus
  BY <1>2 DEF Tick, CheckHealth, PopRequests, Probe, StoreFinished, CheckFileTtl, RemoveUnhealthy,
     RemoveIdle, Applied, UpdateStatus
<1>3. ASSUME NEW task \in Tasks, Redispatch(task)
      PROVE  mode' # "exited"
  BY <1>3 DEF Redispatch
<1>4. ASSUME NEW c \in Containers, NEW id \in Requests, AtWorker(c, id)
      PROVE  mode' # "exited"
  BY <1>4 DEF AtWorker, Forward, ForwardRefused, ForwardFails, Send, FetchFile, FetchFileFails,
     CollectErroneous
<1>5. ASSUME NEW S \in SUBSET Fresh, StartContainers(S)
      PROVE  mode' # "exited"
  BY <1>5 DEF StartContainers, Applied
<1>6. CASE UNCHANGED vars
  BY <1>6 DEF vars
<1> QED
  BY <1>1, <1>2, <1>3, <1>4, <1>5, <1>6, NothingThrows DEF ProbeGoesOn

\* Once the first probe has removed the containers of an earlier run, the workers
\* are the containers docker lists at every moment, as long as neither docker nor
\* redis fails and nobody else removes containers: updateWorkerContainer never
\* throws for a stranger.
THEOREM WorkersAreListed == ProbesEnd => (Spec => []WorkersAreContainers)
<1> SUFFICES ASSUME ProbesEnd
             PROVE  Spec => []WorkersAreContainers
  OBVIOUS
<1> DEFINE Runs == mode # "exited"
<1>1. Init => Runs
  BY DEF Init
<1>2. EInv /\ Runs /\ [Next]_vars => Runs'
  BY ModeStays
<1>3. Spec => []EInv
  BY EInvariance DEF ProbesEnd
<1>4. EInv /\ Runs => WorkersAreContainers
  BY DEF EInv, EngineFits, WorkersAreContainers
<1> QED
  BY <1>1, <1>2, <1>3, <1>4, PTL DEF Spec
================================================================================
