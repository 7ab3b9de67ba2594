------------------------------ MODULE RedisService ------------------------------
(***************************************************************************)
(* The redis-service: the REST API puts requests into the redis queue, one *)
(* probe at a time moves them to worker containers, asks for their status, *)
(* fetches results and applies the scaling.  State of RedisService and of  *)
(* its WorkerHandler, the docker engine it talks to and the files under    *)
(* input/ and output/.                                                     *)
(*                                                                         *)
(* Every await of the probe is a point where API calls and the outside     *)
(* world interleave; calls of one await that nobody else can tell apart    *)
(* are one action.                                                         *)
(***************************************************************************)
EXTENDS ScalingPolicy, FiniteSets, Sequences

CONSTANTS
  Requests,        \* external conversion ids
  Containers,      \* container ids docker hands out
  ProbesPerApply,  \* ceil(stateApplicationInterval / healthCheckInterval)
  WithoutFormat,   \* requests sent without the optional originalFormat
  Faults,          \* what may go wrong outside, see FaultKinds
  MaxQueue         \* bound on the queue, which failing re-dispatches can fill

FaultKinds == {"sick",    \* a container turns unhealthy
               "dead",    \* an unhealthy container does not answer
               "boot",    \* a container that still starts refuses connections
               "vanish",  \* a container is removed by somebody else
               "refuse",  \* a worker answers a request without a conversionId
               "poll",    \* a status request fails
               "fetch",   \* a download fails
               "redis",   \* a redis command fails
               "docker"}  \* a docker command fails

ASSUME ProbesAssumption == ProbesPerApply \in Nat \ {0}
ASSUME FormatAssumption == WithoutFormat \subseteq Requests
ASSUME FaultsAssumption == Faults \subseteq FaultKinds
ASSUME MaxQueueAssumption == MaxQueue \in Nat
ASSUME FiniteAssumption == IsFiniteSet(Requests) /\ IsFiniteSet(Containers)

\* A request on a worker: `known` is conversionStatus, where "open" stands for
\* "in queue" and "processing", and "text" for the message of an error; `job` is
\* what the worker would answer.
Tasks == [id    : Requests,
          known : {"open", "converted", "erroneous", "text"},
          job   : {"refused", "open", "converted", "erroneous"}]

VARIABLES
  client,    \* [Requests -> what POST /conversion answered]
  queue,     \* the redis queue
  waiting,   \* requestsInQueue
  workers,   \* WorkerHandler.workers: [Containers -> SUBSET Tasks]
  place,     \* place of a worker in Object.keys(workers), 0 when it is none
  health,    \* containerHealthStatus cached for a worker
  finished,  \* finishedRequest: [Requests -> status or "none"]
  input,     \* requests with a file under input/
  output,    \* requests with a file under output/, be it empty or only a part
  opening,   \* requests whose file under output/ is still being opened
  docker,    \* [Containers -> state in the docker engine]
  old        \* requests whose result has exceeded the TTL

VARIABLES
  mode,      \* "boot", "start" (the health check of start()), "probe", "exited"
  pc,        \* where the running probe is
  probe,     \* probeCount modulo ProbesPerApply
  pending,   \* pendingRequests of checkHealth
  sick,      \* unhealthyContainerIds still to handle
  redone,    \* requests of the first of them that were re-dispatched
  toStart,   \* lastStatus.containersToStart
  toRemove,  \* lastStatus.containersToRemove
  popped,    \* requests popped and not forwarded yet
  plan,      \* availableWorkers for them
  todo,      \* <<worker, request, status>> fetchFiles has still to look at
  batch      \* finishedRequests collected by fetchFiles: <<request, status>>

files    == <<input, output, opening>>
handler  == <<workers, place, health>>
api      == <<client, queue, waiting>>
results  == <<finished, old>>
checking == <<pending, sick, redone>>
status   == <<toStart, toRemove>>
sending  == <<popped, plan>>
fetching == <<todo, batch>>
control  == <<mode, pc, probe>>

vars == <<files, handler, api, results, checking, status, sending, fetching,
          control, docker>>

\* initialize() deletes the queue and creates it anew; containers of an earlier
\* run may still be there.  A crash of the service leads back here.
Init ==
  /\ client = [id \in Requests |-> "new"]
  /\ queue = <<>>
  /\ waiting = {}
  /\ workers = [c \in Containers |-> {}]
  /\ place = [c \in Containers |-> 0]
  /\ health = [c \in Containers |-> "none"]
  /\ finished = [id \in Requests |-> "none"]
  /\ input = {}
  /\ output = {}
  /\ opening = {}
  /\ docker \in [Containers -> {"none", "healthy"}]
  /\ old = {}
  /\ mode = "boot"
  /\ pc = "health"
  /\ probe = 1 % ProbesPerApply
  /\ pending = 0
  /\ sick = <<>>
  /\ redone = {}
  /\ toStart = 0
  /\ toRemove = 0
  /\ popped = <<>>
  /\ plan = <<>>
  /\ todo = {}
  /\ batch = {}

--------------------------------------------------------------------------------
(***************************************************************************)
(* WorkerHandler and DockerService.                                        *)
(***************************************************************************)
Members == {c \in Containers : place[c] > 0}

Load(c) == Cardinality(workers[c])

Assigned == UNION {{c} \X workers[c] : c \in Members}

\* getRunningContainerInfo: a container still being created is not listed.
Listed == {c \in Containers : docker[c] \notin {"none", "creating"}}

\* The order of _workers() sorted by load, which keeps insertion order.
Before(c, d) == Load(c) < Load(d) \/ (Load(c) = Load(d) /\ place[c] < place[d])

LeastLoaded(n) ==
  {p \in [1 .. n -> Members] :
     /\ \A i, j \in 1 .. n : i < j => Before(p[i], p[j])
     /\ \A c \in Members : (\A i \in 1 .. n : p[i] # c) => \A i \in 1 .. n : Before(p[i], c)}

\* Mutant of Free: room for one request more.
FreeAndFull == {c \in Members : Load(c) <= TasksPerContainer /\ health[c] = "healthy"}

Free == {c \in Members : Load(c) < TasksPerContainer /\ health[c] = "healthy"}

\* Mutant of Idle: busy workers count as idle.
Anyone == Members

Idle == {c \in Members : workers[c] = {}}

\* getIdleWorkerIds().slice(0, n)
FirstIdle(n) == {c \in Idle : Cardinality({d \in Idle : place[d] < place[c]}) < n}

\* removeWorker for every member of S.
Dismiss(S) ==
  /\ place' = [c \in Containers |->
                 IF c \in S THEN 0
                 ELSE place[c] - Cardinality({d \in S : place[d] < place[c]})]
  /\ workers' = [c \in Containers |-> IF c \in S THEN {} ELSE workers[c]]
  /\ health' = [c \in Containers |-> IF c \in S THEN "none" ELSE health[c]]

\* addWorker for every member of S, in some order.
Enroll(S) ==
  /\ \E p \in [S -> Cardinality(Members) + 1 .. Cardinality(Members) + Cardinality(S)] :
       /\ \A c, d \in S : p[c] = p[d] => c = d
       /\ place' = [c \in Containers |-> IF c \in S THEN p[c] ELSE place[c]]
  /\ workers' = [c \in Containers |-> IF c \in S THEN {} ELSE workers[c]]
  /\ health' = [c \in Containers |-> IF c \in S THEN "starting" ELSE health[c]]

\* Docker never hands out an id twice.
Fresh == {c \in Containers : docker[c] = "none" /\ place[c] = 0}

\* Mutant of Deleted: the container is not removed.
Undeleted(S) == docker

Deleted(S) == [c \in Containers |-> IF c \in S THEN "none" ELSE docker[c]]

MayFail(c) == \/ docker[c] = "none"
              \/ docker[c] = "starting" /\ "boot" \in Faults
              \/ docker[c] = "unhealthy" /\ "dead" \in Faults

--------------------------------------------------------------------------------
(***************************************************************************)
(* POST /conversion: the file is written to input/, addRequestToQueue.     *)
(***************************************************************************)
AddRequestToQueue(id) ==
  /\ Len(queue) < MaxQueue
  /\ queue' = Append(queue, id)
  /\ waiting' = waiting \cup {id}

\* The API listens once start() has returned.
ConvertFile(id) ==
  /\ mode = "probe"
  /\ client[id] = "new"
  /\ client' = [client EXCEPT ![id] = "accepted"]
  /\ input' = input \cup {id}
  /\ AddRequestToQueue(id)
  /\ UNCHANGED <<output, opening, handler, results, checking, status, sending,
                 fetching, control, docker>>

\* The client gets an error; when only getPendingRequestCount failed, the
\* request is in the queue all the same.
ConvertFileFails(id) ==
  /\ "redis" \in Faults
  /\ mode = "probe"
  /\ client[id] = "new"
  /\ client' = [client EXCEPT ![id] = "failed"]
  /\ input' = input \cup {id}
  /\ AddRequestToQueue(id) \/ UNCHANGED <<queue, waiting>>
  /\ UNCHANGED <<output, opening, handler, results, checking, status, sending,
                 fetching, control, docker>>

--------------------------------------------------------------------------------
(***************************************************************************)
(* The probe.  An exception ends it; during boot it ends the process.      *)
(***************************************************************************)
\* Mutant of NextProbe: probeCount is never reset.
NextProbeOnly == IF mode = "probe" THEN probe + 1 ELSE probe

NextProbe == IF mode = "probe" THEN (probe + 1) % ProbesPerApply ELSE probe

Throw ==
  /\ mode' = IF mode = "boot" THEN "exited" ELSE "probe"
  /\ pc' = "idle"
  /\ probe' = NextProbe
  /\ pending' = 0 /\ sick' = <<>> /\ redone' = {}

\* setInterval; a tick during a probe returns at once (isRunning).
Tick ==
  /\ mode = "probe" /\ pc = "idle"
  /\ pc' = "health"
  /\ UNCHANGED <<mode, probe, files, handler, api, results, checking, status,
                 sending, fetching, docker>>

\* checkHealth counts the queue, lists the containers, removes the dangling
\* ones and notes the unhealthy workers.
CheckHealth ==
  /\ pc = "health"
  /\ pending' = Len(queue)
  /\ docker' = Deleted(Listed \ Members)
  /\ LET unhealthy == {c \in Listed \cap Members : docker[c] = "unhealthy"}
     IN sick' \in {s \in [1 .. Cardinality(unhealthy) -> unhealthy] :
                     \A i, j \in DOMAIN s : s[i] = s[j] => i = j}
  /\ pc' = "redispatch"
  /\ UNCHANGED <<redone, mode, probe, files, handler, api, results, status,
                 sending, fetching>>

CheckHealthFails ==
  /\ pc = "health"
  /\ \/ "redis" \in Faults /\ UNCHANGED docker
     \/ "docker" \in Faults /\ \E S \in SUBSET (Listed \ Members) : docker' = Deleted(S)
  /\ Throw
  /\ UNCHANGED <<files, handler, api, results, status, sending, fetching>>

\* Mutant of Redispatch: the request is not put back.
RedispatchNothing(task) ==
  /\ pc = "redispatch" /\ sick # <<>>
  /\ task \in workers[Head(sick)] /\ task.id \notin redone
  /\ redone' = redone \cup {task.id}
  /\ UNCHANGED <<api, pending, sick, control, files, handler, results, status,
                 sending, fetching, docker>>

\* Requests of an unhealthy worker go back into the queue one by one, whatever
\* their status, ...
Redispatch(task) ==
  /\ pc = "redispatch" /\ sick # <<>>
  /\ task \in workers[Head(sick)] /\ task.id \notin redone
  /\ AddRequestToQueue(task.id)
  /\ redone' = redone \cup {task.id}
  /\ UNCHANGED <<client, pending, sick, control, files, handler, results, status,
                 sending, fetching, docker>>

RedispatchFails(task) ==
  /\ "redis" \in Faults
  /\ pc = "redispatch" /\ sick # <<>>
  /\ task \in workers[Head(sick)] /\ task.id \notin redone
  /\ AddRequestToQueue(task.id) \/ UNCHANGED <<queue, waiting>>
  /\ Throw
  /\ UNCHANGED <<client, files, handler, results, status, sending, fetching, docker>>

\* ... then the container is removed, and the worker with it.
RemoveUnhealthy ==
  /\ pc = "redispatch" /\ sick # <<>>
  /\ \A task \in workers[Head(sick)] : task.id \in redone
  /\ docker[Head(sick)] # "none"
  /\ docker' = Deleted({Head(sick)})
  /\ Dismiss({Head(sick)})
  /\ sick' = Tail(sick)
  /\ redone' = {}
  /\ UNCHANGED <<pending, control, files, api, results, status, sending, fetching>>

\* ContainerNotFoundError, or docker failed: the worker stays.
RemoveUnhealthyFails ==
  /\ pc = "redispatch" /\ sick # <<>>
  /\ \A task \in workers[Head(sick)] : task.id \in redone
  /\ \/ docker[Head(sick)] = "none" /\ UNCHANGED docker
     \/ "docker" \in Faults /\ docker' \in {docker, Deleted({Head(sick)})}
  /\ Throw
  /\ UNCHANGED <<files, handler, api, results, status, sending, fetching>>

\* The second half of checkHealth: lastStatus is computed with the count of the
\* queue taken before, and the workers get the container infos of the new list.
ComputeStatus ==
  LET requests == pending + Cardinality(Assigned)
  IN /\ toStart' = StartAmount(Cardinality(Listed), requests)
     /\ toRemove' = RemoveAmount(Cardinality(Listed), requests)

\* Mutant of Refreshed: the new container infos are dropped.
Stale(S) == health

Refreshed(S) == [c \in Containers |-> IF c \in S THEN docker[c] ELSE health[c]]

UpdateStatus ==
  /\ pc = "redispatch" /\ sick = <<>>
  /\ Listed \subseteq Members
  /\ ComputeStatus
  /\ health' = Refreshed(Listed)
  /\ pending' = 0
  /\ pc' = CASE mode = "boot" -> "apply" [] mode = "start" -> "idle" [] OTHER -> "forward"
  /\ mode' = IF mode = "start" THEN "probe" ELSE mode
  /\ UNCHANGED <<sick, redone, probe, workers, place, files, api, results,
                 sending, fetching, docker>>

\* updateWorkerContainer throws for a container that is not a worker's, or the
\* containers could not be listed.
UpdateStatusFails ==
  /\ pc = "redispatch" /\ sick = <<>>
  /\ \/ /\ ~(Listed \subseteq Members)
        /\ ComputeStatus
        /\ \E S \in SUBSET (Listed \cap Members) : health' = Refreshed(S)
     \/ "docker" \in Faults /\ UNCHANGED <<status, health>>
  /\ Throw
  /\ UNCHANGED <<workers, place, files, api, results, sending, fetching, docker>>

\* Mutant of StillWaiting: requestsInQueue.delete is missing.
AllWaiting(n) == waiting

\* popRequest, n times.
StillWaiting(n) == waiting \ {queue[i] : i \in 1 .. n}

\* forwardRequestsToIdleWorkers takes as many requests off the queue as there
\* are free healthy workers; forwardRequests then takes the least loaded
\* workers, healthy or not.
PopRequests ==
  /\ pc = "forward"
  /\ LET n == Smaller(Len(queue), Cardinality(Free))
     IN /\ popped' = SubSeq(queue, 1, n)
        /\ queue' = SubSeq(queue, n + 1, Len(queue))
        /\ waiting' = StillWaiting(n)
        /\ plan' \in LeastLoaded(n)
  /\ pc' = "send"
  /\ UNCHANGED <<client, mode, probe, files, handler, results, checking, status,
                 fetching, docker>>

\* The queue could not be counted.
PopRequestsFails ==
  /\ "redis" \in Faults
  /\ pc = "forward"
  /\ Throw
  /\ UNCHANGED <<files, handler, api, results, status, sending, fetching, docker>>

\* The next popped request is posted to its worker w with its input file.
Send(w, id) ==
  /\ pc = "send" /\ popped # <<>>
  /\ id = Head(popped) /\ w = Head(plan)
  /\ popped' = Tail(popped)
  /\ plan' = Tail(plan)
  /\ UNCHANGED <<place, health, files, api, results, checking, status, fetching,
                 control, docker>>

\* Mutant of Dispatch: the requests of the worker are replaced.
DispatchOnly(w, id, job) ==
  workers' = [workers EXCEPT ![w] = {[id |-> id, known |-> "open", job |-> job]}]

Dispatch(w, id, job) ==
  workers' = [workers EXCEPT ![w] = @ \cup {[id |-> id, known |-> "open", job |-> job]}]

Forward(w, id) ==
  /\ Send(w, id)
  /\ id \in input /\ docker[w] # "none"
  /\ Dispatch(w, id, "open")

\* The worker answers with an error: its conversionId is undefined, which is
\* not null, and the request is assigned to the worker all the same.
ForwardRefused(w, id) ==
  /\ "refuse" \in Faults
  /\ Send(w, id)
  /\ id \in input /\ docker[w] # "none"
  /\ Dispatch(w, id, "refused")

\* No answer, or no input file: the error is logged and the request is gone.
ForwardFails(w, id) ==
  /\ Send(w, id)
  /\ id \notin input \/ MayFail(w)
  /\ UNCHANGED workers

\* Mutant of Answer: whatever is not "converted" is taken for an error.
AnswerOrError(task) ==
  [task EXCEPT !.known = IF task.job = "refused" THEN "text"
                         ELSE IF task.job = "converted" THEN "converted" ELSE "erroneous"]

\* probeWorkersForStatus: a request that gets no answer keeps its status; a
\* refused one is asked for under the id "undefined", and gets the message of the
\* error for a status.
Answer(task) ==
  [task EXCEPT !.known = IF task.job = "refused" THEN "text" ELSE task.job]

Unanswered == {a \in Assigned : "poll" \in Faults \/ MayFail(a[1])}

Probe ==
  /\ pc = "send" /\ popped = <<>>
  /\ \E missed \in SUBSET Unanswered :
       /\ \A a \in Unanswered : docker[a[1]] = "none" => a \in missed
       /\ workers' = [c \in Containers |->
                        {IF <<c, task>> \in missed THEN task ELSE Answer(task)
                           : task \in workers[c]}]
  /\ todo' = {x \in Members \X Requests \X {"converted", "erroneous"} :
                \E task \in workers'[x[1]] : task.id = x[2] /\ task.known = x[3]}
  /\ pc' = "fetch"
  /\ UNCHANGED <<mode, probe, place, health, files, api, results, checking, status,
                 sending, batch, docker>>

\* Mutant of RemoveRequestFromWorker: nothing is removed.
KeepRequestOnWorker(c, id) == UNCHANGED workers

\* fetchFiles, one request at a time.  It disappears from its worker before its
\* input is deleted; removeRequestFile misses the extension of a request
\* without originalFormat and rejects, and then nobody holds the request.
RemoveRequestFromWorker(c, id) ==
  workers' = [workers EXCEPT ![c] = {task \in @ : task.id # id}]

\* Mutant of DeleteInput: the input stays.
KeepInput(id, outcome) == batch' = batch \cup {<<id, outcome>>} /\ UNCHANGED input

DeleteInput(id, outcome) ==
  IF id \in input /\ id \notin WithoutFormat
    THEN input' = input \ {id} /\ batch' = batch \cup {<<id, outcome>>}
    ELSE UNCHANGED <<input, batch>>

\* The body is piped into a new write stream, and nobody waits for the pipe: the
\* file is not even opened when its request is finished.
FetchFile(c, id) ==
  /\ pc = "fetch"
  /\ <<c, id, "converted">> \in todo
  /\ docker[c] # "none"
  /\ todo' = todo \ {<<c, id, "converted">>}
  /\ opening' = opening \cup {id}
  /\ RemoveRequestFromWorker(c, id)
  /\ DeleteInput(id, "converted")
  /\ UNCHANGED <<output, place, health, api, results, checking, status, sending, control,
                 docker>>

FetchFileFails(c, id) ==
  /\ pc = "fetch"
  /\ <<c, id, "converted">> \in todo
  /\ "fetch" \in Faults \/ MayFail(c)
  /\ todo' = todo \ {<<c, id, "converted">>}
  /\ UNCHANGED <<batch, files, handler, api, results, checking, status, sending,
                 control, docker>>

CollectErroneous(c, id) ==
  /\ pc = "fetch"
  /\ <<c, id, "erroneous">> \in todo
  /\ todo' = todo \ {<<c, id, "erroneous">>}
  /\ RemoveRequestFromWorker(c, id)
  /\ DeleteInput(id, "erroneous")
  /\ UNCHANGED <<output, opening, place, health, api, results, checking, status, sending,
                 control, docker>>

\* fetchFiles returned: its requests are finished.
StoreFinished ==
  /\ pc = "fetch" /\ todo = {}
  /\ \E f \in [Requests -> {"none", "converted", "erroneous"}] :
       /\ \A id \in Requests :
            IF \E b \in batch : b[1] = id THEN <<id, f[id]>> \in batch
                                         ELSE f[id] = finished[id]
       /\ finished' = f
       /\ old' = {id \in old : \A b \in batch : b[1] # id}
  /\ batch' = {}
  /\ pc' = IF probe = 0 THEN "apply" ELSE "ttl"
  /\ UNCHANGED <<mode, probe, todo, files, handler, api, checking, status, sending, docker>>

\* applyState.  In boot, start() and its health check come next.
Applied ==
  /\ pc' = IF mode = "boot" THEN "health" ELSE "ttl"
  /\ mode' = IF mode = "boot" THEN "start" ELSE mode
  /\ toStart' = 0 /\ toRemove' = 0
  /\ UNCHANGED <<probe, files, api, results, checking, sending, fetching>>

StartContainers(S) ==
  /\ pc = "apply" /\ toRemove = 0
  /\ Cardinality(S) = Larger(toStart, 0)
  /\ docker' = [c \in Containers |-> IF c \in S THEN "starting" ELSE docker[c]]
  /\ Enroll(S)
  /\ Applied

RemoveIdle ==
  /\ pc = "apply" /\ toRemove > 0 /\ toStart = 0
  /\ \A c \in FirstIdle(toRemove) : docker[c] # "none"
  /\ docker' = Deleted(FirstIdle(toRemove))
  /\ Dismiss(FirstIdle(toRemove))
  /\ Applied

\* One docker call of a Promise.all fails, maybe after its container was created
\* or removed: the others go on, but no worker is added or removed, and one of
\* the others may create its container after the probe has ended.
StartContainersFails(S) ==
  /\ "docker" \in Faults
  /\ pc = "apply" /\ toStart > 0
  /\ Cardinality(S) <= toStart
  /\ \E late \in SUBSET S :
       /\ Cardinality(late) < toStart
       /\ docker' = [c \in Containers |-> IF c \in late THEN "creating"
                                      ELSE IF c \in S THEN "starting" ELSE docker[c]]
  /\ Throw
  /\ UNCHANGED <<files, handler, api, results, status, sending, fetching>>

RemoveIdleFails ==
  /\ pc = "apply" /\ toRemove > 0
  /\ \E gone \in SUBSET FirstIdle(toRemove) :
       /\ \/ "docker" \in Faults
          \/ /\ gone = {c \in FirstIdle(toRemove) : docker[c] # "none"}
             /\ gone # FirstIdle(toRemove)
       /\ docker' = Deleted(gone)
  /\ Throw
  /\ UNCHANGED <<files, handler, api, results, status, sending, fetching>>

\* Mutant of Outdated: the comparison with FILE_TTL is the wrong way round.
TooYoung == {id \in output \ old : finished[id] # "none"}

\* Mutant of Orphans: only the requests on workers are looked at.
NotOnWorkers == output \ {a[2].id : a \in Assigned}

\* checkFileTtl: the entry of an old request goes with its output, in the same
\* turn as deleteFile resolves when it has issued unlink; it stays when there is
\* no output.  Then the files nobody holds are deleted.
Outdated == {id \in old \cap output : finished[id] # "none"}

Orphans == {id \in output \ {a[2].id : a \in Assigned} : finished[id] = "none"}

CheckFileTtl ==
  /\ pc = "ttl"
  /\ finished' = [id \in Requests |-> IF id \in Outdated THEN "none" ELSE finished[id]]
  /\ output' = output \ (Outdated \cup Orphans)
  /\ pc' = "idle"
  /\ probe' = NextProbe
  /\ UNCHANGED <<mode, input, opening, old, handler, api, checking, status, sending,
                 fetching, docker>>

--------------------------------------------------------------------------------
(***************************************************************************)
(* The outside world.                                                      *)
(***************************************************************************)
internal == <<files, api, results, checking, status, sending, fetching, control,
              place, health>>

JobEnds(c, task) ==
  /\ task \in workers[c]
  /\ task.job = "open" /\ docker[c] # "none"
  /\ \E job \in {"converted", "erroneous"} :
       workers' = [workers EXCEPT ![c] = (@ \ {task}) \cup {[task EXCEPT !.job = job]}]
  /\ UNCHANGED <<internal, docker>>

DockerChanges(c, from, to) ==
  /\ docker[c] \in from
  /\ docker' = [docker EXCEPT ![c] = to]
  /\ UNCHANGED <<internal, workers>>

Boots(c)   == DockerChanges(c, {"starting"}, "healthy")
Sickens(c) == "sick" \in Faults /\ DockerChanges(c, {"starting", "healthy"}, "unhealthy")
Vanishes(c) ==
  "vanish" \in Faults /\ DockerChanges(c, {"starting", "healthy", "unhealthy"}, "none")
\* A creation that outlived its probe ends.
Appears(c) == \E to \in {"starting", "none"} : DockerChanges(c, {"creating"}, to)

\* createWriteStream has opened the file, which truncates one that is there.
FileOpens(id) ==
  /\ id \in opening
  /\ opening' = opening \ {id}
  /\ output' = output \cup {id}
  /\ UNCHANGED <<input, api, handler, results, checking, status, sending, fetching,
                 control, docker>>

\* FILE_TTL seconds have passed since finishedTime.
GrowsOld(id) ==
  /\ finished[id] # "none" /\ id \notin old
  /\ old' = old \cup {id}
  /\ UNCHANGED <<files, api, handler, finished, checking, status, sending, fetching,
                 control, docker>>

--------------------------------------------------------------------------------
(***************************************************************************)
(* The specification.                                                      *)
(***************************************************************************)
AtWorker(c, id) ==
  \/ Forward(c, id)
  \/ ForwardRefused(c, id)
  \/ ForwardFails(c, id)
  \/ FetchFile(c, id)
  \/ FetchFileFails(c, id)
  \/ CollectErroneous(c, id)

ProbeStep ==
  \/ Tick
  \/ CheckHealth
  \/ CheckHealthFails
  \/ \E task \in Tasks : Redispatch(task) \/ RedispatchFails(task)
  \/ RemoveUnhealthy
  \/ RemoveUnhealthyFails
  \/ UpdateStatus
  \/ UpdateStatusFails
  \/ PopRequests
  \/ PopRequestsFails
  \/ \E c \in Containers, id \in Requests : AtWorker(c, id)
  \/ Probe
  \/ StoreFinished
  \/ \E S \in SUBSET Fresh : StartContainers(S) \/ StartContainersFails(S)
  \/ RemoveIdle
  \/ RemoveIdleFails
  \/ CheckFileTtl

Outside ==
  \/ \E id \in Requests : ConvertFile(id) \/ ConvertFileFails(id) \/ GrowsOld(id)
                                \/ FileOpens(id)
  \/ \E c \in Containers :
       \/ Boots(c) \/ Sickens(c) \/ Vanishes(c) \/ Appears(c)
       \/ \E task \in Tasks : JobEnds(c, task)

Next == ProbeStep \/ Outside

Spec == Init /\ [][Next]_vars

\* The interval keeps firing, awaited calls return and files are opened;
\* containers boot, and a worker ends its jobs (EveryRequestSettles of
\* ConversionService).
FairSpec ==
  /\ Spec
  /\ WF_vars(ProbeStep)
  /\ WF_vars(\E id \in Requests : FileOpens(id))
  /\ \A c \in Containers : WF_vars(Boots(c))
  /\ \A c \in Containers : WF_vars(\E task \in Tasks : JobEnds(c, task))

--------------------------------------------------------------------------------
(***************************************************************************)
(* Where a request is, and what GET /conversion/{id} reports of it.        *)
(***************************************************************************)
Times(id, s) == Cardinality({i \in DOMAIN s : s[i] = id})

\* While an unhealthy worker is emptied, what it has re-dispatched is the
\* queue's again.
HeldBy(c, id) ==
  /\ \E task \in workers[c] : task.id = id
  /\ sick # <<>> /\ Head(sick) = c => id \notin redone

Holders(id) == {c \in Members : HeldBy(c, id)}

Collected(id) == {b \in batch : b[1] = id}

Done(id) == IF finished[id] = "none" THEN 0 ELSE 1

Copies(id) == Times(id, queue) + Times(id, popped) + Cardinality(Holders(id))
                + Cardinality(Collected(id)) + Done(id)

Answered(id) == client[id] = "accepted"

Expired(id) == id \in old /\ finished[id] = "none"

\* What has been made of a request, be it only known to its worker.
Results(id) ==
  {r \in {"converted", "erroneous"} :
     \/ <<id, r>> \in batch
     \/ finished[id] = r
     \/ \E c \in Holders(id) : \E task \in workers[c] : task.id = id /\ task.job = r}

\* The places of ExactlyOnePlace as the stages of RequestDispatch.
Stage(id) ==
  CASE Times(id, queue) > 0 -> "queued"
    [] Times(id, popped) > 0 -> "taken"
    [] Holders(id) # {} -> "working"
    [] Collected(id) # {} -> "collected"
    [] finished[id] # "none" -> "finished"
    [] OTHER -> IF ~Answered(id) THEN "new" ELSE IF id \in old THEN "expired" ELSE "lost"

\* getConversionResult, "unknown" for undefined.
Found(id) == {a[2] : a \in {a \in Assigned : a[2].id = id}}

ReportedStatus(id) ==
  CASE id \in waiting -> "open"
    [] id \notin waiting /\ finished[id] # "none" -> finished[id]
    [] id \notin waiting /\ finished[id] = "none" /\ Cardinality(Found(id)) = 1 ->
         (CHOOSE task \in Found(id) : TRUE).known
    [] OTHER -> "unknown"

--------------------------------------------------------------------------------
(***************************************************************************)
(* Properties.                                                             *)
(***************************************************************************)
TypeOK ==
  /\ client \in [Requests -> {"new", "accepted", "failed"}]
  /\ queue \in Seq(Requests)
  /\ waiting \subseteq Requests
  /\ workers \in [Containers -> SUBSET Tasks]
  /\ place \in [Containers -> Nat]
  /\ health \in [Containers -> {"none", "starting", "healthy", "unhealthy"}]
  /\ finished \in [Requests -> {"none", "converted", "erroneous"}]
  /\ input \subseteq Requests
  /\ output \subseteq Requests
  /\ opening \subseteq Requests
  /\ docker \in [Containers -> {"none", "creating", "starting", "healthy", "unhealthy"}]
  /\ old \subseteq Requests
  /\ mode \in {"boot", "start", "probe", "exited"}
  /\ pc \in {"idle", "health", "redispatch", "forward", "send", "fetch", "apply", "ttl"}
  /\ probe \in 0 .. ProbesPerApply - 1
  /\ pending \in Nat
  /\ sick \in Seq(Containers)
  /\ redone \subseteq Requests
  /\ toStart \in Int
  /\ toRemove \in Nat
  /\ popped \in Seq(Requests)
  /\ plan \in Seq(Containers)
  /\ todo \subseteq Containers \X Requests \X {"converted", "erroneous"}
  /\ batch \subseteq Requests \X {"converted", "erroneous"}

\* No request is lost and none is done twice: between the queue, the probe's
\* hands, the workers and the results there is always exactly one of it, until
\* the TTL removes its result; an unhealthy worker hands its requests back.
ExactlyOnePlace ==
  \A id \in Requests :
    Copies(id) = IF Answered(id) /\ ~Expired(id) THEN 1 ELSE 0

\* No worker gets more than TASKS_PER_CONTAINER requests, although the workers
\* counted as free are not the ones the requests are then sent to.
WorkerCapacity == \A c \in Members : Load(c) <= TasksPerContainer

\* Every request passes the stages of RequestDispatch, in the order in which the
\* requests were queued, and its result is the one its worker made: whatever
\* workers do, it is lost only when its POST fails or its input cannot be deleted.
Dispatched == INSTANCE RequestDispatch WITH
                Ids <- Requests, Workers <- Containers, Capacity <- TasksPerContainer,
                MayMiss <- Faults \cap {"boot", "dead"} # {},
                Unnamed <- WithoutFormat,
                stage   <- [id \in Requests |-> Stage(id)],
                line    <- queue,
                holders <- [id \in Requests |-> Holders(id)],
                results <- [id \in Requests |-> Results(id)]

ImplementsDispatch == Dispatched!Spec

\* A worker is dismissed only when each of its requests is back in the queue:
\* "Only idle containers are removed", and unhealthy ones are emptied before.
NoRequestGoesDown ==
  [][\A c \in Members : c \in Members' \/ \A task \in workers[c] :
                                             \E i \in DOMAIN queue : queue[i] = task.id]_vars

\* The file of a request that is reported as finished and "converted" is there or
\* about to be opened: neither the TTL nor the removal of orphaned files takes it
\* before its entry.  What has been written of it is another matter.
ResultHasFile ==
  \A id \in Requests : finished[id] = "converted" => id \in output \cup opening

\* Whoever still has to convert a request finds its input file: it is deleted
\* only when nobody will be asked to convert the request again.
InputKept ==
  \A id \in Requests :
    Times(id, queue) + Times(id, popped) + Cardinality(Holders(id)) > 0 => id \in input

\* A result, once published, does not change and stays for FILE_TTL.
ResultIsFinal ==
  [][\A id \in Requests : finished[id] # "none" =>
        finished'[id] = finished[id] \/ Expired(id)']_vars

\* Once the containers of an earlier run are gone, the workers are exactly the
\* containers docker lists, so updateWorkerContainer never meets a stranger.
WorkersAreContainers ==
  (mode = "boot" /\ pc = "health") \/ Members = Listed

\* "The scaling will not exceed this number", whatever is started or removed
\* between the probe that counts and the one that applies.
AtMostMax == Cardinality(Members) <= MaxContainers

\* Every accepted request is converted or marked as erroneous in the end.
EveryRequestFinishes ==
  \A id \in Requests : Answered(id) ~> finished[id] # "none" \/ Expired(id)

\* "Finished conversions will be removed from the system after the specified
\* TTL": so are the converted ones.
ConvertedExpires ==
  \A id \in Requests :
    id \in old /\ finished[id] = "converted" ~> Expired(id) /\ id \notin output \cup opening

--------------------------------------------------------------------------------
(***************************************************************************)
(* Statements of the documentation that the code does not keep.            *)
(***************************************************************************)
\* "The files in queue will be processed": an accepted request is somewhere.
NothingLost == \A id \in Requests : Answered(id) => Copies(id) > 0 \/ Expired(id)

\* "Finished conversions will be removed from the system after the specified
\* TTL": the erroneous ones, too.
FinishedExpires ==
  \A id \in Requests : id \in old /\ finished[id] # "none" ~> finished[id] = "none"
================================================================================
