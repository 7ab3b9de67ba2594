# TLA+ verification of dynamic-conversion-service

The repository converts documents and media on demand. A *redis-service* takes
conversion requests over REST, keeps them in a redis queue and, on a timer,
moves them to *conversion workers*: docker containers it starts and removes
with the load. A worker keeps a queue of its own and runs unoconv, ffmpeg or
imagemagick on one file at a time.

This directory holds TLA+ models of both services, of the scaling policy, of the
redis queue between client and probe, of the REST APIs and of the configuration
one service reads and hands to the other; the TLC runs that check them on small
instances; and TLAPS proofs, for every instance, of all their safety properties and
of the three refinements. `PROJECT.json` maps every definition to the lines it was
translated from; paths below are relative to `src/packages/`.

```
tlc -workers 2 -config MCProbeSafety.cfg MCRedisService     # one run
tlapm RedisService_proof.tla                                # one proof module
```

## 1. Inventory

| part | state it keeps | operations |
|---|---|---|
| `redis/src/service.ts` RedisService | `requestsInQueue`, `finishedRequest`, `lastStatus`, `probeCount`, `isRunning` | addRequestToQueue, getConversionResult, the probe: checkHealth, forwardRequestsToIdleWorkers, worker polling, applyState, checkFileTtl; start, quit |
| `redis/src/worker/index.ts` WorkerHandler | `workers`: container info and assigned requests | addWorker, removeWorker, updateWorkers, forwardRequests, probeWorkersForStatus, fetchFiles, getIdleWorkerIds, getForwardableRequestCount, updateWorkerContainer |
| `auto-scaler/src/index.ts` AutoScaler | none of its own (the docker engine) | checkContainerStatus, applyConfigurationState, computeContainerScaleAmount |
| `auto-scaler/src/docker/index.ts` DockerService | none (the docker engine) | createContainer, removeContainer, getRunningContainerInfo, checkImage |
| `redis/src/wrapper/` RedisWrapper | the rsmq queue, the connection | initialize, sendMessage, receiveMessage, getPendingMessagesCount, quit; initialize and the count race a timeout |
| `redis/src/config/` | none after start | getRedisConfigFromEnv and its parts: what is accepted, what the containers get |
| `redis/src/api/rest/`, `redis/src/controller/` | `cachedFormats` (in RedisService) | POST /conversion (both forms), GET /conversion, /conversion/{id}, /download, /ping, /formats; generated routes with their validation |
| `conversion-service/src/config/` | the configuration, read once; the rules, read from the environment at each use | createConfiguration, wrapper lists, paths, converter rules |
| `conversion-service/src/service/conversion/` ConversionService | none of its own (the queue singleton) | processConversionRequest, update, convertFile, addToConversionQueue, supportsConversion |
| `.../conversion/queue/` ConversionQueue | `conversion`, `convLog`, `currentlyConverting`, `isConverting` | addToConversionQueue, changeConvLogEntry, getNextQueueElement, getStatusById |
| `.../abstract/converter/service.ts` ConverterService | none | wrapConversion, determineConverter |
| `.../service/{unoconv,ffmpeg,imagemagick}` | the child process and its timer | convertToTarget, canConvert, getSupportedConversionFormats |
| `.../service/file-io/` | files under `input/`, `output/` | writeToFile, readFile, deleteFile |
| `conversion-service/src/controller/` | none | the worker's REST API, with the same generated routes |
| logger, generated API client, ffmpeg capabilities | none | output and types |

**How they interact.** The client posts to the redis-service; the request goes
into redis. `setInterval` runs a probe every HEALTH_CHECK_INTERVAL unless one is
still running. The probe, in this order: counts the queue, lists the containers,
removes dangling ones, puts the requests of unhealthy workers back into the
queue and removes those workers, computes how many containers to start or remove,
forwards requests, polls the workers, fetches results, applies the scaling (every
k-th probe) and expires old results. Each step awaits docker, redis or a worker,
and REST calls run in between. The worker writes the input file, appends to its
queue and calls `update()`; the end of every conversion calls `update()` again.

**What is hard.** One step of several failing (a request popped but not posted, a
container removed but its worker kept, a file deleted before its entry); values
computed early in a probe and applied at its end; the number of free workers and
the workers then chosen coming from different lists; a timer racing the process
it watches; a child process whose failure nobody listens to; retries sharing the queue with new requests; a catch block meant
for conversions that also catches the clean-up; a queue counted by one command
and emptied by later ones while clients, shutdown and losses of redis come between;
a configuration one program checks and another program uses; two programs that
each decide whether and how a file is converted. `PROJECT.json` lists these as
hazards, each at its line, with the properties that cover it.

**What makes each part correct.**
- *RedisService*: an accepted request is in exactly one place until its result
  expires, is eventually finished, keeps its input while somebody has to convert
  it, and its result never changes, keeps its file and is reported truly.
- *WorkerHandler*: no worker is overloaded; none is dismissed with requests
  only it holds; its workers are the containers docker lists.
- *AutoScaler*: never above the maximum, never both directions, starts exactly
  what the load needs, removes only down to the minimum.
- *Redis queue*: first in first out, what is noted as queued is queued, the loop
  that empties it ends, and a lost queue comes back.
- *Configuration*: what the redis-service accepts lets its workers start and use the
  wrapper the operator asked for, and the state is applied when it is due, through
  long and failing probes.
- *REST*: a finished request is served by every route, and what is offered as a
  format is accepted.
- *Worker*: no lost wake-up, log, queue and conversion in agreement, first
  attempts first come first served, bounded retries, result before announcement
  (where the worker writes the result itself).

## 2. Modules

| module | models | stands on |
|---|---|---|
| `ConversionLifecycle` | abstract: what a worker promises of each request | |
| `ConversionService` | the worker | implements `ConversionLifecycle` |
| `WorkerApi` | the GET answers of the worker | `ConversionService`, `RestApi` |
| `MCConversionService` | three requests and their wrappers, for TLC | `WorkerApi` |
| `ConversionService_proof` | every safety property of the worker and its API, and the refinement | `WorkerApi`, `RestApi_proof` |
| `ScalingPolicy` | `computeContainerScaleAmount` as operators | |
| `AutoScaler` | the two calls of the AutoScaler over a changing load | `ScalingPolicy` |
| `ScalingPolicy_proof` | lemmas: what the two amounts are for every load and limit | `ScalingPolicy` |
| `AutoScaler_proof` | type correctness, limits of the scaling, the least sufficient start | `AutoScaler`, `ScalingPolicy_proof` |
| `RequestDispatch` | abstract: what the redis-service promises of each request | |
| `RedisService` | the redis-service, WorkerHandler, docker, files | `ScalingPolicy`; implements `RequestDispatch` |
| `RedisApi` | the GET answers of the redis-service | `RedisService`, `RestApi` |
| `MCRedisService` | a few requests and containers, and their symmetry | `RedisApi` |
| `RedisService_proof` | what holds whatever fails: WorkerCapacity, type correctness, NoRequestGoesDown, ResultIsFinal, ResultHasFile; and what holds while docker obeys: AtMostMax, WorkersAreContainers | `RedisService`, `ScalingPolicy_proof` |
| `RedisServiceSafety_proof` | the requests, while the outside keeps some promises: at most one and exactly one place, InputKept, FinishedIsServed, and the refinement | `RedisService_proof`, `RedisApi`, `RestApi_proof` |
| `FifoQueue` | abstract: what the redis queue promises | |
| `RequestQueue` | RedisWrapper and rsmq, initialize, quit, POST and the pop loop | implements `FifoQueue` |
| `RequestQueue_proof` | type correctness, WaitingIsQueue, LoopCanFinish, the refinement | `RequestQueue` |
| `RestApi` | routing, validation and responses both programs share | |
| `RestApi_proof` | lemmas: which route takes a GET or a POST, and what it answers | `RestApi` |
| `Environment` | environment variables and rule names | |
| `RedisConfiguration` | the parser of the redis-service | `Environment` |
| `WorkerConfiguration` | the parser of the worker, determineConverter | `Environment` |
| `ConversionFormats` | the tools' reports, canConvert, supportsConversion | |
| `Forwarding` | a POST through both programs | `RestApi`, `ConversionFormats`, `WorkerConfiguration` |
| `Deployment` | one environment, the redis-service and a worker | `RedisConfiguration`, `Forwarding` |
| `MCDeployment` | template.env and its changes, tools, bodies | `Deployment` |
| `Deployment_proof` | WorkersBoot, ChosenAsWanted, AppliedInTime, OfferedIsAccepted | `Deployment`, `RestApi_proof` |

Operators commented "Mutant of X" are altered forms of X that show a property
can fail; no specification uses them.

### ConversionService

Node runs one callback at a time, so one action is one callback with all the
continuations it resumes. In particular `convertFile`'s `catch`, its `finally`
and the `update()` there belong to the action that ends the conversion, and
`StartNext` models a chain of `update()` calls that gives up exhausted entries
without any I/O until one starts.

`queue`, `convLog`, `isConverting`, `current` are the fields of ConversionQueue
(the insertion order of the Map `convLog`, in which GET /conversion lists the
requests, is left out). `stage` is what the running
wrapper waits for. `input` and `output` are the directories; `output` tells
an unfinished file (`"partial"`) from a finished one. `ffmpegs` counts the ffmpeg
processes still alive, two for each attempt, since `save()` runs the command and
the `run()` behind it does so again: the wrapper resolves on a timer and leaves them
behind. `up` is the process itself. Neither the ffmpeg command nor the unoconv process
has a listener for `'error'`, so an ffmpeg that fails and an unoconv that cannot be
spawned end the worker (`WorkerEnds`): queue and log are gone, the files stay, and no
restart is modelled, as workers are created without a restart policy. What gm
leaves is open even when it reports no error: the worker does not look at the file.

| code | action |
|---|---|
| processConversionRequest, before and after the write | ReceiveRequest, RefuseRequest, WriteFails, AddToConversionQueue |
| update, convertFile, wrapConversion's check of the tries | StartNext, Start, Rest, GiveUp |
| convertFile after success / in its catch | Converted, Failed |
| unoconv.ts: spawn, exit, stderr, timer, kill, save | UnoconvCannotStart, UnoconvExit, UnoconvError, UnoconvTimeout, UnoconvKilled, UnoconvSaved, UnoconvSaveFails |
| imagemagick.ts | ImageMagickWritten, ImageMagickError |
| ffmpeg/index.ts: the command, its catch, the two-second timer | FfmpegRuns, FfmpegThrows, FfmpegTimer |
| the ffmpeg processes on their own, a failing one | FfmpegWrites, FfmpegExit, FfmpegFails |
| somebody else deletes an input file (only if InputMayVanish) | InputVanishes |

`ConversionLifecycle` knows whether the worker is up, and a status and a number of
failed attempts per request. A step `Proceeds`, with every request moving legally, or
`Ends`: all requests are forgotten at once, which only an attempt, running or
announced, at a `Fragile` request can bring about. `ImplementsLifecycle` is the
refinement with `status <- convLog[id].status`, `attempts <- convLog[id].retries` and
`Fragile` the requests of ffmpeg and unoconv.

### ScalingPolicy and AutoScaler

`StartAmount` and `RemoveAmount` are the two results of
`computeContainerScaleAmount`, branch by branch, `Math.ceil` as `CeilDiv`. The
remove amount is kept in the form of the code (`RequiredContainers` is in truth a
number of requests). `AutoScaler` computes a status (CheckContainerStatus) and
applies it (StartContainers, RemoveContainers, ApplyFails) while requests come
and go and containers die in between.

### RedisService

The probe is a program counter `pc` over the awaits of `probe()`/`checkHealth()`;
`mode` tells the two health checks of the launch from the interval. Awaits whose
calls nobody else can tell apart are one action; REST calls, docker and the jobs
of the workers interleave everywhere. An exception is `Throw`: it ends the probe
(the try/catch in the interval) or, during launch, the process.

A task on a worker is `[id, known, job]`: `known` is what the last poll stored
in `conversionStatus`, `job` what the worker would answer now. Both "in queue" and
"processing" are `"open"`. What the worker does with a job is here one step,
`JobEnds`: the promise of `ConversionLifecycle`.

| code | action |
|---|---|
| POST /conversion, addRequestToQueue | ConvertFile, ConvertFileFails |
| setInterval, isRunning | Tick |
| checkHealth, first half | CheckHealth, CheckHealthFails, Redispatch(Fails), RemoveUnhealthy(Fails) |
| checkHealth, second half: updateWorkerContainer, lastStatus | UpdateStatus, UpdateStatusFails |
| forwardRequestsToIdleWorkers, popRequest | PopRequests, PopRequestsFails |
| WorkerHandler.forwardRequests | Forward, ForwardRefused, ForwardFails |
| probeWorkersForStatus | Probe |
| fetchFiles, finishedRequest.set | FetchFile, FetchFileFails, CollectErroneous, StoreFinished |
| createWriteStream of getFileFromWorker | FileOpens |
| applyState, applyConfigurationState, updateWorkers | StartContainers, RemoveIdle, and their Fails |
| checkFileTtl | CheckFileTtl |
| getConversionResult | ReportedStatus |
| docker, workers, time | Boots, Sickens, Vanishes, Appears, JobEnds, GrowsOld |

`place` is the position of a worker in `Object.keys(workers)`: the stable sort by
load makes it decide who gets a request.

A download is piped into a write stream nobody waits for. `opening` are the requests
that fetchFiles has left behind like that: they are finished while their file is not
there yet, until FileOpens, at any later moment, puts it into `output`. What is in the
file is not modelled: from then on it may be empty, partial or the text of an error
(section 5).

`Faults` is the set of things that may go wrong: an unhealthy container (`sick`),
one that does not answer (`dead`), connections refused while booting (`boot`), a
container removed from outside (`vanish`), a worker answering with an error
(`refuse`), failing polls (`poll`), downloads (`fetch`), redis commands (`redis`)
and docker commands (`docker`). A run picks those under which its properties are
claimed; the model is the same for all.

Simplifications: two copies of a request on one worker count as one; time is the
two steps GrowsOld and Tick; removals that finish after
their probe failed are not a step of their own (they are like Vanishes). That an
expired entry and its file go in one step is the code's order: `deleteFile`
resolves in the turn in which it issues `unlink`, whose failure nobody sees.

Shutdown is not here but in RequestQueue. `WithoutFormat` are requests without
originalFormat; the runs have none, see section 6.

`RequestDispatch` is what a client may rely on. A request is new, queued, taken,
working, collected, finished, expired or lost (`Moves`), and in one step it moves once
or stays where it is. The line is left at its front only, by requests that are then
taken, and joined at its end. One worker has a working request, no worker has more than
its capacity, and the result is the one that worker made, unchanged until it expires. A
request is lost in two ways only (`Losses`): its POST is not answered, or it has no
format, so that its input cannot be deleted. `Next` says all this of the old and the
new state, for all requests at once, since one await of the probe may move several
(`checkFileTtl`, `popRequest` of all that are free). `ImplementsDispatch` is the
refinement with `line <- queue`, `holders` the workers that have a request, `results`
what was made of it on a worker, in the hands of the probe or in `finishedRequest`, and
`stage <- Stage(id)`: the one place it is at.

### FifoQueue and RequestQueue

RequestQueue looks at the same probe through the redis connection. rsmq has one
connection and redis answers in order, so a command and the code that follows its
answer are one action and two commands of one caller are two: between the
`getPendingMessagesCount` that decides how much to pop and each `popMessage` a
client, a shutdown or a loss comes in. `mode` is the process (start, up, quit,
closed, off), `api[id]` the place of one POST, `pc`, `creating`, `counted`, `room`
and `popped` the probe. `handed` and `lost` are history: what was popped, in order,
and what redis lost, quit deleted or a lost answer took along.

| code | action |
|---|---|
| RedisWrapper.initialize | Start, GetQueues, DeleteQueue, CreateQueue, InitializeFails |
| addRequestToQueue and its count | SendMessage, SendFails, CountForClient, CreateForClient, CountFails |
| setInterval | Tick |
| getPendingMessagesCount (health check, forwarding, log) | Count, CreateMissing, CountFailsProbe |
| the while loop of forwardRequestsToIdleWorkers, popRequest | PopRequest, PopNothing, PopFails, Forward |
| RedisService.quit, RedisWrapper.quit, index.ts | Quit, QuitGetQueues, QuitDeleteQueue, QuitFails, Ends |
| the process is killed, redis loses its data | Crash, LoseQueue |

`room` is any number up to MaxRoom: how it comes about is RedisService. A client
that gets an error may find its request queued nevertheless, since sending and counting
are two commands and a failed command may have been executed. `FifoQueue` has two
sequences, `queued` and `taken`, and four steps (Accept, Take, Drop, Clear);
`ImplementsFifo` is the refinement with `queued <- messages`, `taken <- handed`.

### Environment, RedisConfiguration, WorkerConfiguration

Operators, since the configuration is read once. `Numbers` is what `Number` and
`parseInt` make of a text of digits. A value is the list of its parts between commas;
unset, empty and text are told apart where the code does. What the two parsers do
differently is kept: `isStringNumber` in one and no such check in the other, `||` and
`!` against `??`, lists trimmed and lower-cased but rules compared as they are.
`Accepted` says that the redis-service starts, `Boots` that a worker does, `EnvVars` is
what a container gets, `DetermineConverter` the choice by multi rule, mono rule and list.

### RestApi, RedisApi, WorkerApi

`RestApi` has the generated route table (the two programs have the same one), the
validation and `promiseHandler`: `Serve(request, outcome)` is the answer when
the controller leaves `outcome`. `RedisApi` and `WorkerApi` are the controllers on
the state of the two services. GET handlers change nothing, so they are operators,
and properties about them hold at any time somebody asks. POST is where the state
changes: the actions of RedisService, RequestQueue and ConversionService.

### ConversionFormats, Forwarding, Deployment

`ConversionFormats` has what unoconv, ffmpeg and the imagemagick list report, with
unoconv's output line by line, including the format before the first header,
which throws in a callback. `Forwarding` follows one body: file name and formats
as the redis-service takes them, the form it posts, the worker's `Decision`.
`Deployment` puts them together: StartService, the interval that paces the state
application (below), StartWorker, GetFormats (with its cache), and Reject, Lose or
Forward for the posted body. An answer of another worker than the one modelled is
the same, since all get one environment and one image.

| code | action |
|---|---|
| a tick of the interval: a probe starts, or one is running | StartProbe, SkipTick |
| applyState in a probe that is due | ApplyState |
| the end of a probe, whether what follows or precedes throws | EndProbe |
| a due probe throws before applyState, and is counted all the same | FailDueProbe |

Time is the ticks of the interval. `since` counts them from the last application,
`late` those of them that were lost: one for each tick that met a running probe, a whole
round for a due probe that failed. A probe that is not due changes nothing here by
failing.

## 3. Runs

Passing runs:

| run | instance | shows |
|---|---|---|
| MCWorkerSafety | 3 requests (unoconv, ffmpeg, imagemagick), 2 tries, input files may vanish | TypeOK, NoLostWakeup, OneStory, AnnouncedIsServed (what the worker announces as converted by unoconv, both download routes hand out), PositionNeverGrows |
| MCWorkerLiveness | 3 requests (two unoconv, one ffmpeg), 2 tries, input files are left alone | InQueueHasPosition (status and list agree on the positions), InputLivesUntilSettled, the refinement ImplementsLifecycle, and under fairness EveryRequestSettles (unless the worker ends) |
| ScalerPolicy | 2 tasks per container, 1 to 4 containers, up to 9 requests | TypeOK, AtMostMax, OneDirection, StartsTheLeastSufficient, RemovalLeavesMinimum |
| MCProbeSafety | 3 requests, 3 container ids, 2 tasks each, 1 to 2 containers, scaling in every probe, faults sick, fetch | TypeOK, ExactlyOnePlace, WorkerCapacity, FinishedIsServed (every route tells a finished request as what it is, and hands out its file once that is opened), InputKept, WorkersAreContainers, AtMostMax, the refinement ImplementsDispatch |
| MCProbeFaults | 1 request, 2 container ids, every fault | ResultHasFile, NoRequestGoesDown, ResultIsFinal: what survives whatever fails |
| MCProbeLiveness | 2 requests, 2 container ids, scaling every 2nd probe, no fault, fairness | EveryRequestFinishes, ConvertedExpires |
| RequestQueueFaults | 2 requests, room for 2, 2 faults, shutdowns and restarts, fairness | TypeOK, WaitingIsQueue, LoopCanFinish, the refinement ImplementsFifo, ProbeReturns, LostQueueReturns |
| MCDeployment | template.env and every pair of changes of it, 5 sets of tools, 25 bodies by both routes, long and failing probes | WorkersBoot, ChosenAsWanted, AppliedInTime, OfferedIsAccepted |

Runs that end in a counterexample, each a statement of the documentation or of
a comment the code does not keep (`findings` quotes it):

| run | statement | what happens |
|---|---|---|
| MCWorkerFfmpeg | ConvertedIsDownloadable | ffmpeg's wrapper resolves after two seconds, its file may come later or never |
| MCProbeDownload | AnnouncedIsDownloadable | a polled "converted" is told to clients before the file is fetched: the download answers 404 |
| MCProbeLost | NothingLost | a request whose POST to the worker fails is logged and gone |
| MCProbeErroneousTtl | FinishedExpires | the entry of an erroneous request never expires, as it has no file to delete |

**Bounds.** Three requests on the worker let one run, one wait and one be
retried behind it, so orders can go wrong; two tries have a first attempt, a
retry and the exhausted one. In the scaler, 9 requests exceed the capacity 8 of
all containers, and 2 tasks make ceilings differ from floors. In MCProbeSafety, two
tasks per worker distinguish "room for one" from "idle", three container ids
allow a replacement while an unhealthy container is still there (a container id
is used again when its container and its worker are gone); every probe scales there,
and MCProbeLiveness, with two probes per application, has probes with and without. Of
the faults under which all it
checks holds it has the two that send a request back or keep it: "refuse" would nearly
double its states and "poll" would add none, and both are covered by MCProbeFaults and
by the proofs. The two losses of RequestDispatch need other faults and requests without
a format: they are left to the proof of the refinement. `MaxQueue` bounds the queue: in
MCProbeSafety and MCProbeLiveness it equals the number of requests and is never
hit, since ExactlyOnePlace allows no second copy; in MCProbeFaults copies arise and
it cuts the behaviours with more than two of them in the queue. `MaxPending` bounds
the load of the scaler. In RequestQueue two requests have an order, `MaxRoom` 2 lets
the loop stop for either reason, and `MaxFaults` 2 lets a fault hit the recovery
from another; each request is posted once. In MCDeployment the changes are one
value for each case a parser tells apart, pairs let two programs' defaults and
checks meet, three extensions suffice for a source, a target and a format only one
tool knows, and one request is posted since none changes what is read. `MaxLate`, 3,
bounds the ticks that probes lose: with the intervals of template.env, 30 s and 10 s,
it is a whole round lost to a failing due probe, or three ticks to long ones. Probes are
followed while there is no worker, and a worker is started only before the first probe
(`BetweenRounds`), since neither looks at what the other writes.

**Deadlock** is checked except in the worker runs (ids are used once, so the
worker rests when all are settled, and it may end), in MCProbeFaults (the process may exit during
launch, and `MaxQueue` may block a re-dispatch) and in MCDeployment (a service
that refuses its configuration exits).

**Symmetry** is used in runs without liveness properties only; requests and
containers are interchangeable. The order of workers is state (`place`), not an
order on ids.

**Fairness.** Worker: weak fairness of `Scheduled(id)`: a pending write
returns, an ffmpeg command is issued, a timer fires and `kill` returns. Nothing is
assumed of external processes, so only wrappers with a timer settle: MCWorkerLiveness has no
imagemagick request, because `gm` may hang for ever. Redis-service: weak fairness
of `ProbeStep` (the interval fires and awaited calls return, as no fault makes them
hang), of FileOpens (a file is opened in the end), of the boot of each container, and of
the jobs of each worker, which `EveryRequestSettles` justifies for workers that have
not ended; one that has is to the redis-service what the faults "sick" and "dead" are,
and the liveness run has no faults. Actions of clients have no fairness. GrowsOld
has none either: ConvertedExpires speaks of results already old.
RequestQueue: weak fairness of Boot (docker restarts the service), of ProbeStep (the
interval fires, and redis answers or the timeout does) and of Ends (a closed process
with nothing to do is over). Nobody has to send, to quit or to lose anything.

MIN_WORKER_CONTAINERS is 1 in the liveness run: with 0 and two tasks per container
the code can start a container for a request and remove it, still idle, at the next
application, for ever (auto-scaler/src/index.ts:154), and EveryRequestFinishes fails.
Nor does it hold with the fault "refuse" (see section 6).

## 4. Proofs

All are safety properties, step properties or refinements, proved from an inductive
invariant `I` with `Init => I`, `I /\ [Next]_vars => I'` and `I => Property`, for all
values of the constants that satisfy the named assumptions of the modules: any
number of requests and containers, any limits, any bound on queue, load or faults.
A hypothesis before the specification (`H => (Spec => ...)`) is a condition on the
constants the code does not check or the environment may break; each is named
below, with what happens without it. The invariants were checked by TLC first.

**The worker** (ConversionService_proof).

- TypeCorrect, NoLostWakeups, QueueAndLogAgree: `IInv == TypeOK /\ NoLostWakeup /\
  OneStory /\ LoggedOnce /\ EndedForgets`. LoggedOnce (an id that has not been logged
  has no log entry) is needed because OneStory would break if a new id were already
  queued, EndedForgets (a worker that has ended has nothing queued, logged or
  running) because nothing may start again in it.
  The heart is `StartNextEstablishes`: whatever queue and log that fit each other
  `update()` is called with, it ends in a state where they fit, including the chain
  of exhausted entries. It holds with input files that vanish.
- InputsLiveUntilSettled, WorkerKeepsPromise (ImplementsLifecycle), WaitersHavePosition:
  `LInv == IInv /\ TriesFit /\ InputKept`. TriesFit bounds the retries and ties them
  to the status: without it GiveUp of the lifecycle, which needs all attempts used,
  could not be shown. InputKept adds that a request told as waiting is in the queue
  (Queued). Every step is one of three changes of queue and log, with one chain of
  `update()` behind it (`Changes`); `StepChanges` shows that once and the theorems
  follow from it without looking at single actions. Hypothesis `~InputMayVanish`:
  when an input is deleted from outside after the conversion, the catch writes "in
  queue" over "converted", and all three fail (section 6).
- PositionsOnlyShrink: from `IInv` alone, as entries are only taken in front and
  put behind.
- AnnouncedAreServed: `ResultsWritten` (the output of a converted request of unoconv is
  there), whatever vanishes and whether or not the worker has ended. It is not claimed
  of the other two wrappers, for which it is false (section 6).
- WorkerKeepsPromise also says when a worker may forget: `ProcessesFit` (ffmpeg
  processes belong to requests of ffmpeg that are processed or converted) shows that
  whoever ends the worker is an attempt, running or announced, of ffmpeg or unoconv.

**The scaling policy** (ScalingPolicy_proof, AutoScaler_proof): TypeCorrect,
NeverExceedsMax, NeverBothDirections, StartsLeast, RemovalKeepsMinimum. StatusFits
(what a status starts still fits under the maximum when it is applied) is what makes
AtMostMax inductive: it holds since between a status and its application containers
only disappear. StartsLeast rests on `CeilDivExceeds`: the ceiling of a/b is
more than t exactly when t bins of size b cannot hold a. The hypothesis
`LimitsOrdered`, MIN <= MAX, is not checked by the code: with MIN > MAX and no load
it starts MIN containers. RemovalKeepsMinimum also shows that the remove
amount, which adds requests to containers, is always 0 or running - MIN.

**The redis-service whatever fails** (RedisService_proof), for every set of faults,
with no hypothesis:

- WorkersNeverOverloaded. WorkerCapacity is not inductive: `PlanHasRoom` says every
  worker planned for a popped request has room for it and is planned once. It is
  established by `LeastLoadedHaveRoom`: the n least loaded workers have room
  whenever n workers have, a counting argument over the order by load and place; so
  it does not matter that the code counts the healthy workers with room and picks
  among all of them.
- TypeCorrect, ResultsHaveFile, ResultsAreFinal, NoRequestsGoDown: `FInv` adds PlacesFit
  (the places of the workers are distinct and at most their number; `DismissPlaces`
  shows that removing workers keeps them so, and so that no place gets negative),
  CheckFits (which requests of which unhealthy workers the health check has already
  put back; NoRequestGoesDown needs it) and ResultsFit (a finished or collected
  request has no input file any more, so nothing collects it again; ResultIsFinal
  needs it). ResultsHaveFile says that the file is in `output` or `opening`: neither the
  TTL nor the removal of orphans gets in between. That `probe` stays below ProbesPerApply needs every way a probe can end to
  reset the counter.

**The redis-service while docker and redis obey** (ScalingIsBounded and WorkersAreListed
in RedisService_proof, the others in RedisServiceSafety_proof). No hypothesis is
stronger than needed: with any of the faults it excludes TLC finds the property
violated on a small instance.

- ScalingIsBounded (AtMostMax of the whole probe), if docker obeys and nobody else
  removes containers (`EngineObeys`: no faults "docker", "vanish"), and MIN <= MAX.
  EngineFits says the workers are the containers docker lists, but for a first probe
  that has not removed an earlier run's and for a process that has ended;
  RoomToStart says `toStart` still fits when it is applied.
- WorkersAreListed (WorkersAreContainers), NeverTwice (AtMostOnePlace), InputsAreKept,
  FinishedAreServed, if redis obeys as well (`ProbesEnd`: no fault "redis"), so that no
  probe throws. Workers may be unhealthy or dead, refuse connections and requests,
  polls and downloads may fail, requests may lack their format. A redis command that
  fails between two places leaves a request in both, and its input is deleted while
  the other copy waits. `SInv` adds PhaseFits (what the probe holds belongs to the place
  in the probe it is at, what it plans or fetches is on a worker, and the requests of a
  worker have different ids) and ClientFits. The number of copies of a request is
  Active (queue, hands, workers) + collected + done, and each action moves one unit
  between them, or drops it. FinishedAreServed needs WaitingFits besides: an id in
  `requestsInQueue` is in the queue, as that map would hide a result. Of the file routes
  it says what the code can keep: from the moment the file is opened until the entry
  expires they hand it out, complete or not. The routes are not
  taken for granted: RestApi_proof shows that each GET is taken by one route of the
  generated table, whatever the id is, and its answer is the controller's.
- EachRequestIsOnce (ExactlyOnePlace), under `Orderly`: besides, every worker answers a
  POST (no "dead", "boot"; MCProbeLost shows the loss) and every request names its
  format (section 6). It is a conjunct of `SInv`, `Orderly => ExactlyOnePlace`.
- RequestsAreDispatched (ImplementsDispatch), under `ProbesEnd` alone: what workers do
  and what requests lack only decides whether the losses of RequestDispatch happen.
  `DInv` adds to `SInv` that what the service knows of a result is what the worker made
  (KnownFits), that a stage is told by the one place a request is at (StageFits: each of
  the five kinds of places has a request exactly at that stage) and that there is one of
  everything (OneOfEach). StageFits and OneOfEach follow from the at most one copy in
  `SInv`. Each action then has a lemma that it is a legal step of the requests it
  touches and leaves the others as they are (`RestIsLegal`), and what it does to the
  queue is either nothing, joining at the end or leaving at the front. With a failing
  redis or docker command, or a container removed from outside, TLC finds a step that
  RequestDispatch forbids.

**The redis queue** (RequestQueue_proof): TypeCorrect, WaitingFollowsQueue,
LoopFindsRequests, QueueIsFifo, for any number of requests, any room and any number of
faults. To TypeOK, WaitingIsQueue and LoopCanFinish, `IInv` adds Control (a process that
starts has nothing popped and nothing noted, redis has no messages without a queue)
and SentOnce (a request that was not posted is neither queued nor handed out, and no
message is there twice). SentOnce is needed twice: `requestsInQueue.delete` takes
the entry of every copy, so a second copy would be queued without one; and
FifoQueue accepts a request only once. `QueueSteps` sums up what a step may do
to the queue (Sent, Taken, Dropped, Emptied, Untouched); the refinement and
SentOnce follow from it without looking at single actions.

**The deployment** (Deployment_proof): WorkersBootAlways, WrappersAreWanted,
StateIsAppliedInTime, OfferedAreAccepted, for any environment, any
reports of the tools, any bodies and any set of extensions. Assumed is the shape of the
data: values and file names are sequences of texts, texts of digits are natural
numbers, and no part of a file name, which is split at dots, begins with one.

- `DepInv` says what worker, clock and answer know: a worker has the environment the
  redis-service handed on and has ended exactly if it cannot start with it
  (WorkerFits), the counter of probes is never above ProbesPerStateApply and, with the
  lost ticks added, as far as those since the last application (ClockFits), and the answer is the
  worker's decision on the body as it was forwarded, a refused or lost body being one the
  code may confuse (AnswerFits).
- WorkersBoot rests on `HandedOn`: each variable and rule a worker reads is handed on
  with its value; and on AvailableAreKept to AvailableAreListed: the wrappers of both
  lists, without repetitions and those that have no path, are numbered without a
  gap. The first occurrence of a wrapper is a least number, so `LeastOfNaturals` (a
  non-empty set of naturals has a least element, from the well-foundedness of < on the
  naturals) stands at the beginning.
- ChosenAsWanted: `DecidedAsWanted` follows one request through the rules as the
  operator wrote them and as the worker reads them from what was handed on.
- AppliedInTime: `CeilingCovers` says that ProbesPerStateApply, the ceiling of s/h, is
  the least number of probes that lasts s; `FirstMultiple` that the test of the code,
  probeCount % ProbesPerStateApply = 0, is first true at that probe. So a state is never
  applied before s has passed, and without lost ticks not more than one tick after; a
  due probe that fails costs a round, a long one the ticks it meets. This is counted in
  ticks: a long probe applies the state later within its tick than a short one.
- OfferedIsAccepted: `PlainIsQueued` shows that neither route refuses a plain body, from
  `PostRoutes` in RestApi_proof. The attempt to prove this found the property
  wrong: it called a body plain that has no `filename`, which the legacy POST /conversion
  refuses with 422, since IConversionRequestBody requires it, and MCDeployment had no
  such body. It has one now, and `Plain` demands the required fields.

**Only model-checked.** Liveness (EveryRequestSettles, EveryRequestFinishes,
ConvertedExpires, ProbeReturns, LostQueueReturns), which rests on ENABLED and is out of
the prover's reach. Every other property of a passing run is proved. The properties of
the runs that end in a counterexample are false.

## 5. Not modelled

- What is in a file. RedisService knows the moment at which the file of a result is
  opened, but not whether it is empty, partial, complete, cut off because the worker
  it comes from was removed as idle, or the text of an error answer
  (redis/src/util.ts:97, 105). No property promises any of it.
- The removal of containers by `quit`. Those a probe starts meanwhile are not in
  its list and stay; the next start removes them as dangling (CheckHealth).
- Pulling the image before the first container (checkImage): it has no effect but
  the time it takes and its failure, which is a failure of createContainer.
- pingRandomWorker, getRuleShape and getCorrectWrapperWithActiveRuleSet, which
  nothing calls; the ffmpeg capabilities, which list what the tool prints; the
  swagger pages; logging; the generated API client, of which only types are used.
- A crash of RedisService keeps nothing: Init covers its restart by allowing
  containers of an earlier run.

External programs (docker, redis and rsmq, the conversion tools, clients) are
modelled from how the code uses them.

## 6. Further disagreements seen

Met while modelling, without a run of their own.

Worker:

- A failing conversion of ffmpeg does not fail a request but ends the worker: the
  command has no listener for `'error'` (conversion-service/src/service/ffmpeg/index.ts:54),
  and a child process of unoconv has none either (unoconv.ts:47). All that worker holds
  is lost, and the redis-service puts it back only once docker reports the container
  as unhealthy.
- Each ffmpeg command is run twice, by `save()` and by `run()`
  (conversion-service/src/service/ffmpeg/index.ts:61): two processes write one file.
- gm writes a source of several pages to files named after the pages
  (imagemagick.ts:37); the request is announced as converted, and neither route finds
  its file. AnnouncedIsServed without its condition fails with such a request.
- `gm` has no timer (imagemagick.ts:37) although MAX_CONVERSION_TIME is documented
  as the maximum for a conversion; a hanging one stops the worker's queue.
- When deleteFile rejects after a successful conversion, the catch meant for
  failures writes "in queue" over "converted"
  (conversion-service/src/service/conversion/index.ts:83); the request is not
  queued, and its position is reported as 0.
- "In case of errors another wrapper will be used"
  (conversion-service/docs/env-vars.md:82): every retry uses the same one.
- MAX_CONVERSION_TRIES is not checked to be a number: with a text the comparison with
  NaN is never true, and a failing request is retried without end.
- The list of waiting requests counts positions from 0, the status from 1.

Probe:

- A worker answering with an error yields an undefined conversionId
  (redis/src/util.ts:74) that passes the test for null: the request stays on
  that worker and is never finished.
- A request without the optional originalFormat is fetched and removed from its
  worker, then the deletion of its input, looked for under the wrong name, rejects
  (redis/src/worker/index.ts:112): it is never finished, and its result is deleted as
  an orphan in the same probe. With `WithoutFormat` not empty ExactlyOnePlace fails.
- Between popRequest and addRequestToWorker, and between removal from the worker
  and `finishedRequest.set`, GET answers 404 for a live request.
- "A container is considered idle if it has 0 requests assigned to it and is fully
  booted" (src/README.md:46-48): the number of requests to forward comes from healthy
  workers, the workers they go to are the least loaded, booted or not
  (redis/src/worker/index.ts:151); and booting containers are removed as idle.
- "requests are only forwarded to containers with no requests" (src/README.md:86): a
  worker is filled up to TASKS_PER_CONTAINER.
- MIN_WORKER_CONTAINERS is the "number of containers that will always run"
  (src/README.md:82): with requests pending the minimum is ignored
  (auto-scaler/src/index.ts:129).
- The worker of a container that was removed from outside stays in `workers`:
  its requests never finish, it counts as free, requests sent to it are lost, and
  a removal of idle workers that includes it throws (redis/src/service.ts:247,
  auto-scaler/src/docker/index.ts:166). With the fault "vanish" WorkersAreContainers
  fails.
- The HTTP status of a download is not looked at: an error answer is stored as the
  result (redis/src/util.ts:97).
- A download is not awaited (redis/src/util.ts:105): "converted" is told, and the file
  served, before it is opened and while it is written; the worker it comes from is idle
  by then and may be removed in the same probe, which cuts the file off.
- "How often the service will create/delete workers" (src/README.md) is not kept by a
  probe that throws when the state is due: it is counted all the same, and the next
  application is a whole interval later (redis/src/service.ts:438).
- `remainingConversions`, "the amount of outstanding conversions"
  (redis/src/api/rest/conversion/index.ts:129), counts finished ones as well.
- "The first call will ask every worker" (redis/src/service.ts:285): getFormats asks
  the first one, and caches for good whatever JSON it answers, errors included.

Queue:

- The pop loop's `resp === {}` is never true; an empty queue makes JSON.parse throw
  and the loop retries without end (redis/src/service.ts:466). LoopCanFinish shows that
  it takes a loss of counted requests to get there.
- A POST may be answered with an error although the request is queued and will be
  converted (redis/src/service.ts:102).
- A `quit` that fails, at deleting the queue for instance, has stopped the probes and
  leaves the API accepting requests nobody will look at, until the next signal.

Configuration:

- src/Dockerfile:11 sets a default list with a trailing comma: a worker that runs with
  it ends at start, as the empty name is no wrapper. The redis-service does not look
  into the lists.
- Lists of wrappers ignore case, values of rules do not: `imageMagick` is a wrapper in
  a list and none in a rule (conversion-service/src/config/index.ts:344).
- The example `CONVERT_PNG_TO_PDF_WITH` (conversion-service/docs/env-vars.md:73) has
  neither of the two forms of a rule: it is neither handed to the workers nor matched.
- conversion-service/src/enum.ts:7 gives CONVERT_FROM_X_WITH as the form of a rule
  that the code reads as CONVERT_TO_X_WITH.
- With an interval of 0 the state is never applied (redis/src/service.ts:401).

## 7. Plan

Done: the worker with its end, its lifecycle and its API; the scaling policy; the
probe, its promise to each request and its API; the redis queue with launch and
shutdown; the configuration, the pacing of the probes and the way of a POST; proofs of
every safety property and of every refinement that a run checks.
Left: what is in a downloaded file, that is partial files while the pipe of fetchFiles
runs, removals that cut it off (redis/src/util.ts:105) and what an error answer
leaves in it; a probe whose faults include a worker that has ended, for liveness.
