------------------------------- MODULE Deployment -------------------------------
(***************************************************************************)
(* One environment and two programs: the redis-service reads it, hands a   *)
(* part of it to the worker containers, and paces its probes with it; a    *)
(* worker configures itself from what it is handed, and chooses a wrapper  *)
(* for every request that a client posts and the service forwards.         *)
(***************************************************************************)
EXTENDS RedisConfiguration, Forwarding

CONSTANTS Deployments,  \* records [env, tools] of what may be set and installed
          Bodies,       \* what clients post
          MaxLate       \* bound on the ticks by which a state is late

\* Values are texts split at commas, and names are texts split at dots.
ASSUME DeploymentsAssumption ==
  \A d \in Deployments : \A name \in DOMAIN d.env.vars : d.env.vars[name] \in Seq(STRING)
ASSUME BodiesAssumption ==
  \A body \in Bodies : /\ body.name \in Seq(STRING)
                       /\ \A i \in DOMAIN body.name : body.name[i] # ".png"

ASSUME MaxLateAssumption == MaxLate \in Nat

VARIABLES
  env,      \* process.env of the redis-service
  tools,    \* reports of the tools in the image of the worker
  service,  \* the redis-service: "off", "exited" or "up"
  worker,   \* a worker container: "none", "up", "exited" at start, or "crashed" later
  wenv,     \* its process.env
  formats,  \* cachedFormats of the redis-service; an error that is cached has none
  answer    \* what became of the latest request

VARIABLES
  probeCount, \* of start(): the number of the probe that runs or comes next, modulo
              \* ProbesPerStateApply
  stage,      \* of the probe that runs: "none", "running", or "applied"
  since,      \* ticks of the interval since the state was applied last
  late        \* how many of them were lost: a tick for every one that met a running
              \* probe, and all of the round for a probe that failed when it was due

clock == <<probeCount, stage, since, late>>
vars == <<env, tools, service, worker, wenv, formats, answer, clock>>

NoAnswer == [result |-> "none"]

Init ==
  /\ \E d \in Deployments : env = d.env /\ tools = d.tools
  /\ service = "off" /\ worker = "none"
  /\ formats = [cached |-> FALSE, list |-> {}]
  /\ wenv = [vars |-> <<>>, rules |-> <<>>]
  /\ answer = NoAnswer
  /\ probeCount = 1 /\ stage = "none" /\ since = 0 /\ late = 0

--------------------------------------------------------------------------------
\* index.ts: the configuration is read before anything else, and initialize(),
\* checkHealth(), applyState() and start() follow.
StartService ==
  /\ service = "off"
  /\ service' = IF Accepted(env) THEN "up" ELSE "exited"
  /\ UNCHANGED <<env, tools, worker, wenv, formats, answer, clock>>

Config == SchedulerConfig(env)

(***************************************************************************)
(* The interval of start(), counted in its ticks.                          *)
(***************************************************************************)
others == <<env, tools, service, worker, wenv, formats, answer>>

\* Where ProbesPerStateApply makes no sense the state is never applied, and its
\* probes are left out.
Paced == Config.healthCheckInterval # 0 /\ ProbesPerStateApply(Config) # 0

\* Bound: probes are followed as long as there is no worker, and workers are
\* started before the first probe; neither looks at what the other writes.
BetweenRounds == stage = "none" /\ since = 0

Due == ShouldApplyState(Config, probeCount)

StartProbe ==
  /\ service = "up" /\ worker = "none" /\ Paced
  /\ stage = "none"
  /\ stage' = "running" /\ since' = since + 1
  /\ UNCHANGED <<probeCount, late, others>>

\* A tick meets a running probe (isRunning) and is lost.
SkipTick ==
  /\ stage # "none"
  /\ late < MaxLate
  /\ since' = since + 1 /\ late' = late + 1
  /\ UNCHANGED <<probeCount, stage, others>>

ApplyState ==
  /\ stage = "running" /\ Due
  /\ stage' = "applied" /\ since' = 0 /\ late' = 0
  /\ UNCHANGED <<probeCount, others>>

\* probeCount++, isRunning = false
Finish ==
  /\ stage' = "none"
  /\ probeCount' = IF Due THEN 1 ELSE probeCount + 1

\* What fails in a probe that has applied the state, or need not, is only logged.
EndProbe ==
  /\ stage = "applied" \/ (stage = "running" /\ ~Due)
  /\ Finish
  /\ UNCHANGED <<since, late, others>>

\* A due probe throws before the state is applied: the next one due is that of
\* the next round.
FailDueProbe ==
  /\ stage = "running" /\ Due
  /\ late + ProbesPerStateApply(Config) <= MaxLate
  /\ Finish
  /\ late' = late + ProbesPerStateApply(Config)
  /\ UNCHANGED <<since, others>>

--------------------------------------------------------------------------------
\* createContainer: the worker gets dockerConfig.envVars, and loads its
\* configuration before it listens.
StartWorker ==
  /\ service = "up" /\ worker = "none" /\ BetweenRounds
  /\ wenv' = EnvVars(env)
  /\ worker' = IF Boots(EnvVars(env)) THEN "up" ELSE "exited"
  /\ UNCHANGED <<env, tools, service, formats, answer, clock>>

\* getFormats: the first answer is cached, that of a worker whose tool failed as
\* well; only a worker that does not answer leaves nothing (an answer that another
\* tool gives before the crash is left out).
GetFormats ==
  /\ service = "up" /\ worker = "up" /\ ~formats.cached
  /\ IF \E w \in ConverterMap(wenv) : Crashes(tools, w)
       THEN worker' = "crashed" /\ UNCHANGED formats
       ELSE /\ formats' = [cached |-> TRUE,
                           list   |-> OfferedFormats(tools, AvailableWrappers(wenv))]
            /\ UNCHANGED worker
  /\ UNCHANGED <<env, tools, service, wenv, answer, clock>>

Paths == {<<"conversion">>, <<"conversion", "v2">>}

\* Bound: one request is posted, as none of them changes what is read here.
Posts == worker = "up" /\ answer = NoAnswer

\* The client gets an error, as a status or within an answer of status 200.
Reject(path, body) ==
  /\ Posts
  /\ PostAnswer(path, body) # Respond(Queued)
  /\ answer' = [result |-> "rejected", body |-> body]
  /\ UNCHANGED <<env, tools, service, worker, wenv, formats, clock>>

\* The client gets an id, and the request cannot be forwarded.
Lose(path, body) ==
  /\ Posts
  /\ PostAnswer(path, body) = Respond(Queued)
  /\ ~HasForm(body)
  /\ answer' = [result |-> "lost", body |-> body]
  /\ UNCHANGED <<env, tools, service, worker, wenv, formats, clock>>

\* The request gets to a worker, which converts it or not; a wrapper without
\* entry in converterMap fails like a failing conversion.
Forward(path, body) ==
  LET decision == Decision(tools, wenv, Request(Form(body)))
  IN /\ Posts
     /\ PostAnswer(path, body) = Respond(Queued)
     /\ HasForm(body)
     /\ answer' = [result |-> decision.result, wrapper |-> decision.wrapper, body |-> body]
     /\ worker' = IF decision.result = "crash" THEN "crashed" ELSE "up"
     /\ UNCHANGED <<env, tools, service, wenv, formats, clock>>

Next ==
  \/ StartService
  \/ StartProbe \/ SkipTick \/ ApplyState \/ EndProbe \/ FailDueProbe
  \/ StartWorker
  \/ GetFormats
  \/ \E path \in Paths, body \in Bodies :
       Reject(path, body) \/ Lose(path, body) \/ Forward(path, body)

Spec == Init /\ [][Next]_vars

--------------------------------------------------------------------------------
(***************************************************************************)
(* Properties.                                                             *)
(***************************************************************************)
\* Whatever the redis-service accepts is enough for its workers: one ends at
\* start only when a list names an unknown wrapper, which only workers look at.
WorkersBoot ==
  worker # "none" =>
    (worker # "exited" <=> \A name \in {"CONVERTER_DOCUMENT_PRIORITY", "CONVERTER_MEDIA_PRIORITY"} :
                         AllKnown(Value(env, name)))

\* What the client means: its format, or the extension of its file.
Meant(body) ==
  [from |-> IF Given(body, "originalFormat") /\ body.original # ""
              THEN Undotted(body.original) ELSE body.name[Len(body.name)],
   to   |-> Undotted(body.target)]

\* Bodies that both routes take and whose format the redis-service does not
\* confuse: an empty format is not replaced by that of the file, and of the parts
\* of a file name it takes the second, which need not be the last.
Plain(body) ==
  /\ RequiredFields \subseteq body.fields /\ body.fields \subseteq BodyFields
  /\ IF Given(body, "originalFormat") THEN body.original # "" ELSE Len(body.name) = 2

\* "A matching Multi-Format rule will always have highest priority", then a
\* Mono-Format rule, then the list, as the operator of the redis-service wrote
\* them: a worker knows all of them and only a rule can make it choose a wrapper
\* it does not have.
Wanted(request) ==
  LET multi == Rule(env, Multi(Upper[request.from], Upper[request.to]))
      mono  == Rule(env, Mono(Upper[request.to]))
      list  == Value(env, IF request.from \in MediaFormats THEN "CONVERTER_MEDIA_PRIORITY"
                                                           ELSE "CONVERTER_DOCUMENT_PRIORITY")
  IN CASE multi # Unset -> multi
       [] multi = Unset /\ mono # Unset -> mono
       [] OTHER -> <<TrimmedLowerCase(list[1])>>

ChosenAsWanted ==
  answer.result \in {"convert", "failed"} /\ Plain(answer.body) =>
    LET request == Meant(answer.body)
    IN /\ answer.result = "convert" => <<answer.wrapper>> = Wanted(request)
       /\ answer.result = "failed" =>
            /\ Wanted(request) \notin {<<w>> : w \in ConverterMap(wenv)}
            /\ \/ Rule(env, Mono(Upper[request.to])) # Unset
               \/ Rule(env, Multi(Upper[request.from], Upper[request.to])) # Unset

\* "How often the service will create/delete workers": with intervals other than
\* zero, and counted in ticks of the probes, the state is never applied more often
\* than that, whatever fails; and what has not been lost to long probes and failed
\* due ones is never more than one tick more than that.
AppliedInTime ==
  [][LET s == Config.stateApplicationInterval
         h == Config.healthCheckInterval
     IN service = "up" /\ s # 0 /\ h # 0 =>
          /\ ApplyState => since * h >= s
          /\ (since' - late' - 1) * h < s]_vars

\* What GET /formats of the redis-service offers is accepted, by whatever route and
\* however the client states the format of a file: as long as all tools answer,
\* neither program refuses a plain request between formats that were offered once.
\* Whether its conversion then succeeds is left open.
OfferedIsAccepted ==
  /\ answer.result \in {"rejected", "lost", "error", "unsupported", "crash"}
  /\ Plain(answer.body)
  => \/ \E w \in Wrappers : ~Answers(tools, w) \/ Crashes(tools, w)
     \/ ~({Meant(answer.body).from, Meant(answer.body).to} \subseteq formats.list)
================================================================================
