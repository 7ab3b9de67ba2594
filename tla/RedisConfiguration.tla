--------------------------- MODULE RedisConfiguration ---------------------------
(***************************************************************************)
(* The configuration of the redis-service: what it accepts, and what it    *)
(* hands on to the worker containers.                                      *)
(***************************************************************************)
EXTENDS Environment

\* getConversionServiceConfigFromEnv
WorkerVariables ==
  {"FFMPEG_PATH", "IMAGE_MAGICK_PATH", "UNOCONV_PATH", "WEBSERVICE_PORT",
   "MAX_CONVERSION_TIME", "MAX_CONVERSION_TRIES",
   "CONVERTER_DOCUMENT_PRIORITY", "CONVERTER_MEDIA_PRIORITY"}

\* Mutant of ForwardedRules: only keys that start with CONVERT_TO.
ForwardedMonoRules(env) == {key \in DOMAIN env.rules : key.shape = "mono"}

\* Keys that start with CONVERT_TO or CONVERT_FROM, whatever their value.
ForwardedRules(env) == {key \in DOMAIN env.rules : key.shape \in {"mono", "multi"}}

\* Mutant of EnvVars: one variable is checked and not handed on.
EnvVarsWithoutTime(env) ==
  [vars  |-> [name \in WorkerVariables \ {"MAX_CONVERSION_TIME"} |->
                IF name = "WEBSERVICE_PORT" THEN <<"3000">> ELSE Value(env, name)],
   rules |-> [key \in ForwardedRules(env) |-> env.rules[key]]]

\* dockerConfig.envVars: the port inside the container is always 3000.
EnvVars(env) ==
  [vars  |-> [name \in WorkerVariables |->
                IF name = "WEBSERVICE_PORT" THEN <<"3000">> ELSE Value(env, name)],
   rules |-> [key \in ForwardedRules(env) |-> env.rules[key]]]

WorkerVariablesSet(env) == \A name \in WorkerVariables : ~Falsy(Value(env, name))

\* getAutoScalerConfigFromEnv
AutoScalerNumbers == {"TASKS_PER_CONTAINER", "MAX_WORKER_CONTAINERS", "MIN_WORKER_CONTAINERS"}

AutoScalerAccepted(env) ==
  /\ \A name \in AutoScalerNumbers : IsStringNumber(Value(env, name))
  /\ ~Falsy(Value(env, "CONTAINER_NAME_PREFIX"))
  /\ ~Falsy(Value(env, "CONTAINER_IMAGE"))
  /\ WorkerVariablesSet(env)

\* Boolean(JSON.parse(LOCAL_DEPLOYMENT)), which throws for other texts.
IsJson(value)  == IsStringNumber(value) \/ value \in {<<"true">>, <<"false">>}
IsLocal(env) ==
  Value(env, "LOCAL_DEPLOYMENT") \notin {Unset, Empty, <<"false">>, <<"0">>}

\* Either the socket, or host and port; parseInt("0") is no port.
Connects(env) ==
  LET host == Value(env, "DOCKER_HOST")
      port == NumberOr(Value(env, "DOCKER_PORT"), 0)
  IN ~Falsy(Value(env, "DOCKER_SOCKET_PATH")) \/ (~Falsy(host) /\ port # 0)

\* The constructor of DockerService wants a network unless the deployment is
\* local; the default replaces an unset variable, but no empty one.
HasNetwork(env) == IsLocal(env) \/ Value(env, "DOCKER_ROOT_NETWORK") # Empty

\* Numbers with a default: getSchedulerConfigFromEnv, getRedisConfigFromEnv.
OptionalNumbers ==
  {"HEALTH_CHECK_INTERVAL", "APPLY_DESIRED_STATE_INTERVAL", "REDIS_PORT", "FILE_TTL",
   "REDIS_TIMEOUT", "DOCKER_PORT"}

OptionalAccepted(env) ==
  /\ \A name \in OptionalNumbers :
       LET value == Value(env, name) IN Falsy(value) \/ IsStringNumber(value)
  /\ LET local == Value(env, "LOCAL_DEPLOYMENT") IN Falsy(local) \/ IsJson(local)

\* index.ts, RedisService and DockerService: otherwise the process exits.
Accepted(env) ==
  /\ IsStringNumber(Value(env, "WEBSERVICE_PORT"))
  /\ OptionalAccepted(env)
  /\ AutoScalerAccepted(env)
  /\ Connects(env)
  /\ HasNetwork(env)

SchedulerConfig(env) ==
  [healthCheckInterval      |-> NumberOr(Value(env, "HEALTH_CHECK_INTERVAL"), 10),
   stateApplicationInterval |-> NumberOr(Value(env, "APPLY_DESIRED_STATE_INTERVAL"), 30)]

\* Mutant of ProbesPerStateApply: the quotient is rounded down.
ProbesRoundedDown(config) == config.stateApplicationInterval \div config.healthCheckInterval

\* Math.ceil(stateApplicationInterval / healthCheckInterval)
ProbesPerStateApply(config) ==
  (config.stateApplicationInterval + config.healthCheckInterval - 1)
    \div config.healthCheckInterval

\* A state that is due: with an interval of zero the remainder is NaN or the
\* count itself, and the state is never applied.
ShouldApplyState(config, probeCount) ==
  /\ config.healthCheckInterval # 0
  /\ ProbesPerStateApply(config) # 0
  /\ probeCount % ProbesPerStateApply(config) = 0
================================================================================
