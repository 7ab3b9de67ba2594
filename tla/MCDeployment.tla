------------------------------ MODULE MCDeployment ------------------------------
(* Deployment with the environment of src/template.env, every single change    *)
(* and every pair of changes of it that the code treats differently; and with  *)
(* tools that report more or less than one expects.                            *)
EXTENDS Deployment

MCNumbers == "0" :> 0 @@ "1" :> 1 @@ "2" :> 2 @@ "3" :> 3 @@ "10" :> 10
               @@ "15" :> 15 @@ "30" :> 30 @@ "3000" :> 3000 @@ "3600" :> 3600 @@ "6379" :> 6379
               @@ "90000" :> 90000

Template ==
     "WEBSERVICE_PORT" :> <<"3000">> @@ "APPLY_DESIRED_STATE_INTERVAL" :> <<"30">>
  @@ "HEALTH_CHECK_INTERVAL" :> <<"10">> @@ "FILE_TTL" :> <<"3600">>
  @@ "MAX_WORKER_CONTAINERS" :> <<"10">> @@ "MIN_WORKER_CONTAINERS" :> <<"2">>
  @@ "CONVERTER_DOCUMENT_PRIORITY" :> <<"unoconv", "imagemagick", "ffmpeg">>
  @@ "CONVERTER_MEDIA_PRIORITY" :> <<"ffmpeg", "imagemagick", "unoconv">>
  @@ "MAX_CONVERSION_TIME" :> <<"90000">> @@ "MAX_CONVERSION_TRIES" :> <<"1">>
  @@ "FFMPEG_PATH" :> <<"path">> @@ "IMAGE_MAGICK_PATH" :> <<"path">>
  @@ "UNOCONV_PATH" :> <<"path">> @@ "REDIS_PORT" :> <<"6379">>
  @@ "REDIS_TIMEOUT" :> <<"15">> @@ "CONTAINER_NAME_PREFIX" :> <<"name">>
  @@ "CONTAINER_IMAGE" :> <<"name">> @@ "DOCKER_SOCKET_PATH" :> <<"path">>
  @@ "DOCKER_ROOT_NETWORK" :> <<"name">> @@ "TASKS_PER_CONTAINER" :> <<"3">>

\* One variable set to something else; the empty value stands for an unset
\* variable where the code does not tell them apart.
Required == {"WEBSERVICE_PORT", "FFMPEG_PATH", "IMAGE_MAGICK_PATH", "UNOCONV_PATH",
             "MAX_CONVERSION_TIME", "MAX_CONVERSION_TRIES", "CONTAINER_NAME_PREFIX",
             "CONTAINER_IMAGE", "TASKS_PER_CONTAINER"}
Lists == {<<"ffmpeg">>, <<"imageMagick", " unoconv">>, <<"unoconv", "">>, <<"">>}

Changes ==
       Required \X {<<"">>}
  \cup {"WEBSERVICE_PORT", "REDIS_PORT", "DOCKER_PORT", "MIN_WORKER_CONTAINERS"} \X {<<"text">>}
  \cup {"CONVERTER_DOCUMENT_PRIORITY", "CONVERTER_MEDIA_PRIORITY"} \X Lists
  \cup {"HEALTH_CHECK_INTERVAL", "APPLY_DESIRED_STATE_INTERVAL"}
         \X {<<"">>, <<"0">>, <<"15">>, <<"text">>}
  \cup {"LOCAL_DEPLOYMENT"} \X {<<"true">>, <<"false">>, <<"text">>}
  \cup {"DOCKER_SOCKET_PATH", "DOCKER_ROOT_NETWORK"} \X {<<"">>}

RuleChanges ==
  {Mono("PDF"), Multi("PNG", "PDF"), Other("PNG", "PDF"), Mono("pdf")}
    \X {<<"unoconv">>, <<"imageMagick">>, <<"">>}

Changed(vs, rs) ==
  [vars  |-> [name \in DOMAIN Template \cup {c[1] : c \in vs} |->
                IF \E c \in vs : c[1] = name THEN (CHOOSE c \in vs : c[1] = name)[2]
                                             ELSE Template[name]],
   rules |-> [key \in {c[1] : c \in rs} |-> (CHOOSE c \in rs : c[1] = key)[2]]]

MCEnvironments ==
  {Changed({c, d}, {}) : c, d \in Changes}
    \cup {Changed({c}, {r}) : c \in Changes, r \in RuleChanges}
    \cup {Changed({}, {r, q}) : r, q \in RuleChanges}
    \cup {Changed({<<"DOCKER_SOCKET_PATH", <<"">> >>, <<"DOCKER_HOST", <<"name">> >>,
                   <<"DOCKER_PORT", p>>}, {}) : p \in {<<"">>, <<"0">>, <<"3000">>}}

Installed(lines) == "ffmpeg" :> <<"png">> @@ "unoconv" :> lines
                      @@ "imagemagick" :> <<"png", "pdf">>

Healthy == Installed(<<"document", "pdf", "", "graphics", "png">>)

Reports ==
  {Healthy, Installed(<<"document">>), Installed(<<"pdf", "document", "odt">>),
   Installed(Failed), [Installed(<<"document", "odt">>) EXCEPT !["ffmpeg"] = Failed]}

MCDeployments ==
  [env : MCEnvironments, tools : {Healthy}]
    \cup [env   : {Changed({}, {})} \cup {Changed({<<list, l>>}, {}) :
                     list \in {"CONVERTER_DOCUMENT_PRIORITY", "CONVERTER_MEDIA_PRIORITY"},
                     l \in Lists},
          tools : Reports]

Body(fields, name, original, target) ==
  [fields |-> fields, name |-> name, original |-> original, target |-> target]

\* Complete bodies; and one thing wrong or unusual with each of the others.
MCBodies ==
  {Body(BodyFields, <<"file">>, from, to) : from, to \in {"pdf", "png", "odt", ".png"}}
    \cup {Body(BodyFields \ {"originalFormat"}, name, "", "pdf") :
            name \in {<<"file">>, <<"file", "png">>, <<"file", "pdf", "png">>}}
    \cup {Body(fields, <<"file", "png">>, "png", "pdf") :
            fields \in {BodyFields \ {"file"}, BodyFields \ {"targetFormat"},
                       BodyFields \ {"filename"}, BodyFields \cup {"more"}}}
    \cup {Body(BodyFields, <<"file", "png">>, "", "pdf"), Body(BodyFields, <<"file", "odt">>, "png", "pdf")}
================================================================================
