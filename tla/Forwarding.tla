-------------------------------- MODULE Forwarding --------------------------------
(***************************************************************************)
(* The way of a POST through both programs: a client's body, the file name *)
(* and the formats the redis-service makes of it, the form it posts to a   *)
(* worker, and what the worker answers.                                    *)
(*                                                                         *)
(* A body is a record [fields, name, original, target]: the names of its   *)
(* fields, the file name as the parts between its dots, and the two        *)
(* formats, which count only when they are among the fields.               *)
(***************************************************************************)
EXTENDS RestApi, ConversionFormats, WorkerConfiguration

Given(body, field) == field \in body.fields

\* getExt: the extension of the stored file is originalFormat, unless that is
\* missing or empty, or else the one of the file name; InvalidFormatError
\* without either.
HasExt(body) == (Given(body, "originalFormat") /\ body.original # "") \/ Len(body.name) > 1

Queued == Returns(0, Json(<<"conversionId">>))

\* Both routes of POST in the redis-service.
ConvertFile(post, body) == IF FormAccepted(post) /\ HasExt(body) THEN Queued ELSE HandledError

ConvertFileLegacy(body) == IF HasExt(body) THEN Queued ELSE HandledError

PostAnswer(path, body) ==
  LET post == [method |-> "POST", path |-> path, v2 |-> "absent", fields |-> body.fields]
  IN Serve(post, IF RouteOf(post).handler = "convertFile" THEN ConvertFile(post, body)
                                                          ELSE ConvertFileLegacy(body))

\* forwardRequestToWorker: without a target format there is no form.
HasForm(body) == Given(body, "targetFormat")

\* Mutant of Form: the extension of the file name comes first.
FormByName(body) ==
  [from |-> IF Len(body.name) > 1 THEN body.name[2] ELSE body.original, to |-> body.target]

\* split(".")[1] is what follows the first dot.
Form(body) ==
  [from |-> IF Given(body, "originalFormat") THEN body.original ELSE body.name[2],
   to   |-> body.target]

\* processConversionRequest takes the dot off a format.
Undotted(format) == IF format = ".png" THEN "png" ELSE format

Request(form) == [from |-> Undotted(form.from), to |-> Undotted(form.to)]

\* The worker's answer to the form: the wrapper that converts, or why none does.
Decision(tools, env, request) ==
  LET supports == SupportsConversion(tools, request.from, request.to)
      wrapper  == DetermineConverter(env, request)
  IN CASE supports # "supported" -> [result |-> supports, wrapper |-> NoWrapper]
       [] supports = "supported" /\ wrapper \in ConverterMap(env) ->
            [result |-> "convert", wrapper |-> wrapper]
       [] OTHER -> [result |-> "failed", wrapper |-> wrapper]
================================================================================
