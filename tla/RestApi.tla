--------------------------------- MODULE RestApi ---------------------------------
(***************************************************************************)
(* The HTTP side both programs share: the routes tsoa has generated (the   *)
(* two tables are the same), the validation of arguments, and what becomes *)
(* of the result of a controller method.                                   *)
(*                                                                         *)
(* A request is a record [method, path, v2, fields]: its path as a         *)
(* sequence of segments, the value of the query parameter v2, and the      *)
(* names of the fields in its body or form.                                *)
(***************************************************************************)
EXTENDS Naturals, Sequences

Id == ":conversionId"

Route(method, path, handler, arguments) ==
  [method |-> method, path |-> path, handler |-> handler, arguments |-> arguments]

ConversionRoutes ==
  << Route("POST", <<"conversion", "v2">>, "convertFile", {}),
     Route("POST", <<"conversion">>, "convertFileLegacy", {"body"}),
     Route("GET", <<"conversion">>, "getConversionQueueStatus", {}),
     Route("GET", <<"conversion", Id>>, "getConvertedFile", {"query"}),
     Route("GET", <<"conversion", Id, "download">>, "getConvertedFileDownload", {}) >>

CapabilityRoutes ==
  << Route("GET", <<"capabilities">>, "getAvailableCapabilities", {}),
     Route("GET", <<"capabilities", "codecs">>, "getAvailableCodecs", {}),
     Route("GET", <<"capabilities", "encoders">>, "getAvailableEncoders", {}),
     Route("GET", <<"capabilities", "filter">>, "getAvailableFilter", {}),
     Route("GET", <<"capabilities", "formats">>, "getAvailableFormats", {}) >>

IndexRoutes ==
  << Route("GET", <<"ping">>, "getPingResponse", {}),
     Route("GET", <<"formats">>, "getSupportedConversionFormats", {}) >>

Routes == ConversionRoutes \o CapabilityRoutes \o IndexRoutes

\* express takes the first route that matches, where Id matches any segment.
Matches(route, request) ==
  /\ route.method = request.method
  /\ Len(route.path) = Len(request.path)
  /\ \A j \in DOMAIN request.path : route.path[j] \in {Id, request.path[j]}

Matching(request) == {i \in DOMAIN Routes : Matches(Routes[i], request)}

RouteOf(request) ==
  Routes[CHOOSE i \in Matching(request) : \A j \in Matching(request) : i <= j]

\* IConversionRequestBody, which allows nothing else.
BodyFields     == {"file", "filename", "originalFormat", "targetFormat"}
RequiredFields == BodyFields \ {"originalFormat"}

\* getValidatedArgs; the form of a multipart request is not validated.
ArgumentsValid(request) ==
  LET arguments == RouteOf(request).arguments
  IN /\ "query" \in arguments => request.v2 \in {"absent", "true", "false"}
     /\ "body" \in arguments => /\ RequiredFields \subseteq request.fields
                                /\ request.fields \subseteq BodyFields

--------------------------------------------------------------------------------
\* What a controller method leaves: the status it has set, 0 for none, and its
\* result, whose `kind` is "json" or "stream"; or it has thrown.
Returns(status, data) == [thrown |-> FALSE, status |-> status, data |-> data]

Json(content) == [kind |-> "json", content |-> content]
Stream(file)  == [kind |-> "stream", content |-> file]

\* handleError: an error is a result like any other, its code a number in it.
HandledError == Returns(0, Json(<<"error">>))

\* handleMultipartFormData rejects a form without a file.
FormAccepted(request) == "file" \in request.fields

\* promiseHandler and returnHandler: a stream is piped, whatever status was set.
Respond(outcome) ==
  [status |-> IF outcome.data.kind = "stream" \/ outcome.status = 0 THEN 200
                                                                   ELSE outcome.status,
   data   |-> outcome.data]

\* The routes and the middlewares behind them; `outcome` is what the controller
\* method of the route would leave.
Serve(request, outcome) ==
  CASE Matching(request) = {} -> [status |-> 404, data |-> Json(<<"NotFound">>)]
    [] Matching(request) # {} /\ ~ArgumentsValid(request) ->
         [status |-> 422, data |-> Json(<<"ValidationFailed">>)]
    [] OTHER -> IF outcome.thrown
                  THEN [status |-> 500, data |-> Json(<<"InternalServerError">>)]
                  ELSE Respond(outcome)

Get(path, v2) == [method |-> "GET", path |-> path, v2 |-> v2, fields |-> {}]
================================================================================
