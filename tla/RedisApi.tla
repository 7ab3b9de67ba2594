--------------------------------- MODULE RedisApi ---------------------------------
(***************************************************************************)
(* What clients of the redis-service are told: its controllers on the      *)
(* state of RedisService.  No answer changes that state, so the answers    *)
(* are operators, and the properties say what every client may see at any  *)
(* time.                                                                   *)
(***************************************************************************)
EXTENDS RedisService, RestApi

\* assertStatus: what is no status is told as "erroneous".
AssertStatus(known) == IF known = "text" THEN "erroneous" ELSE known

NotFound == Returns(404, Json(<<"NotFound">>))

\* Without v2 the answer holds the result, and a missing file is caught.
GetConvertedFile(id, isV2Request) ==
  CASE ReportedStatus(id) = "unknown" -> NotFound
    [] ReportedStatus(id) = "converted" /\ ~isV2Request ->
         IF id \in output THEN Returns(0, Json(<<"converted", id>>)) ELSE NotFound
    [] OTHER -> Returns(0, Json(<<AssertStatus(ReportedStatus(id))>>))

GetConvertedFileDownload(id) ==
  CASE ReportedStatus(id) = "unknown" -> NotFound
    [] ReportedStatus(id) = "converted" ->
         IF id \in output THEN Returns(0, Stream(id)) ELSE NotFound
    [] OTHER -> Returns(0, Json(<<ReportedStatus(id)>>))

\* The requests of the workers and the finished ones; remainingConversions
\* counts all of them together with the queue.
Conversions ==
  {[id |-> a[2].id, of |-> a[1], status |-> AssertStatus(a[2].known)] : a \in Assigned}
    \cup {[id |-> id, of |-> "finishedRequest", status |-> finished[id]] :
            id \in {i \in Requests : finished[i] # "none"}}

GetConversionQueueStatus ==
  Returns(0, Json([conversions          |-> Conversions,
                   remainingConversions |-> Cardinality(Conversions) + Len(queue)]))

\* GET /ping: hasWorker
GetPingResponse ==
  IF Members # {} THEN Returns(200, Json(<<"pong">>)) ELSE Returns(503, Json(<<"NoWorkerAvailable">>))

\* The conversion routes and ping; the others do not look at this state.
Outcome(request) ==
  LET method == RouteOf(request).handler
  IN CASE method = "getConvertedFile" -> GetConvertedFile(request.path[2], request.v2 = "true")
       [] method = "getConvertedFileDownload" -> GetConvertedFileDownload(request.path[2])
       [] method = "getConversionQueueStatus" -> GetConversionQueueStatus
       [] method = "getPingResponse" -> GetPingResponse

AnswerTo(path, v2) == Serve(Get(path, v2), Outcome(Get(path, v2)))

StatusAnswer(id)   == AnswerTo(<<"conversion", id>>, "true")
FileAnswer(id)     == AnswerTo(<<"conversion", id>>, "absent")
DownloadAnswer(id) == AnswerTo(<<"conversion", id, "download">>, "absent")
QueueAnswer        == AnswerTo(<<"conversion">>, "absent")

--------------------------------------------------------------------------------
(***************************************************************************)
(* Properties.                                                             *)
(***************************************************************************)
\* A finished request is told as what it is: neither an entry left behind in
\* requestsInQueue nor a copy on a worker hides the result, and GET /conversion
\* lists it once.  Once its file has been opened both file routes hand that out,
\* until the entry goes: whatever is in it, since nobody waits for the download.
FinishedIsServed ==
  \A id \in {i \in Requests : finished[i] # "none"} :
    /\ StatusAnswer(id) = [status |-> 200, data |-> Json(<<finished[id]>>)]
    /\ finished[id] = "converted" /\ id \notin opening =>
         /\ FileAnswer(id)     = [status |-> 200, data |-> Json(<<"converted", id>>)]
         /\ DownloadAnswer(id) = [status |-> 200, data |-> Stream(id)]
    /\ {c.of : c \in {c \in QueueAnswer.data.content.conversions : c.id = id}}
         = {"finishedRequest"}

\* "If status is 'converted' the resulting converted file will be available to
\* download", which it is not before it was fetched from the worker.
AnnouncedIsDownloadable ==
  \A id \in Requests :
    StatusAnswer(id).data = Json(<<"converted">>) => DownloadAnswer(id).status = 200
================================================================================
