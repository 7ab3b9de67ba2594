-------------------------------- MODULE WorkerApi --------------------------------
(***************************************************************************)
(* What a worker tells the redis-service, or anybody else who asks: its    *)
(* controllers on the state of ConversionService.                          *)
(***************************************************************************)
EXTENDS ConversionService, RestApi

\* getStatusById: a request that waits is told its position.
StatusOf(id) ==
  IF convLog[id].status = "inQueue" THEN <<"inQueue", QueuePosition(id)>>
                                    ELSE <<convLog[id].status>>

\* NoSuchConversionIdError, or a file that is not there.
NotFound == Returns(404, Json(<<"NotFound">>))

\* Without v2 the result is part of the answer.
GetConvertedFile(id, isV2Request) ==
  CASE convLog[id].status = "absent" -> NotFound
    [] convLog[id].status = "converted" /\ ~isV2Request ->
         IF output[id] # "none" THEN Returns(0, Json(<<"converted", output[id]>>)) ELSE NotFound
    [] OTHER -> Returns(200, Json(StatusOf(id)))

GetConvertedFileDownload(id) ==
  CASE convLog[id].status = "absent" -> NotFound
    [] convLog[id].status = "converted" ->
         IF output[id] # "none" THEN Returns(200, Stream(output[id])) ELSE NotFound
    [] OTHER -> Returns(200, Json(<<convLog[id].status>>))

\* The waiting requests, of which a position counts from zero here.
GetConversionQueueStatus ==
  Returns(0, Json([conversions          |-> {<<id, QueuePosition(id) - 1>> : id \in InQueue},
                   remainingConversions |-> Len(queue)]))

Outcome(get) ==
  LET method == RouteOf(get).handler
  IN CASE method = "getConvertedFile" -> GetConvertedFile(get.path[2], get.v2 = "true")
       [] method = "getConvertedFileDownload" -> GetConvertedFileDownload(get.path[2])
       [] method = "getConversionQueueStatus" -> GetConversionQueueStatus

AnswerTo(path, v2) == Serve(Get(path, v2), Outcome(Get(path, v2)))

\* getConversionStatus and getFileFromWorker of the redis-service.
StatusAnswer(id)   == AnswerTo(<<"conversion", id>>, "true")
FileAnswer(id)     == AnswerTo(<<"conversion", id>>, "absent")
DownloadAnswer(id) == AnswerTo(<<"conversion", id, "download">>, "absent")
QueueAnswer        == AnswerTo(<<"conversion">>, "absent")

--------------------------------------------------------------------------------
(***************************************************************************)
(* Properties.                                                             *)
(***************************************************************************)
Served(id) == DownloadAnswer(id).data.kind = "stream" /\ FileAnswer(id).status = 200

\* A result of unoconv announced as "converted" is handed out by both routes: the
\* status changes only after the file has been written.  unoconv is the wrapper of
\* which the worker writes the file itself; the others announce what gm or a timer
\* told them.
AnnouncedIsServed ==
  \A id \in Ids :
    StatusAnswer(id).data = Json(<<"converted">>) /\ Converter[id] = "unoconv" => Served(id)

\* The two places that tell the position of a waiting request find it in the
\* queue, and the list of all of them is as long as remainingConversions says
\* ("Add one to have 1-indexed queue").
InQueueHasPosition ==
  LET list == QueueAnswer.data.content
  IN /\ \A id \in InQueue : StatusAnswer(id).data.content[2] >= 1
     /\ Cardinality(list.conversions) = list.remainingConversions
     /\ {waiting[2] : waiting \in list.conversions} = 0 .. list.remainingConversions - 1

--------------------------------------------------------------------------------
(***************************************************************************)
(* Statements of the documentation that the code does not keep.            *)
(***************************************************************************)
\* "If status is 'converted' the resulting converted file will be available to
\* download": getConvertedFileDownload stats output/<id>.<format>.
ConvertedIsDownloadable ==
  \A id \in Ids : StatusAnswer(id).data = Json(<<"converted">>) => Served(id)
================================================================================
