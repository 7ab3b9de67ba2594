--------------------------- MODULE ConversionService ---------------------------
(***************************************************************************)
(* The conversion worker: ConversionService on top of ConverterService and *)
(* the ConversionQueue singleton, with the three converter wrappers.       *)
(*                                                                         *)
(* Node runs one callback at a time and drains the microtasks it leaves    *)
(* before the next one, so one action is one callback (a finished write, a *)
(* process event, a timer) together with every continuation it resumes.    *)
(* An 'error' event nobody listens to is an uncaught exception: it ends    *)
(* the process, and nothing starts it again (WorkerEnds).                  *)
(***************************************************************************)
EXTENDS Naturals, Sequences, FiniteSets

CONSTANTS Ids,             \* conversion ids (uuids)
          MaxTries,        \* config.conversionMaximaConfiguration.conversionTries
          Converter,       \* [Ids -> wrapper determineConverter picks for the id]
          InputMayVanish,  \* may an input file disappear behind the worker's back?
          NoFile           \* null in currentlyConverting

Entries == [id : Ids, retries : Nat]
Converters == {"unoconv", "ffmpeg", "imagemagick"}

ASSUME MaxTriesAssumption == MaxTries \in Nat
ASSUME ConverterAssumption == Converter \in [Ids -> Converters]
ASSUME VanishAssumption == InputMayVanish \in BOOLEAN
ASSUME NoFileAssumption == NoFile \notin Entries

VARIABLES
  up,            \* does the worker process still run?
  request,       \* the HTTP request: "new", "writing", "refused", "logged", or
                 \* "lost" when the worker has ended after the answer
  queue,         \* ConversionQueue.conversion: Seq([id, retries])
  convLog,       \* ConversionQueue.convLog, "absent" for an id without entry
  isConverting,  \* ConversionQueue.isConverting
  current,       \* ConversionQueue.currentlyConverting: an entry or NoFile
  stage,         \* what the running wrapper waits for
  ffmpegs,       \* [Ids -> ffmpeg processes still running for the id]
  input,         \* ids with a file under input/
  output         \* [Ids -> what is under output/ for the id]

vars == <<up, request, queue, convLog, isConverting, current, stage,
          ffmpegs, input, output>>

Statuses == {"absent", "inQueue", "processing", "converted", "erroneous"}

EmptyLog == [id \in Ids |-> [status |-> "absent", retries |-> 0]]

Init ==
  /\ up = TRUE
  /\ request = [id \in Ids |-> "new"]
  /\ queue = <<>>
  /\ convLog = EmptyLog
  /\ isConverting = FALSE
  /\ current = NoFile
  /\ stage = "idle"
  /\ ffmpegs = [id \in Ids |-> 0]
  /\ input = {}
  /\ output = [id \in Ids |-> "none"]

(***************************************************************************)
(* convertFile, called by update() while nothing is being converted, with  *)
(* queue q, log lg and input files f.  wrapConversion rejects an entry     *)
(* whose tries are used up before any I/O, so convertFile marks it         *)
(* erroneous, deletes its input and its finally calls update() again: the  *)
(* exhausted entries at the head go in the same turn, and the first other  *)
(* one is started.                                                         *)
(***************************************************************************)
\* Mutant of Exhausted: one try too many.
ExhaustedLate(entry) == entry.retries > MaxTries

Exhausted(entry) == entry.retries >= MaxTries

\* Mutants of GiveUp: a status nobody knows, and no status at all.
GiveUpAsFailed(lg, ids) ==
  [id \in Ids |-> IF id \in ids THEN [lg[id] EXCEPT !.status = "failed"] ELSE lg[id]]

GiveUpSilently(lg, ids) == lg

GiveUp(lg, ids) ==
  [id \in Ids |-> IF id \in ids THEN [lg[id] EXCEPT !.status = "erroneous"] ELSE lg[id]]

Start(entry, lg) ==
  /\ convLog' = [lg EXCEPT ![entry.id].status = "processing"]
  /\ isConverting' = TRUE
  /\ current' = entry
  /\ stage' = IF Converter[entry.id] = "ffmpeg" THEN "starting" ELSE "running"

Rest(lg) ==
  /\ convLog' = lg
  /\ isConverting' = FALSE
  /\ current' = NoFile
  /\ stage' = "idle"

\* Mutant of Enqueue: unshift.
EnqueueFirst(q, entry) == <<entry>> \o q

\* conversion.push(...)
Enqueue(q, entry) == Append(q, entry)

HeadIds(q, k) == {q[j].id : j \in 1 .. k}

StartNext(q, lg, f) ==
  \E k \in 0 .. Len(q) :
    LET givenUp == HeadIds(q, k)
    IN /\ \A j \in 1 .. k : Exhausted(q[j])
       /\ queue' = SubSeq(q, k + 2, Len(q))
       /\ input' = f \ givenUp
       /\ \/ k = Len(q) /\ Rest(GiveUp(lg, givenUp))
          \/ k < Len(q) /\ ~Exhausted(q[k + 1]) /\ Start(q[k + 1], GiveUp(lg, givenUp))

(***************************************************************************)
(* POST /conversion: processConversionRequest.                             *)
(***************************************************************************)
\* supportsConversion holds: the file is being written to input/.
ReceiveRequest(id) ==
  /\ up /\ request[id] = "new"
  /\ request' = [request EXCEPT ![id] = "writing"]
  /\ UNCHANGED <<up, queue, convLog, isConverting, current, stage,
                 ffmpegs, input, output>>

\* UnsupportedConversionFormatError: nothing is stored.
RefuseRequest(id) ==
  /\ up /\ request[id] = "new"
  /\ request' = [request EXCEPT ![id] = "refused"]
  /\ UNCHANGED <<up, queue, convLog, isConverting, current, stage,
                 ffmpegs, input, output>>

\* writeFile failed; what it wrote stays.
WriteFails(id) ==
  /\ request[id] = "writing"
  /\ request' = [request EXCEPT ![id] = "refused"]
  /\ input' \in {input, input \cup {id}}
  /\ UNCHANGED <<up, queue, convLog, isConverting, current, stage,
                 ffmpegs, output>>

\* The queue's addToConversionQueue and the update() that follows it.
AddToConversionQueue(id) ==
  LET q  == Enqueue(queue, [id |-> id, retries |-> 0])
      lg == [convLog EXCEPT ![id] = [status |-> "inQueue", retries |-> 0]]
      f  == input \cup {id}
  IN /\ request[id] = "writing"
     /\ request' = [request EXCEPT ![id] = "logged"]
     /\ IF isConverting
          THEN /\ queue' = q /\ convLog' = lg /\ input' = f
               /\ UNCHANGED <<isConverting, current, stage>>
          ELSE StartNext(q, lg, f)
     /\ UNCHANGED <<up, ffmpegs, output>>

(***************************************************************************)
(* The ends of wrapConversion, each with the rest of convertFile: its      *)
(* catch, its finally and the update() there.                              *)
(***************************************************************************)
\* Mutant of Converted: no update() at the end.
ConvertedAndStops(id) ==
  /\ Rest([convLog EXCEPT ![id].status = "converted"])
  /\ input' = input \ {id}
  /\ UNCHANGED queue

\* Status "converted", then deleteFile(path); when the input is not there
\* deleteFile rejects and the catch block writes "inQueue" over the result.
Converted(id) ==
  LET status == IF id \in input THEN "converted" ELSE "inQueue"
  IN StartNext(queue, [convLog EXCEPT ![id].status = status], input \ {id})

\* Mutants of Failed: the retry is not logged; it is not counted at all; and the
\* input is deleted although another try follows.
FailedUnlogged(id) ==
  StartNext(Enqueue(queue, [id |-> id, retries |-> current.retries + 1]),
            [convLog EXCEPT ![id].status = "inQueue"], input)

FailedUncounted(id) ==
  StartNext(Enqueue(queue, current), [convLog EXCEPT ![id].status = "inQueue"], input)

FailedAndDeleted(id) ==
  StartNext(Enqueue(queue, [id |-> id, retries |-> current.retries + 1]),
            [convLog EXCEPT ![id] = [status |-> "inQueue", retries |-> current.retries + 1]],
            input \ {id})

\* The request goes to the back of the queue with one more retry, unless
\* addToConversionQueue itself finds that too many.
Failed(id) ==
  LET tries == current.retries + 1
  IN IF tries > MaxTries
       THEN StartNext(queue, [convLog EXCEPT ![id].status = "erroneous"], input \ {id})
       ELSE StartNext(Enqueue(queue, [id |-> id, retries |-> tries]),
                      [convLog EXCEPT ![id] = [status |-> "inQueue", retries |-> tries]],
                      input)

\* An uncaught exception: the process and its children end and take along what
\* is only in memory; uploads are cut off.  What is under input/ and output/ stays.
WorkerEnds ==
  /\ up' = FALSE
  /\ request' = [id \in Ids |-> CASE request[id] = "writing" -> "refused"
                                   [] request[id] = "logged"  -> "lost"
                                   [] OTHER                   -> request[id]]
  /\ queue' = <<>> /\ convLog' = EmptyLog
  /\ isConverting' = FALSE /\ current' = NoFile /\ stage' = "idle"
  /\ ffmpegs' = [id \in Ids |-> 0]
  /\ UNCHANGED <<input, output>>

\* The wrapper w of the current file waits at stage s.
Waits(id, w, s) == isConverting /\ current.id = id /\ Converter[id] = w /\ stage = s

(***************************************************************************)
(* unoconv: the process against the timer of MAX_CONVERSION_TIME, then     *)
(* the result is written to output/.                                       *)
(***************************************************************************)
\* Mutant of UnoconvExit: resolved before the result is saved.
UnoconvExitUnsaved(id) ==
  /\ Waits(id, "unoconv", "running")
  /\ Converted(id)
  /\ UNCHANGED <<up, request, ffmpegs, output>>

UnoconvExit(id) ==
  /\ Waits(id, "unoconv", "running")
  /\ stage' = "saving"
  /\ UNCHANGED <<up, request, queue, convLog, isConverting, current,
                 ffmpegs, input, output>>

\* spawn failed: 'error' is emitted, and only 'exit' has a listener.
UnoconvCannotStart(id) == Waits(id, "unoconv", "running") /\ WorkerEnds

\* The process could not convert: it printed to stderr.
UnoconvError(id) ==
  /\ Waits(id, "unoconv", "running")
  /\ Failed(id)
  /\ UNCHANGED <<up, request, ffmpegs, output>>

UnoconvTimeout(id) ==
  /\ Waits(id, "unoconv", "running")
  /\ stage' = "killing"
  /\ UNCHANGED <<up, request, queue, convLog, isConverting, current,
                 ffmpegs, input, output>>

\* kill -9 returned; it fails when the process has just ended, which is
\* reported the same way.
UnoconvKilled(id) ==
  /\ Waits(id, "unoconv", "killing")
  /\ Failed(id)
  /\ UNCHANGED <<up, request, ffmpegs, output>>

\* "exit" may come before the last of stdout, and the exit code is not looked
\* at: what is saved may be only a part.
UnoconvSaved(id) ==
  /\ Waits(id, "unoconv", "saving")
  /\ Converted(id)
  /\ \E o \in {"partial", "complete"} : output' = [output EXCEPT ![id] = o]
  /\ UNCHANGED <<up, request, ffmpegs>>

UnoconvSaveFails(id) ==
  /\ Waits(id, "unoconv", "saving")
  /\ Failed(id)
  /\ \E o \in {output[id], "partial"} : output' = [output EXCEPT ![id] = o]
  /\ UNCHANGED <<up, request, ffmpegs>>

(***************************************************************************)
(* imagemagick: gm writes the output file itself, without a timer.         *)
(***************************************************************************)
\* gm reported no error, and nobody looks at the file: pages of a source that has
\* several are written beside it (<id>-0.png), and what was there stays.
ImageMagickWritten(id) ==
  /\ Waits(id, "imagemagick", "running")
  /\ Converted(id)
  /\ \E o \in {output[id], "complete"} : output' = [output EXCEPT ![id] = o]
  /\ UNCHANGED <<up, request, ffmpegs>>

ImageMagickError(id) ==
  /\ Waits(id, "imagemagick", "running")
  /\ Failed(id)
  /\ \E o \in {output[id], "partial"} : output' = [output EXCEPT ![id] = o]
  /\ UNCHANGED <<up, request, ffmpegs>>

(***************************************************************************)
(* ffmpeg: the wrapper resolves two seconds after the command was issued,  *)
(* whatever the processes do.  The command is issued in the turn of Start; *)
(* a step of its own only adds interleavings.                              *)
(***************************************************************************)
\* save() runs the command, and so does the run() behind it: two processes write
\* one file.
FfmpegRuns(id) ==
  /\ Waits(id, "ffmpeg", "starting")
  /\ stage' = "running"
  /\ ffmpegs' = [ffmpegs EXCEPT ![id] = @ + 2]
  /\ UNCHANGED <<up, request, queue, convLog, isConverting, current, input, output>>

\* The command cannot be made: caught, and rejected.
FfmpegThrows(id) ==
  /\ Waits(id, "ffmpeg", "starting")
  /\ Failed(id)
  /\ UNCHANGED <<up, request, ffmpegs, output>>

FfmpegTimer(id) ==
  /\ Waits(id, "ffmpeg", "running")
  /\ Converted(id)
  /\ UNCHANGED <<up, request, ffmpegs, output>>

FfmpegWrites(id) ==
  /\ ffmpegs[id] > 0
  /\ output' = [output EXCEPT ![id] = "partial"]
  /\ UNCHANGED <<up, request, queue, convLog, isConverting, current, stage,
                 ffmpegs, input>>

\* Exit code 0: 'end', which nobody waits for.
FfmpegExit(id) ==
  /\ ffmpegs[id] > 0
  /\ ffmpegs' = [ffmpegs EXCEPT ![id] = @ - 1]
  /\ \E o \in {output[id], "complete"} : output' = [output EXCEPT ![id] = o]
  /\ UNCHANGED <<up, request, queue, convLog, isConverting, current, stage, input>>

\* Another exit code, or spawn failed: fluent-ffmpeg emits 'error', for which the
\* command has no listener.  The request may be announced by then.
FfmpegFails(id) == ffmpegs[id] > 0 /\ WorkerEnds

\* The environment: an input file is removed by somebody else.
InputVanishes(id) ==
  /\ InputMayVanish
  /\ id \in input
  /\ input' = input \ {id}
  /\ UNCHANGED <<up, request, queue, convLog, isConverting, current,
                 stage, ffmpegs, output>>

(***************************************************************************)
(* Steps the code schedules itself: file writes, commands, timers, kill.   *)
(***************************************************************************)
Scheduled(id) ==
  \/ AddToConversionQueue(id)
  \/ WriteFails(id)
  \/ UnoconvTimeout(id)
  \/ UnoconvKilled(id)
  \/ UnoconvSaved(id)
  \/ UnoconvSaveFails(id)
  \/ FfmpegRuns(id)
  \/ FfmpegThrows(id)
  \/ FfmpegTimer(id)

\* Steps of clients and of external processes.
External(id) ==
  \/ ReceiveRequest(id)
  \/ RefuseRequest(id)
  \/ UnoconvExit(id)
  \/ UnoconvCannotStart(id)
  \/ UnoconvError(id)
  \/ ImageMagickWritten(id)
  \/ ImageMagickError(id)
  \/ FfmpegWrites(id)
  \/ FfmpegExit(id)
  \/ FfmpegFails(id)
  \/ InputVanishes(id)

Next == \E id \in Ids : Scheduled(id) \/ External(id)

Spec == Init /\ [][Next]_vars

\* A pending write completes and a timer fires; nothing makes an external
\* process end.
FairSpec == Spec /\ \A id \in Ids : WF_vars(Scheduled(id))

--------------------------------------------------------------------------------
(***************************************************************************)
(* GET /conversion/{id} and GET /conversion.                               *)
(***************************************************************************)
Positions(id) == {p \in DOMAIN queue : queue[p].id = id}

\* findIndex(...) + 1: 0 when the id is not queued.
QueuePosition(id) ==
  IF Positions(id) = {} THEN 0
  ELSE CHOOSE p \in Positions(id) : \A r \in Positions(id) : p <= r

InQueue == {id \in Ids : convLog[id].status = "inQueue"}

Settled(id) == convLog[id].status \in {"converted", "erroneous"}

--------------------------------------------------------------------------------
(***************************************************************************)
(* Properties.                                                             *)
(***************************************************************************)
TypeOK ==
  /\ up \in BOOLEAN
  /\ request \in [Ids -> {"new", "writing", "refused", "logged", "lost"}]
  /\ queue \in Seq(Entries)
  /\ convLog \in [Ids -> [status : Statuses, retries : Nat]]
  /\ isConverting \in BOOLEAN
  /\ current \in Entries \cup {NoFile}
  /\ stage \in {"idle", "starting", "running", "saving", "killing"}
  /\ ffmpegs \in [Ids -> Nat]
  /\ input \subseteq Ids
  /\ output \in [Ids -> {"none", "partial", "complete"}]

\* No wake-up is lost: update() is called at the end of every conversion and
\* after every enqueue, so nothing waits in the queue while the worker is idle.
NoLostWakeup == ~isConverting => queue = <<>>

\* The log, the queue and the file being converted tell one story: the entry
\* in work is the only one "processing", an id is queued at most once, with the
\* retries the log shows, and only with status "inQueue".
OneStory ==
  /\ \A id \in Ids : convLog[id].status = "processing"
                        <=> isConverting /\ current.id = id
  /\ isConverting <=> current # NoFile
  /\ isConverting => convLog[current.id].retries = current.retries
  /\ \A p \in DOMAIN queue :
       /\ convLog[queue[p].id].status = "inQueue"
       /\ convLog[queue[p].id].retries = queue[p].retries
  /\ \A p, r \in DOMAIN queue : queue[p].id = queue[r].id => p = r

\* deleteFile(path) runs exactly when no attempt can follow: the input of a
\* request still to be tried is there, that of a settled one is gone.
InputLivesUntilSettled ==
  \A id \in Ids : /\ convLog[id].status \in {"inQueue", "processing"} => id \in input
                  /\ Settled(id) => id \notin input

\* While a request waits, the position it is told only gets smaller: a retry of
\* another request is put behind it.
PositionNeverGrows ==
  [][\A id \in Ids :
       /\ convLog[id].status = "inQueue"
       /\ convLog'[id] = convLog[id]
       => QueuePosition(id)' <= QueuePosition(id)]_vars

\* The worker keeps the promise of ConversionLifecycle: it forgets its requests
\* only when it ends, and an attempt of imagemagick does not make it end.
Lifecycle == INSTANCE ConversionLifecycle WITH
               Fragile  <- {id \in Ids : Converter[id] # "imagemagick"},
               status   <- [id \in Ids |-> convLog[id].status],
               attempts <- [id \in Ids |-> convLog[id].retries]

ImplementsLifecycle == Lifecycle!Spec

\* Every accepted request is eventually converted or given up, as long as no
\* wrapper can wait for ever, or the worker ends.
EveryRequestSettles ==
  \A id \in Ids : convLog[id].status \in {"inQueue", "processing"} ~> Settled(id) \/ ~up
================================================================================
