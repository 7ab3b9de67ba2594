------------------------------ MODULE RequestQueue ------------------------------
(***************************************************************************)
(* The redis queue behind RedisService: RedisWrapper around the library    *)
(* rsmq, the start and the end of the process, POST /conversion and the    *)
(* loop of the probe that takes requests off the queue.                    *)
(*                                                                         *)
(* One connection carries all commands, and redis answers in their order,  *)
(* so a command and the code that follows its answer are one action; two   *)
(* commands of one caller are two.                                         *)
(***************************************************************************)
EXTENDS Naturals, Sequences, FiniteSets

CONSTANTS
  Requests,  \* external conversion ids, one POST each
  MaxRoom,   \* bound on getForwardableRequestCount
  MaxFaults  \* bound on what goes wrong, losses of data included

ASSUME BoundsAssumption == MaxRoom \in Nat /\ MaxFaults \in Nat
ASSUME RequestsAssumption == IsFiniteSet(Requests)

VARIABLES
  exists,    \* redis has the queue
  messages,  \* its messages
  mode,      \* the process: "off", initialize(), "up", quit()
  waiting,   \* requestsInQueue
  api,       \* [Requests -> where POST /conversion is]
  pc,        \* where the probe is
  creating,  \* its getPendingMessagesCount creates the missing queue
  counted,   \* pendingRequests of forwardRequestsToIdleWorkers
  room,      \* forwardableRequestCount
  popped     \* requests popped and not forwarded yet

VARIABLES
  handed,    \* all requests the probe has popped, in that order
  lost,      \* requests that were in the queue when redis lost it or quit deleted it
  faults     \* how much has gone wrong

redis   == <<exists, messages>>
probe   == <<pc, creating, counted, room, popped>>
history == <<handed, lost, faults>>
vars == <<redis, mode, waiting, api, probe, history>>

Elements(s) == {s[i] : i \in DOMAIN s}

Least(m, n) == IF m < n THEN m ELSE n

\* rsmq has a connection to redis.
Connected == mode \in {"up", "quit", "clearing", "stranded"}

\* Mutant of Goal: the workers' room alone ends the loop.
AsManyAsRoom == room

Goal == Least(counted, room)

Init ==
  /\ exists \in BOOLEAN
  /\ messages = <<>>
  /\ mode = "off"
  /\ waiting = {}
  /\ api = [id \in Requests |-> "new"]
  /\ pc = "idle" /\ creating = FALSE
  /\ counted = 0 /\ room = 0
  /\ popped = <<>>
  /\ handed = <<>> /\ lost = {} /\ faults = 0

\* The queue goes with its messages.
Cleared ==
  /\ exists' = FALSE
  /\ messages' = <<>>
  /\ lost' = lost \cup Elements(messages)

Fault == faults < MaxFaults /\ faults' = faults + 1

--------------------------------------------------------------------------------
(***************************************************************************)
(* initialize: an existing queue is deleted, and a new one created, within *)
(* operationTimeout; otherwise the process exits.                          *)
(***************************************************************************)
Start ==
  /\ mode = "off"
  /\ mode' = "listing"
  /\ UNCHANGED <<redis, waiting, api, probe, history>>

GetQueues ==
  /\ mode = "listing"
  /\ mode' = IF exists THEN "deleting" ELSE "creating"
  /\ UNCHANGED <<redis, waiting, api, probe, history>>

DeleteQueue ==
  /\ mode = "deleting" /\ exists
  /\ exists' = FALSE /\ messages' = <<>>
  /\ mode' = "creating"
  /\ UNCHANGED <<waiting, api, probe, history>>

CreateQueue ==
  /\ mode = "creating"
  /\ exists' = TRUE
  /\ mode' = "up"
  /\ UNCHANGED <<messages, waiting, api, probe, history>>

\* A command fails or takes too long; redis may have executed it.
InitializeFails ==
  /\ mode \in {"listing", "deleting", "creating"}
  /\ IF mode = "deleting" /\ ~exists THEN UNCHANGED faults ELSE Fault
  /\ \/ UNCHANGED redis
     \/ mode = "deleting" /\ exists' = FALSE /\ messages' = <<>>
     \/ mode = "creating" /\ exists' = TRUE /\ UNCHANGED messages
  /\ mode' = "off"
  /\ UNCHANGED <<waiting, api, probe, handed, lost>>

--------------------------------------------------------------------------------
(***************************************************************************)
(* POST /conversion: addRequestToQueue sends the message, notes it, and    *)
(* asks for the length of the queue, which is only logged.                 *)
(***************************************************************************)
Answers(id, answer) == api' = [api EXCEPT ![id] = answer]

\* Mutant of SendMessage: the newest message comes first.
SendAhead(id) ==
  /\ Connected /\ exists
  /\ api[id] = "new"
  /\ messages' = <<id>> \o messages
  /\ waiting' = waiting \cup {id}
  /\ Answers(id, "counting")
  /\ UNCHANGED <<exists, mode, probe, history>>

SendMessage(id) ==
  /\ Connected /\ exists
  /\ api[id] = "new"
  /\ messages' = Append(messages, id)
  /\ waiting' = waiting \cup {id}
  /\ Answers(id, "counting")
  /\ UNCHANGED <<exists, mode, probe, history>>

\* The queue is gone, or so is the connection; when the answer of redis is lost
\* the message may be in the queue all the same.
SendFails(id) ==
  /\ Connected \/ mode = "closed"
  /\ api[id] = "new"
  /\ \/ ~(Connected /\ exists) /\ UNCHANGED <<messages, faults>>
     \/ Connected /\ exists /\ Fault /\ messages' \in {messages, Append(messages, id)}
  /\ Answers(id, "failed")
  /\ UNCHANGED <<exists, mode, waiting, probe, handed, lost>>

CountForClient(id) ==
  /\ Connected
  /\ api[id] = "counting"
  /\ Answers(id, IF exists THEN "accepted" ELSE "creating")
  /\ UNCHANGED <<redis, mode, waiting, probe, history>>

CreateForClient(id) ==
  /\ Connected /\ ~exists
  /\ api[id] = "creating"
  /\ exists' = TRUE
  /\ Answers(id, "accepted")
  /\ UNCHANGED <<messages, mode, waiting, probe, history>>

\* Somebody else was faster (queueExists), the connection is closed, or the
\* command failed or timed out: an error for a request that is in the queue.
CountFails(id) ==
  /\ api[id] \in {"counting", "creating"}
  /\ \/ (~Connected \/ (exists /\ api[id] = "creating")) /\ UNCHANGED <<exists, faults>>
     \/ Connected /\ Fault /\ exists' \in {exists, exists \/ api[id] = "creating"}
  /\ Answers(id, "failed")
  /\ UNCHANGED <<messages, mode, waiting, probe, handed, lost>>

--------------------------------------------------------------------------------
(***************************************************************************)
(* The probe: getPendingMessagesCount for checkHealth and for              *)
(* forwardRequestsToIdleWorkers, then the loop around popRequest, and the  *)
(* count that is logged after the requests were forwarded.                 *)
(***************************************************************************)
Tick ==
  /\ mode = "up" /\ pc = "idle"
  /\ pc' = "health"
  /\ UNCHANGED <<redis, mode, waiting, api, creating, counted, room, popped, history>>

\* The count n is there; requests are popped only while workers have room.
Counted(n) ==
  /\ pc' = CASE pc = "health" -> "forward" [] pc = "forward" -> "pop" [] OTHER -> "idle"
  /\ counted' = IF pc = "forward" THEN n ELSE counted
  /\ IF pc = "forward" THEN room' \in 0 .. MaxRoom ELSE UNCHANGED room
  /\ UNCHANGED <<mode, waiting, api, popped, history>>

\* Mutant of Count: a missing queue is counted as empty and stays missing.
CountOnly ==
  /\ Connected /\ pc \in {"health", "forward", "log"} /\ ~creating
  /\ Counted(Len(messages))
  /\ UNCHANGED <<redis, creating>>

Count ==
  /\ Connected /\ pc \in {"health", "forward", "log"} /\ ~creating
  /\ IF exists THEN Counted(Len(messages)) /\ UNCHANGED creating
     ELSE /\ creating' = TRUE
          /\ UNCHANGED <<mode, waiting, api, pc, counted, room, popped, history>>
  /\ UNCHANGED redis

\* queueNotFound: the queue is created, and counts as empty.
CreateMissing ==
  /\ Connected /\ creating /\ ~exists
  /\ exists' = TRUE
  /\ creating' = FALSE
  /\ Counted(0)
  /\ UNCHANGED messages

\* The probe ends; checkHealth and the loop throw, the log is caught.
CountFailsProbe ==
  /\ pc \in {"health", "forward", "log"}
  /\ \/ (~Connected \/ (exists /\ creating)) /\ UNCHANGED <<exists, faults>>
     \/ Connected /\ Fault /\ exists' \in {exists, exists \/ creating}
  /\ pc' = "idle" /\ creating' = FALSE
  /\ UNCHANGED <<messages, mode, waiting, api, counted, room, popped, handed, lost>>

\* Mutant of More: one request too many is asked for.
OneMore == Len(popped) <= Goal

More == Len(popped) < Goal

\* Mutant of Popped: the entry in requestsInQueue stays.
PoppedButNoted(id) == UNCHANGED waiting

\* requestsInQueue.delete
Popped(id) == waiting' = waiting \ {id}

PopRequest ==
  /\ Connected /\ pc = "pop" /\ More
  /\ exists /\ messages # <<>>
  /\ popped' = Append(popped, Head(messages))
  /\ handed' = Append(handed, Head(messages))
  /\ messages' = Tail(messages)
  /\ Popped(Head(messages))
  /\ UNCHANGED <<exists, mode, api, pc, creating, counted, room, lost, faults>>

\* An error, or an empty queue, whose answer has no message to parse: "failed to
\* pop request", and the loop goes on as before.
PopNothing ==
  /\ pc = "pop" /\ More
  /\ ~Connected \/ ~exists \/ messages = <<>>
  /\ UNCHANGED vars

\* So it does when the answer is lost, with the message or without.
PopFails ==
  /\ Connected /\ pc = "pop" /\ More
  /\ exists /\ messages # <<>> /\ Fault
  /\ messages' = Tail(messages)
  /\ lost' = lost \cup {Head(messages)}
  /\ UNCHANGED <<exists, mode, waiting, api, probe, handed>>

\* The workers get what was popped (RedisService has the details).
Forward ==
  /\ pc = "pop" /\ ~More
  /\ popped' = <<>>
  /\ pc' = "log"
  /\ UNCHANGED <<redis, mode, waiting, api, creating, counted, room, history>>

--------------------------------------------------------------------------------
(***************************************************************************)
(* quit: the interval is cleared, the queue deleted, the connection closed *)
(* and the containers are removed, all while a probe may be running; the   *)
(* process ends with nothing left to do.                                   *)
(***************************************************************************)
Quit ==
  /\ mode \in {"up", "stranded"}
  /\ mode' = "quit"
  /\ UNCHANGED <<redis, waiting, api, probe, history>>

QuitGetQueues ==
  /\ mode = "quit"
  /\ mode' = IF exists THEN "clearing" ELSE "closed"
  /\ UNCHANGED <<redis, waiting, api, probe, history>>

QuitDeleteQueue ==
  /\ mode = "clearing" /\ exists
  /\ Cleared
  /\ mode' = "closed"
  /\ UNCHANGED <<waiting, api, probe, handed, faults>>

\* An error ends quit: the API goes on accepting requests that no probe will
\* look at, until another signal comes.
QuitFails ==
  /\ mode \in {"quit", "clearing"}
  /\ IF mode = "clearing" /\ ~exists THEN UNCHANGED faults ELSE Fault
  /\ UNCHANGED <<redis, lost>> \/ (mode = "clearing" /\ Cleared)
  /\ mode' = "stranded"
  /\ UNCHANGED <<waiting, api, probe, handed>>

\* What the process knew is gone; a client that waits gets no answer.
Exit ==
  /\ mode' = "off"
  /\ waiting' = {}
  /\ api' = [id \in Requests |->
               IF api[id] \in {"counting", "creating"} THEN "failed" ELSE api[id]]
  /\ pc' = "idle" /\ creating' = FALSE
  /\ counted' = 0 /\ room' = 0
  /\ popped' = <<>>
  /\ UNCHANGED <<redis, handed, lost>>

Ends ==
  /\ mode = "closed" /\ pc = "idle"
  /\ Exit
  /\ UNCHANGED faults

\* The process is killed.
Crash ==
  /\ mode # "off" /\ Fault
  /\ Exit

\* Redis loses its data.
LoseQueue ==
  /\ exists /\ Fault
  /\ Cleared
  /\ UNCHANGED <<mode, waiting, api, probe, handed>>

--------------------------------------------------------------------------------
Boot == Start \/ GetQueues \/ DeleteQueue \/ CreateQueue

Client(id) ==
  \/ SendMessage(id)
  \/ SendFails(id)
  \/ CountForClient(id)
  \/ CreateForClient(id)
  \/ CountFails(id)

ProbeStep ==
  \/ Tick
  \/ Count
  \/ CreateMissing
  \/ CountFailsProbe
  \/ PopRequest
  \/ PopNothing
  \/ PopFails
  \/ Forward

Shutdown == Quit \/ QuitGetQueues \/ QuitDeleteQueue \/ QuitFails \/ Ends

Next ==
  \/ Boot
  \/ InitializeFails
  \/ \E id \in Requests : Client(id)
  \/ ProbeStep
  \/ Shutdown
  \/ Crash
  \/ LoseQueue

Spec == Init /\ [][Next]_vars

\* docker restarts the service, the interval fires and answers arrive; nobody
\* has to quit.
FairSpec == Spec /\ WF_vars(Boot) /\ WF_vars(ProbeStep) /\ WF_vars(Ends)

--------------------------------------------------------------------------------
(***************************************************************************)
(* Properties.                                                             *)
(***************************************************************************)
TypeOK ==
  /\ exists \in BOOLEAN
  /\ messages \in Seq(Requests)
  /\ mode \in {"off", "listing", "deleting", "creating", "up", "quit", "clearing",
              "stranded", "closed"}
  /\ waiting \subseteq Requests
  /\ api \in [Requests -> {"new", "counting", "creating", "accepted", "failed"}]
  /\ pc \in {"idle", "health", "forward", "pop", "log"}
  /\ creating \in BOOLEAN
  /\ counted \in Nat /\ room \in Nat
  /\ popped \in Seq(Requests) /\ Len(popped) <= Goal
  /\ handed \in Seq(Requests)
  /\ lost \subseteq Requests
  /\ faults \in Nat

\* requestsInQueue, which GET /conversion/{id} looks at first, follows the
\* queue: a queued request is missing there only when its client got an error,
\* and an entry outlives its message only when redis lost that.
WaitingIsQueue ==
  /\ Connected => \A id \in Elements(messages) : id \in waiting \/ api[id] = "failed"
  /\ waiting \subseteq Elements(messages) \cup lost

\* The loop that pops requests never asks for more than there are, whatever is
\* sent or shut down meanwhile: popMessage of an empty queue never ends it.
LoopCanFinish ==
  pc = "pop" /\ lost = {} => Goal <= Len(popped) + Len(messages)

\* "The files in queue will be processed after the FIFO principle".
Fifo == INSTANCE FifoQueue WITH queued <- messages, taken <- handed
ImplementsFifo == Fifo!Spec

\* A probe comes to an end, unless redis lost counted requests or quit deleted
\* them.
ProbeReturns == pc # "idle" ~> pc = "idle" \/ lost # {}

\* A queue that redis has lost does not stay lost, unless the probe sticks in its
\* loop: the next count creates it.
LostQueueReturns == <>[](mode = "up" /\ ~exists) => <>[](pc = "pop")
================================================================================
