--------------------------- MODULE RequestQueue_proof ---------------------------
(***************************************************************************)
(* Proofs about RequestQueue for every set of requests, every room on the  *)
(* workers and any number of faults.                                       *)
(***************************************************************************)
EXTENDS RequestQueue, SequenceTheorems, TLAPS

Distinct(s) == \A i, j \in DOMAIN s : s[i] = s[j] => i = j

\* The process starts and knows nothing of what redis holds.
Booting == {"off", "listing", "deleting", "creating"}

\* What the places of the process say about each other and about the queue.
Control ==
  /\ pc # "pop" => popped = <<>>
  /\ creating => pc \in {"health", "forward", "log"}
  /\ mode \in Booting => pc = "idle" /\ waiting = {}
  /\ mode = "creating" => ~exists
  /\ ~exists => messages = <<>>

\* A request is sent once: no message is there twice, and one that was not sent
\* has been neither queued nor handed out.
SentOnce ==
  /\ Distinct(messages)
  /\ \A id \in Requests :
       api[id] = "new" => id \notin Elements(messages) /\ id \notin Elements(handed)

\* TypeOK in three parts.
Flags == exists \in BOOLEAN /\ creating \in BOOLEAN

Types ==
  /\ messages \in Seq(Requests) /\ popped \in Seq(Requests) /\ handed \in Seq(Requests)
  /\ mode \in {"off", "listing", "deleting", "creating", "up", "quit", "clearing",
              "stranded", "closed"}
  /\ waiting \subseteq Requests /\ lost \subseteq Requests
  /\ api \in [Requests -> {"new", "counting", "creating", "accepted", "failed"}]
  /\ pc \in {"idle", "health", "forward", "pop", "log"}
  /\ counted \in Nat /\ room \in Nat /\ faults \in Nat

NotTooMany == Len(popped) <= Goal

IInv == Flags /\ Types /\ NotTooMany /\ Control /\ SentOnce /\ WaitingIsQueue /\ LoopCanFinish

--------------------------------------------------------------------------------
\* A message that is appended is the only new one.
LEMMA AppendMessage ==
  ASSUME NEW s \in Seq(Requests), NEW id \in Requests
  PROVE  /\ Append(s, id) \in Seq(Requests)
         /\ Len(s) \in Nat /\ Len(Append(s, id)) = Len(s) + 1
         /\ Elements(Append(s, id)) = Elements(s) \cup {id}
         /\ Distinct(s) /\ id \notin Elements(s) => Distinct(Append(s, id))
<1> DEFINE t == Append(s, id)
<1>1. /\ t \in Seq(Requests)
      /\ Len(s) \in Nat /\ Len(t) = Len(s) + 1
      /\ DOMAIN s = 1 .. Len(s) /\ DOMAIN t = 1 .. Len(t)
      /\ \A i \in 1 .. Len(s) : t[i] = s[i]
      /\ t[Len(s) + 1] = id
  BY AppendProperties
<1> HIDE DEF t
<1>2. Elements(t) = Elements(s) \cup {id}
  <2>1. \A i \in DOMAIN t : i \in DOMAIN s \/ i = Len(s) + 1
    BY <1>1
  <2>2. \A i \in DOMAIN s : i \in DOMAIN t /\ t[i] = s[i]
    BY <1>1
  <2>3. Len(s) + 1 \in DOMAIN t
    BY <1>1
  <2> QED BY <1>1, <2>1, <2>2, <2>3 DEF Elements
<1>3. ASSUME Distinct(s), id \notin Elements(s) PROVE Distinct(t)
  BY <1>1, <1>3 DEF Distinct, Elements
<1> QED
  BY <1>1, <1>2, <1>3 DEF t

\* The oldest message leaves, and the others stay.
LEMMA TakeMessage ==
  ASSUME NEW s \in Seq(Requests), s # <<>>
  PROVE  /\ Head(s) \in Requests /\ Tail(s) \in Seq(Requests)
         /\ Len(s) \in Nat /\ Len(s) > 0 /\ Len(Tail(s)) = Len(s) - 1
         /\ Elements(s) = {Head(s)} \cup Elements(Tail(s))
         /\ Distinct(s) => Distinct(Tail(s)) /\ Head(s) \notin Elements(Tail(s))
<1> DEFINE t == Tail(s)
<1>1. /\ Head(s) \in Requests /\ t \in Seq(Requests)
      /\ Len(s) \in Nat /\ Len(s) > 0 /\ Len(t) = Len(s) - 1
      /\ DOMAIN s = 1 .. Len(s) /\ DOMAIN t = 1 .. Len(t)
      /\ \A i \in 1 .. Len(t) : t[i] = s[i + 1]
      /\ Head(s) = s[1]
  BY HeadTailProperties, EmptySeq
<1> HIDE DEF t
<1>2. \A i \in DOMAIN t : i + 1 \in DOMAIN s /\ i + 1 # 1 /\ t[i] = s[i + 1]
  BY <1>1
<1>3. \A i \in DOMAIN s : i = 1 \/ (i - 1 \in DOMAIN t /\ t[i - 1] = s[i])
  <2> TAKE i \in DOMAIN s
  <2>1. CASE i # 1
    <3>1. i - 1 \in 1 .. Len(t) /\ (i - 1) + 1 = i
      BY <1>1, <2>1
    <3> QED BY <1>1, <3>1
  <2> QED BY <2>1
<1>4. Elements(s) = {Head(s)} \cup Elements(t)
  <2>1. 1 \in DOMAIN s
    BY <1>1
  <2> QED BY <1>1, <1>2, <1>3, <2>1 DEF Elements
<1>5. ASSUME Distinct(s) PROVE Distinct(t) /\ Head(s) \notin Elements(t)
  <2>1. 1 \in DOMAIN s
    BY <1>1
  <2>2. \A i, j \in DOMAIN t : i + 1 = j + 1 => i = j
    BY <1>1
  <2> QED BY <1>1, <1>2, <1>5, <2>1, <2>2 DEF Distinct, Elements
<1> QED
  BY <1>1, <1>4, <1>5 DEF t

\* The empty queue.
LEMMA NoMessages ==
  /\ <<>> \in Seq(Requests) /\ Len(<<>>) = 0
  /\ Elements(<<>>) = {} /\ Distinct(<<>>)
BY DEF Elements, Distinct

--------------------------------------------------------------------------------
\* What is queued is a request.
LEMMA MessagesAreRequests == Types => Elements(messages) \subseteq Requests
BY ElementOfSeq DEF Types, Elements

\* Goal is one of the two numbers that bound it.
LEMMA GoalIsNat == Types => Goal \in Nat /\ Goal <= counted /\ Goal <= room
BY DEF Types, Goal, Least

\* The parts make up TypeOK; the proofs take them one at a time.
LEMMA TypeParts == TypeOK <=> Flags /\ Types /\ NotTooMany
BY DEF TypeOK, Flags, Types, NotTooMany

--------------------------------------------------------------------------------
\* The process is off, and the queue, if redis still has it, is empty.
LEMMA InitIInv == Init => IInv
<1> SUFFICES ASSUME Init PROVE IInv
  OBVIOUS
<1>1. messages = <<>> /\ popped = <<>> /\ handed = <<>> /\ Goal = 0
  BY DEF Init, Goal, Least
<1>2. Flags /\ Types
  BY <1>1, NoMessages DEF Init, Flags, Types
<1>3. NotTooMany
  BY <1>1, NoMessages DEF NotTooMany
<1>4. Control /\ LoopCanFinish
  BY <1>1 DEF Init, Control, LoopCanFinish
<1>5. SentOnce /\ WaitingIsQueue
  BY <1>1, NoMessages DEF Init, SentOnce, WaitingIsQueue
<1> QED
  BY <1>2, <1>3, <1>4, <1>5 DEF IInv

\* The two flags stay Boolean.
LEMMA FlagsStep == Flags /\ [Next]_vars => Flags'
<1> SUFFICES ASSUME Flags, [Next]_vars PROVE Flags'
  OBVIOUS
<1> USE DEF Flags, redis, probe, history
<1>1. CASE Start
  BY <1>1 DEF Start
<1>2. CASE GetQueues
  BY <1>2 DEF GetQueues
<1>3. CASE DeleteQueue
  BY <1>3 DEF DeleteQueue
<1>4. CASE CreateQueue
  BY <1>4 DEF CreateQueue
<1>5. CASE InitializeFails
  BY <1>5 DEF InitializeFails, Fault
<1>6. ASSUME NEW id \in Requests, Client(id) PROVE Flags'
  <2>1. CASE SendMessage(id)
    BY <2>1 DEF SendMessage
  <2>2. CASE SendFails(id)
    BY <2>2 DEF SendFails, Fault
  <2>3. CASE CountForClient(id)
    BY <2>3 DEF CountForClient
  <2>4. CASE CreateForClient(id)
    BY <2>4 DEF CreateForClient
  <2>5. CASE CountFails(id)
    BY <2>5 DEF CountFails, Fault
  <2> QED BY <1>6, <2>1, <2>2, <2>3, <2>4, <2>5 DEF Client
<1>7. CASE Tick
  BY <1>7 DEF Tick
<1>8. CASE Count
  BY <1>8 DEF Count, Counted
<1>9. CASE CreateMissing
  BY <1>9 DEF CreateMissing, Counted
<1>10. CASE CountFailsProbe
  BY <1>10 DEF CountFailsProbe, Fault
<1>11. CASE PopRequest
  BY <1>11 DEF PopRequest, Popped
<1>12. CASE PopNothing
  BY <1>12 DEF PopNothing, vars
<1>13. CASE PopFails
  BY <1>13 DEF PopFails, Fault
<1>14. CASE Forward
  BY <1>14 DEF Forward
<1>15. CASE Quit
  BY <1>15 DEF Quit
<1>16. CASE QuitGetQueues
  BY <1>16 DEF QuitGetQueues
<1>17. CASE QuitDeleteQueue
  BY <1>17 DEF QuitDeleteQueue, Cleared
<1>18. CASE QuitFails
  BY <1>18 DEF QuitFails, Cleared, Fault
<1>19. CASE Ends
  BY <1>19 DEF Ends, Exit
<1>20. CASE Crash
  BY <1>20 DEF Crash, Exit, Fault
<1>21. CASE LoseQueue
  BY <1>21 DEF LoseQueue, Cleared, Fault
<1>22. CASE UNCHANGED vars
  BY <1>22 DEF vars
<1> QED
  BY <1>1, <1>2, <1>3, <1>4, <1>5, <1>6, <1>7, <1>8, <1>9, <1>10, <1>11, <1>12, <1>13,
     <1>14, <1>15, <1>16, <1>17, <1>18, <1>19, <1>20, <1>21, <1>22 DEF Next, Boot,
     ProbeStep, Shutdown

\* Every other variable keeps its type.
LEMMA TypesStep == IInv /\ [Next]_vars => Types'
<1> SUFFICES ASSUME IInv, [Next]_vars PROVE Types'
  OBVIOUS
<1> Types
  BY DEF IInv
<1> USE DEF Types, redis, probe, history
<1>1. CASE Start
  BY <1>1 DEF Start
<1>2. CASE GetQueues
  BY <1>2 DEF GetQueues
<1>3. CASE DeleteQueue
  BY <1>3, NoMessages DEF DeleteQueue
<1>4. CASE CreateQueue
  BY <1>4 DEF CreateQueue
<1>5. CASE InitializeFails
  <2>1. messages' = messages \/ messages' = <<>>
    BY <1>5 DEF InitializeFails
  <2>2. faults' \in Nat
    BY <1>5 DEF InitializeFails, Fault
  <2> QED BY <1>5, <2>1, <2>2, NoMessages DEF InitializeFails
<1>6. ASSUME NEW id \in Requests, Client(id) PROVE Types'
  <2>1. CASE SendMessage(id)
    BY <2>1, AppendMessage DEF SendMessage, Answers
  <2>2. CASE SendFails(id)
    <3>1. messages' = messages \/ messages' = Append(messages, id)
      BY <2>2 DEF SendFails
    <3>2. faults' \in Nat
      BY <2>2 DEF SendFails, Fault
    <3> QED BY <2>2, <3>1, <3>2, AppendMessage DEF SendFails, Answers
  <2>3. CASE CountForClient(id)
    BY <2>3 DEF CountForClient, Answers
  <2>4. CASE CreateForClient(id)
    BY <2>4 DEF CreateForClient, Answers
  <2>5. CASE CountFails(id)
    BY <2>5 DEF CountFails, Fault, Answers
  <2> QED BY <1>6, <2>1, <2>2, <2>3, <2>4, <2>5 DEF Client
<1>7. CASE Tick
  BY <1>7 DEF Tick
<1>8. CASE Count
  BY <1>8, AppendMessage DEF Count, Counted
<1>9. CASE CreateMissing
  BY <1>9 DEF CreateMissing, Counted
<1>10. CASE CountFailsProbe
  BY <1>10 DEF CountFailsProbe, Fault
<1>11. CASE PopRequest
  BY <1>11, TakeMessage, AppendMessage DEF PopRequest, Popped
<1>12. CASE PopNothing
  BY <1>12 DEF PopNothing, vars
<1>13. CASE PopFails
  BY <1>13, TakeMessage DEF PopFails, Fault
<1>14. CASE Forward
  BY <1>14, NoMessages DEF Forward
<1>15. CASE Quit
  BY <1>15 DEF Quit
<1>16. CASE QuitGetQueues
  BY <1>16 DEF QuitGetQueues
<1>17. CASE QuitDeleteQueue
  <2>1. messages' = <<>> /\ lost' \subseteq Requests
    BY <1>17, MessagesAreRequests DEF QuitDeleteQueue, Cleared
  <2> QED BY <1>17, <2>1, NoMessages DEF QuitDeleteQueue
<1>18. CASE QuitFails
  <2>1. messages' \in {messages, <<>>} /\ lost' \subseteq Requests
    BY <1>18, MessagesAreRequests DEF QuitFails, Cleared
  <2>2. faults' \in Nat
    BY <1>18 DEF QuitFails, Fault
  <2> QED BY <1>18, <2>1, <2>2, NoMessages DEF QuitFails
<1>19. CASE Ends
  BY <1>19, NoMessages DEF Ends, Exit
<1>20. CASE Crash
  BY <1>20, NoMessages DEF Crash, Exit, Fault
<1>21. CASE LoseQueue
  BY <1>21, NoMessages DEF LoseQueue, Cleared, Fault, Elements
<1>22. CASE UNCHANGED vars
  BY <1>22 DEF vars
<1> QED
  BY <1>1, <1>2, <1>3, <1>4, <1>5, <1>6, <1>7, <1>8, <1>9, <1>10, <1>11, <1>12, <1>13,
     <1>14, <1>15, <1>16, <1>17, <1>18, <1>19, <1>20, <1>21, <1>22 DEF Next, Boot,
     ProbeStep, Shutdown

\* Only the probe's own steps, and the end of the process, touch what the loop
\* has popped and how much it wants.
LEMMA LoopSteps ==
  [Next]_vars => \/ UNCHANGED <<counted, room, popped>>
                 \/ Count \/ CreateMissing \/ PopRequest \/ Forward \/ Ends \/ Crash
<1> SUFFICES ASSUME [Next]_vars
             PROVE  \/ UNCHANGED <<counted, room, popped>>
                    \/ Count \/ CreateMissing \/ PopRequest \/ Forward \/ Ends \/ Crash
  OBVIOUS
<1> USE DEF probe, vars
<1>1. CASE Boot \/ InitializeFails
  BY <1>1 DEF Boot, Start, GetQueues, DeleteQueue, CreateQueue, InitializeFails
<1>2. ASSUME NEW id \in Requests, Client(id) PROVE UNCHANGED <<counted, room, popped>>
  BY <1>2 DEF Client, SendMessage, SendFails, CountForClient, CreateForClient, CountFails
<1>3. CASE ProbeStep
  BY <1>3 DEF ProbeStep, Tick, CountFailsProbe, PopNothing, PopFails
<1>4. CASE Shutdown
  BY <1>4 DEF Shutdown, Quit, QuitGetQueues, QuitDeleteQueue, QuitFails
<1>5. CASE LoseQueue
  BY <1>5 DEF LoseQueue
<1>6. CASE UNCHANGED vars
  BY <1>6
<1> QED
  BY <1>1, <1>2, <1>3, <1>4, <1>5, <1>6 DEF Next

\* The loop stops popping at its goal.
LEMMA NotTooManyStep == IInv /\ Types' /\ [Next]_vars => NotTooMany'
<1> SUFFICES ASSUME IInv, Types', [Next]_vars PROVE NotTooMany'
  OBVIOUS
<1> USE DEF NotTooMany
<1>1. NotTooMany /\ Types /\ Control
  BY DEF IInv
<1>2. Goal' \in Nat
  BY DEF Types, Goal, Least
<1>3. CASE UNCHANGED <<counted, room, popped>>
  BY <1>1, <1>3 DEF Goal
<1>4. CASE Count \/ CreateMissing
  <2>1. CASE UNCHANGED <<counted, room, popped>>
    BY <1>1, <2>1 DEF Goal
  <2>2. CASE pc = "forward"
    <3>1. popped' = <<>>
      BY <1>1, <1>4, <2>2 DEF Control, Count, CreateMissing, Counted
    <3> QED BY <1>2, <3>1, NoMessages
  <2> QED BY <1>4, <2>1, <2>2 DEF Count, CreateMissing, Counted
<1>5. CASE PopRequest
  <2>1. Goal' = Goal /\ Goal \in Nat /\ Len(popped) < Goal
    BY <1>1, <1>5, GoalIsNat DEF PopRequest, More, Goal
  <2>2. Len(popped') = Len(popped) + 1 /\ Len(popped) \in Nat
    BY <1>1, <1>5, AppendMessage, TakeMessage DEF PopRequest, Types
  <2> QED BY <2>1, <2>2
<1>6. CASE Forward \/ Ends \/ Crash
  <2>1. popped' = <<>>
    BY <1>6 DEF Forward, Ends, Crash, Exit
  <2> QED BY <1>2, <2>1, NoMessages
<1> QED
  BY <1>3, <1>4, <1>5, <1>6, LoopSteps

\* The places keep agreeing: the creating flag goes with a count, and redis has
\* no messages without a queue.
LEMMA ControlStep == IInv /\ [Next]_vars => Control'
<1> SUFFICES ASSUME IInv, [Next]_vars PROVE Control'
  OBVIOUS
<1>1. Control
  BY DEF IInv
<1> USE DEF Control, Booting, Connected, redis, probe, history
<1>2. CASE Boot \/ InitializeFails
  BY <1>1, <1>2 DEF Boot, Start, GetQueues, DeleteQueue, CreateQueue, InitializeFails
<1>3. ASSUME NEW id \in Requests, Client(id) PROVE Control'
  <2>2. CASE SendMessage(id)
    BY <1>1, <2>2 DEF SendMessage
  <2>3. CASE SendFails(id)
    BY <1>1, <2>3 DEF SendFails
  <2>4. CASE CountForClient(id) \/ CreateForClient(id)
    BY <1>1, <2>4 DEF CountForClient, CreateForClient
  <2>5. CASE CountFails(id)
    <3>1. exists => exists'
      BY <2>5 DEF CountFails
    <3>2. mode = "creating" => ~exists'
      BY <1>1, <2>5 DEF CountFails
    <3> QED BY <1>1, <2>5, <3>1, <3>2 DEF CountFails
  <2> QED BY <1>3, <2>2, <2>3, <2>4, <2>5 DEF Client
<1>4. CASE Tick
  BY <1>1, <1>4 DEF Tick
<1>5. CASE Count
  BY <1>1, <1>5 DEF Count, Counted
<1>6. CASE CreateMissing
  <2>1. pc # "pop" /\ mode \notin Booting
    BY <1>1, <1>6 DEF CreateMissing, Counted
  <2> QED BY <1>1, <1>6, <2>1 DEF CreateMissing, Counted
<1>7. CASE CountFailsProbe
  <2>1. exists => exists'
    BY <1>7 DEF CountFailsProbe
  <2> QED BY <1>1, <1>7, <2>1 DEF CountFailsProbe
<1>8. CASE PopRequest \/ PopNothing \/ PopFails
  BY <1>1, <1>8 DEF PopRequest, Popped, PopNothing, PopFails, vars
<1>9. CASE Forward
  BY <1>1, <1>9 DEF Forward
<1>10. CASE Shutdown
  BY <1>1, <1>10 DEF Shutdown, Quit, QuitGetQueues, QuitDeleteQueue, QuitFails, Ends, Exit, Cleared
<1>11. CASE Crash
  BY <1>11, <1>1 DEF Crash, Exit
<1>12. CASE LoseQueue
  BY <1>12, <1>1 DEF LoseQueue, Cleared
<1>13. CASE UNCHANGED vars
  BY <1>13, <1>1 DEF vars
<1> QED
  BY <1>2, <1>3, <1>4, <1>5, <1>6, <1>7, <1>8, <1>9, <1>10, <1>11, <1>12, <1>13
     DEF Next, ProbeStep
--------------------------------------------------------------------------------
\* What a step does to the queue: a client appends its request, the probe takes
\* or redis drops the oldest, all are gone, or nothing changes.
Sent(id)  == /\ api[id] = "new" /\ api'[id] # "new"
             /\ messages' = Append(messages, id) /\ UNCHANGED handed
Taken     == /\ messages # <<>> /\ messages' = Tail(messages)
             /\ handed' = Append(handed, Head(messages))
Dropped   == messages # <<>> /\ messages' = Tail(messages) /\ UNCHANGED handed
Emptied   == messages' = <<>> /\ UNCHANGED handed
Untouched == UNCHANGED <<messages, handed>>

\* What a step can do to the queue and to the requests handed out.
LEMMA QueueSteps ==
  Types /\ [Next]_vars =>
    \/ \E id \in Requests : Sent(id)
    \/ Taken \/ Dropped \/ Emptied \/ Untouched
<1> SUFFICES ASSUME Types, [Next]_vars
             PROVE  \/ \E id \in Requests : Sent(id)
                    \/ Taken \/ Dropped \/ Emptied \/ Untouched
  OBVIOUS
<1> USE DEF Untouched, Emptied, redis, probe, history, vars
<1>1. CASE Boot \/ InitializeFails
  BY <1>1 DEF Boot, Start, GetQueues, DeleteQueue, CreateQueue, InitializeFails
<1>2. ASSUME NEW id \in Requests, Client(id) PROVE Sent(id) \/ Untouched
  <2>1. CASE SendMessage(id) \/ SendFails(id)
    BY <2>1 DEF Types, SendMessage, SendFails, Answers, Sent
  <2>2. CASE CountForClient(id) \/ CreateForClient(id) \/ CountFails(id)
    BY <2>2 DEF CountForClient, CreateForClient, CountFails
  <2> QED BY <1>2, <2>1, <2>2 DEF Client
<1>3. CASE ProbeStep
  <2>1. CASE PopRequest
    BY <2>1 DEF PopRequest, Taken
  <2>2. CASE PopFails
    BY <2>2 DEF PopFails, Dropped
  <2>3. CASE Count \/ CreateMissing
    BY <2>3 DEF Count, CreateMissing, Counted
  <2> QED BY <1>3, <2>1, <2>2, <2>3 DEF ProbeStep, Tick, CountFailsProbe, PopNothing, Forward
<1>4. CASE Shutdown \/ Crash \/ LoseQueue
  BY <1>4 DEF Shutdown, Quit, QuitGetQueues, QuitDeleteQueue, QuitFails, Ends, Crash, LoseQueue,
     Exit, Cleared
<1>5. CASE UNCHANGED vars
  BY <1>5
<1> QED
  BY <1>1, <1>2, <1>3, <1>4, <1>5 DEF Next

\* No request becomes new again.
LEMMA NewWasNew ==
  ASSUME Types, [Next]_vars, NEW id \in Requests, api'[id] = "new"
  PROVE  api[id] = "new"
<1> USE DEF Types, redis, probe, history, vars
<1>1. CASE Boot \/ InitializeFails
  BY <1>1 DEF Boot, Start, GetQueues, DeleteQueue, CreateQueue, InitializeFails
<1>2. ASSUME NEW i \in Requests, Client(i) PROVE api[id] = "new"
  BY <1>2 DEF Client, SendMessage, SendFails, CountForClient, CreateForClient, CountFails, Answers
<1>3. CASE ProbeStep
  BY <1>3 DEF ProbeStep, Tick, Count, CreateMissing, CountFailsProbe, PopRequest, PopNothing,
     PopFails, Forward, Counted
<1>4. CASE Shutdown \/ Crash \/ LoseQueue
  BY <1>4 DEF Shutdown, Quit, QuitGetQueues, QuitDeleteQueue, QuitFails, Ends, Crash, LoseQueue,
     Exit
<1> QED
  BY <1>1, <1>2, <1>3, <1>4 DEF Next

\* A request enters the queue only with its one POST.
LEMMA SentOnceStep == IInv /\ [Next]_vars => SentOnce'
<1> SUFFICES ASSUME IInv, [Next]_vars PROVE SentOnce'
  OBVIOUS
<1>1. SentOnce /\ Types
  BY DEF IInv
<1>2. messages \in Seq(Requests) /\ handed \in Seq(Requests)
  BY <1>1 DEF Types
<1>3. \A id \in Requests : api'[id] = "new" => api[id] = "new"
  BY <1>1, NewWasNew
<1>4. ASSUME NEW id \in Requests, Sent(id) PROVE SentOnce'
  BY <1>1, <1>2, <1>3, <1>4, AppendMessage DEF SentOnce, Sent
<1>5. CASE Taken
  <2>1. /\ Elements(messages') \subseteq Elements(messages) /\ Distinct(messages')
        /\ Elements(handed') \subseteq Elements(handed) \cup Elements(messages)
    BY <1>1, <1>2, <1>5, TakeMessage, AppendMessage DEF SentOnce, Taken
  <2> QED BY <1>1, <1>3, <2>1 DEF SentOnce
<1>6. CASE Dropped
  BY <1>1, <1>2, <1>3, <1>6, TakeMessage DEF SentOnce, Dropped
<1>7. CASE Emptied
  BY <1>1, <1>3, <1>7, NoMessages DEF SentOnce, Emptied
<1>8. CASE Untouched
  BY <1>1, <1>3, <1>8 DEF SentOnce, Untouched
<1> QED
  BY <1>1, <1>4, <1>5, <1>6, <1>7, <1>8, QueueSteps

\* Sending, popping and losing a message keep requestsInQueue in step with it.
LEMMA WaitingStep == IInv /\ [Next]_vars => WaitingIsQueue'
<1> SUFFICES ASSUME IInv, [Next]_vars PROVE WaitingIsQueue'
  OBVIOUS
<1>1. WaitingIsQueue /\ Types /\ Control /\ SentOnce /\ messages \in Seq(Requests)
  BY DEF IInv, Types
<1> USE DEF WaitingIsQueue, Connected, redis, probe, history
<1>2. CASE Boot \/ InitializeFails
  <2>1. waiting' = {} /\ (mode' = "up" => messages' = <<>>)
    BY <1>1, <1>2 DEF Control, Booting, Boot, Start, GetQueues, DeleteQueue, CreateQueue,
       InitializeFails
  <2>2. mode' \in Booting \/ mode' = "up"
    BY <1>2 DEF Booting, Boot, Start, GetQueues, DeleteQueue, CreateQueue, InitializeFails
  <2> QED BY <2>1, <2>2, NoMessages DEF Booting
<1>3. ASSUME NEW id \in Requests, Client(id) PROVE WaitingIsQueue'
  <2> USE DEF Answers, Types
  <2>1. CASE SendMessage(id)
    BY <1>1, <2>1, AppendMessage DEF SendMessage
  <2>2. CASE SendFails(id)
    <3>1. messages' = messages \/ messages' = Append(messages, id)
      BY <2>2 DEF SendFails
    <3>2. /\ Elements(messages') \subseteq Elements(messages) \cup {id}
          /\ Elements(messages) \subseteq Elements(messages')
      <4>1. CASE messages' = messages
        BY <4>1
      <4>2. CASE messages' = Append(messages, id)
        <5>1. Elements(Append(messages, id)) = Elements(messages) \cup {id}
          BY <1>1, <1>3, AppendMessage
        <5> QED BY <4>2, <5>1
      <4> QED BY <3>1, <4>1, <4>2
    <3> QED BY <1>1, <2>2, <3>2 DEF SendFails
  <2>3. CASE CountForClient(id) \/ CreateForClient(id) \/ CountFails(id)
    <3>1. /\ UNCHANGED <<messages, mode, waiting, lost>>
          /\ \A i \in Requests : api[i] = "failed" => api'[i] = "failed"
      BY <1>1, <2>3 DEF CountForClient, CreateForClient, CountFails
    <3>2. Elements(messages) \subseteq Requests
      BY <1>1, MessagesAreRequests
    <3> QED BY <1>1, <3>1, <3>2
  <2> QED BY <1>3, <2>1, <2>2, <2>3 DEF Client
<1>4. CASE PopRequest
  BY <1>1, <1>4, TakeMessage DEF PopRequest, Popped, SentOnce
<1>5. CASE PopFails
  BY <1>1, <1>5, TakeMessage DEF PopFails
<1>6. CASE Tick \/ Count \/ CreateMissing \/ CountFailsProbe \/ PopNothing \/ Forward
  BY <1>1, <1>6 DEF Tick, Count, CreateMissing, CountFailsProbe, PopNothing, Forward, Counted, vars
<1>7. CASE Quit \/ QuitGetQueues
  BY <1>1, <1>7 DEF Quit, QuitGetQueues
<1>8. CASE QuitDeleteQueue
  BY <1>1, <1>8, NoMessages DEF QuitDeleteQueue, Cleared
<1>9. CASE QuitFails
  <2>1. CASE UNCHANGED <<redis, lost>>
    BY <1>1, <1>9, <2>1 DEF QuitFails
  <2>2. CASE Cleared
    BY <1>1, <1>9, <2>2, NoMessages DEF QuitFails, Cleared
  <2> QED BY <1>9, <2>1, <2>2 DEF QuitFails
<1>10. CASE Ends \/ Crash
  BY <1>1, <1>10 DEF Ends, Crash, Exit
<1>11. CASE LoseQueue
  BY <1>1, <1>11, NoMessages DEF LoseQueue, Cleared
<1>12. CASE UNCHANGED vars
  BY <1>1, <1>12 DEF vars
<1> QED
  BY <1>2, <1>3, <1>4, <1>5, <1>6, <1>7, <1>8, <1>9, <1>10, <1>11, <1>12
     DEF Next, ProbeStep, Shutdown

\* What is lost stays lost, and what a step takes off the queue is either popped
\* or lost.
LEMMA LoopStep == IInv /\ [Next]_vars => LoopCanFinish'
<1> SUFFICES ASSUME IInv, [Next]_vars, pc' = "pop", lost' = {}
             PROVE  Goal' <= Len(popped') + Len(messages')
  BY DEF LoopCanFinish
<1>1. LoopCanFinish /\ Types /\ Control /\ messages \in Seq(Requests) /\ popped \in Seq(Requests)
  BY DEF IInv, Types
<1>2. Goal \in Nat /\ Len(messages) \in Nat /\ Len(popped) \in Nat
  BY <1>1, GoalIsNat
<1>3. CASE lost = {} /\ pc = "pop" /\ UNCHANGED <<counted, room, popped, messages>>
  BY <1>1, <1>3 DEF LoopCanFinish, Goal
<1>4. CASE Boot \/ InitializeFails \/ Tick \/ CountFailsProbe \/ Forward \/ Ends \/ Crash
  <2>1. pc' # "pop"
    BY <1>1, <1>4 DEF Control, Booting, Boot, Start, GetQueues, DeleteQueue, CreateQueue,
       InitializeFails, Tick, CountFailsProbe, Forward, Ends, Crash, Exit, probe
  <2> QED BY <2>1
<1>5. ASSUME NEW id \in Requests, Client(id) PROVE Goal' <= Len(popped') + Len(messages')
  <2>1. UNCHANGED <<counted, room, popped, pc, lost>>
    BY <1>5 DEF Client, SendMessage, SendFails, CountForClient, CreateForClient, CountFails,
       probe, history
  <2>2. messages' = messages \/ messages' = Append(messages, id)
    BY <1>5 DEF Client, SendMessage, SendFails, CountForClient, CreateForClient, CountFails, redis
  <2>3. Len(messages') \in Nat /\ Len(messages') >= Len(messages)
    BY <1>1, <1>2, <2>2, AppendMessage
  <2>4. Goal <= Len(popped) + Len(messages) /\ Goal' = Goal
    BY <1>1, <2>1 DEF LoopCanFinish, Goal
  <2> QED BY <1>2, <2>1, <2>3, <2>4
<1>6. CASE Count
  <2>1. pc = "forward" /\ exists /\ counted' = Len(messages) /\ room' \in Nat
    BY <1>6 DEF Count, Counted
  <2>2. popped' = <<>> /\ messages' = messages
    BY <1>1, <1>6, <2>1 DEF Control, Count, Counted, redis
  <2> QED BY <1>2, <2>1, <2>2, NoMessages DEF Goal, Least
<1>7. CASE CreateMissing
  <2>1. pc = "forward" /\ counted' = 0 /\ room' \in Nat
    BY <1>1, <1>7 DEF Control, CreateMissing, Counted
  <2>2. popped' = <<>> /\ messages' = messages
    BY <1>1, <1>7, <2>1 DEF Control, CreateMissing, Counted
  <2> QED BY <1>2, <2>1, <2>2, NoMessages DEF Goal, Least
<1>8. CASE PopRequest
  <2>1. /\ Len(popped') = Len(popped) + 1 /\ Len(messages') = Len(messages) - 1
        /\ Goal' = Goal /\ pc = "pop" /\ lost = {}
    BY <1>1, <1>8, TakeMessage, AppendMessage DEF PopRequest, Goal
  <2> QED BY <1>1, <1>2, <2>1 DEF LoopCanFinish
<1>9. CASE PopFails
  BY <1>9 DEF PopFails
<1>10. CASE PopNothing \/ Quit \/ QuitGetQueues \/ UNCHANGED vars
  BY <1>3, <1>10 DEF PopNothing, Quit, QuitGetQueues, vars, redis, probe, history
<1>11. CASE QuitDeleteQueue \/ QuitFails \/ LoseQueue
  <2>1. lost = {} /\ pc = "pop" /\ UNCHANGED <<counted, room, popped>>
    BY <1>11 DEF QuitDeleteQueue, QuitFails, LoseQueue, Cleared, probe
  <2>2. messages' = messages
    <3>1. CASE Cleared
      BY <1>1, <3>1, TakeMessage DEF Cleared
    <3> QED BY <1>11, <3>1 DEF QuitDeleteQueue, QuitFails, LoseQueue, redis
  <2> QED BY <1>3, <2>1, <2>2
<1> QED
  BY <1>4, <1>5, <1>6, <1>7, <1>8, <1>9, <1>10, <1>11 DEF Next, ProbeStep, Shutdown

\* The invariant is inductive.
LEMMA NextIInv == IInv /\ [Next]_vars => IInv'
<1> SUFFICES ASSUME IInv, [Next]_vars PROVE IInv'
  OBVIOUS
<1>1. Flags' /\ Types'
  BY FlagsStep, TypesStep DEF IInv
<1>2. NotTooMany' /\ Control' /\ SentOnce' /\ WaitingIsQueue' /\ LoopCanFinish'
  BY <1>1, NotTooManyStep, ControlStep, SentOnceStep, WaitingStep, LoopStep
<1> QED
  BY <1>1, <1>2 DEF IInv

\* The invariant holds in every reachable state.
LEMMA Invariance == Spec => []IInv
BY InitIInv, NextIInv, PTL DEF Spec

--------------------------------------------------------------------------------
(***************************************************************************)
(* Theorems.                                                               *)
(***************************************************************************)
\* Every variable keeps its type, and the loop never pops more requests than the
\* workers have room for.
THEOREM TypeCorrect == Spec => []TypeOK
<1>1. IInv => TypeOK
  BY TypeParts DEF IInv
<1> QED
  BY <1>1, Invariance, PTL

\* requestsInQueue follows the queue through every race of clients, probe,
\* shutdown and crash.
THEOREM WaitingFollowsQueue == Spec => []WaitingIsQueue
<1>1. IInv => WaitingIsQueue
  BY DEF IInv
<1> QED
  BY <1>1, Invariance, PTL

\* As long as redis loses nothing, the loop that pops requests finds as many as
\* it still wants.
THEOREM LoopFindsRequests == Spec => []LoopCanFinish
<1>1. IInv => LoopCanFinish
  BY DEF IInv
<1> QED
  BY <1>1, Invariance, PTL

\* Every step is a step of FifoQueue, or changes nothing of it.
LEMMA FifoStep == IInv /\ [Next]_vars => [Fifo!Next]_<<messages, handed>>
<1> SUFFICES ASSUME IInv, [Next]_vars PROVE [Fifo!Next]_<<messages, handed>>
  OBVIOUS
<1>1. SentOnce /\ Types
  BY DEF IInv
<1>2. ASSUME NEW id \in Requests, Sent(id) PROVE Fifo!Accept(id)
  BY <1>1, <1>2 DEF SentOnce, Sent, Elements, Fifo!Accept
<1>3. ASSUME Taken PROVE Fifo!Take
  BY <1>3 DEF Taken, Fifo!Take
<1>4. ASSUME Dropped PROVE Fifo!Drop
  BY <1>4 DEF Dropped, Fifo!Drop
<1>5. ASSUME Emptied PROVE Fifo!Clear
  BY <1>5 DEF Emptied, Fifo!Clear
<1>6. CASE Untouched
  BY <1>6 DEF Untouched
<1> QED
  BY <1>1, <1>2, <1>3, <1>4, <1>5, <1>6, QueueSteps DEF Fifo!Next
\* The queue is first in first out, across restarts of the process and losses of
\* redis.
THEOREM QueueIsFifo == Spec => ImplementsFifo
<1>1. Init => Fifo!Init
  BY DEF Init, Fifo!Init
<1>2. IInv /\ [Next]_vars => [Fifo!Next]_<<messages, handed>>
  BY FifoStep
<1> QED
  BY <1>1, <1>2, Invariance, PTL DEF Spec, ImplementsFifo, Fifo!Spec
================================================================================
