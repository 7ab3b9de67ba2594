------------------------- MODULE ConversionService_proof -------------------------
(***************************************************************************)
(* Proofs about ConversionService for every set of ids, every assignment   *)
(* of wrappers and every MaxTries.                                         *)
(***************************************************************************)
EXTENDS WorkerApi, RestApi_proof, SequenceTheorems, FiniteSetTheorems, TLAPS

Logs == [Ids -> [status : Statuses, retries : Nat]]

\* Only an id whose request has gone through addToConversionQueue has an entry.
LoggedOnce == \A id \in Ids : convLog[id].status = "absent" <=> request[id] # "logged"

\* A worker that has ended has no upload and remembers none.
EndedForgets == ~up => \A id \in Ids : request[id] \notin {"writing", "logged"}

\* What the queue and the log have in common between two turns of convertFile.
QueueFitsLog(q, lg) ==
  /\ \A p \in DOMAIN q : /\ lg[q[p].id].status = "inQueue"
                         /\ lg[q[p].id].retries = q[p].retries
  /\ \A p, r \in DOMAIN q : q[p].id = q[r].id => p = r

\* StartNext may be called with q and lg: nothing is in work.
Ready(q, lg) ==
  /\ q \in Seq(Entries)
  /\ lg \in Logs
  /\ QueueFitsLog(q, lg)
  /\ \A id \in Ids : lg[id].status # "processing"

IInv == TypeOK /\ NoLostWakeup /\ OneStory /\ LoggedOnce /\ EndedForgets

--------------------------------------------------------------------------------
\* The entries that StartNext leaves in the queue keep their order: entry p of
\* the new queue is entry p + k + 1 of the old one.
LEMMA TailOfQueue ==
  ASSUME NEW q \in Seq(Entries), NEW k \in 0 .. Len(q)
  PROVE  LET t == SubSeq(q, k + 2, Len(q))
         IN /\ t \in Seq(Entries)
            /\ \A p \in DOMAIN t : p + k + 1 \in k + 2 .. Len(q) /\ t[p] = q[p + k + 1]
            /\ \A p \in k + 2 .. Len(q) : p - k - 1 \in DOMAIN t /\ t[p - k - 1] = q[p]
            /\ k = Len(q) => t = <<>>
<1> DEFINE t == SubSeq(q, k + 2, Len(q))
<1>1. Len(q) \in Nat /\ k \in Nat /\ k <= Len(q)
  OBVIOUS
<1>2. \A i \in k + 2 .. Len(q) : q[i] \in Entries
  BY <1>1, ElementOfSeq
<1>3. /\ t \in Seq(Entries)
      /\ Len(t) = IF k + 2 <= Len(q) THEN Len(q) - (k + 2) + 1 ELSE 0
      /\ \A i \in 1 .. Len(q) - (k + 2) + 1 : t[i] = q[(k + 2) + i - 1]
  BY ONLY <1>1, <1>2, SubSeqProperties
<1>4. ASSUME NEW p \in DOMAIN t
      PROVE  p + k + 1 \in k + 2 .. Len(q) /\ t[p] = q[p + k + 1]
  <2> HIDE DEF t
  <2>1. p \in 1 .. Len(t)
    BY <1>3
  <2>2. p \in 1 .. Len(q) - (k + 2) + 1 /\ (k + 2) + p - 1 = p + k + 1
    BY <2>1, <1>1, <1>3
  <2> QED BY <2>2, <1>1, <1>3
<1>5. k = Len(q) => t = <<>>
  BY <1>1, SubSeqEmpty
<1>6. ASSUME NEW p \in k + 2 .. Len(q)
      PROVE  p - k - 1 \in DOMAIN t /\ t[p - k - 1] = q[p]
  <2> HIDE DEF t
  <2>1. /\ p - k - 1 \in 1 .. Len(q) - (k + 2) + 1 /\ (k + 2) + (p - k - 1) - 1 = p
        /\ k + 2 <= Len(q)
    BY <1>1
  <2>2. DOMAIN t = 1 .. Len(t) /\ Len(t) = Len(q) - (k + 2) + 1
    BY <1>3, <2>1
  <2> QED
    BY <1>3, <2>1, <2>2
<1> QED
  BY <1>3, <1>4, <1>5, <1>6

\* Giving ids up changes the status of these ids and nothing else of the log.
LEMMA GiveUpChanges ==
  ASSUME NEW lg \in Logs, NEW G
  PROVE  /\ GiveUp(lg, G) \in Logs
         /\ \A id \in Ids :
              /\ id \in G => GiveUp(lg, G)[id].status = "erroneous"
              /\ GiveUp(lg, G)[id].retries = lg[id].retries
              /\ id \notin G => GiveUp(lg, G)[id] = lg[id]
BY DEF GiveUp, Logs, Statuses

\* The entry StartNext starts becomes "processing", the rest of the log stays.
LEMMA StartChanges ==
  ASSUME NEW lg \in Logs, NEW entry \in Entries, Start(entry, lg)
  PROVE  /\ convLog' \in Logs
         /\ entry.id \in Ids
         /\ convLog'[entry.id].status = "processing"
         /\ convLog'[entry.id].retries = lg[entry.id].retries
         /\ \A id \in Ids \ {entry.id} : convLog'[id] = lg[id]
BY DEF Start, Logs, Statuses, Entries

\* The ids of the first k entries of the queue, as a set.
LEMMA GivenUpIds ==
  ASSUME NEW q, NEW lg, Ready(q, lg), NEW k \in 0 .. Len(q)
  PROVE  LET G == HeadIds(q, k)
         IN /\ \A j \in 1 .. Len(q) : /\ q[j] \in Entries
                                      /\ q[j].id \in Ids
                                      /\ lg[q[j].id].status = "inQueue"
                                      /\ lg[q[j].id].retries = q[j].retries
                                      /\ j > k => q[j].id \notin G
            /\ \A id \in G : id \in Ids /\ lg[id].status = "inQueue"
<1> DEFINE G == HeadIds(q, k)
<1>1. q \in Seq(Entries) /\ Len(q) \in Nat /\ DOMAIN q = 1 .. Len(q)
  BY DEF Ready
<1>2. \A j \in 1 .. Len(q) : q[j] \in Entries
  <2> HIDE DEF Entries
  <2> QED BY <1>1, ElementOfSeq
<1>3. \A j \in 1 .. Len(q) : q[j].id \in Ids
  BY <1>2 DEF Entries
<1>4. \A j \in 1 .. Len(q) : lg[q[j].id].status = "inQueue" /\ lg[q[j].id].retries = q[j].retries
  BY <1>1 DEF Ready, QueueFitsLog
<1>5. \A p, r \in 1 .. Len(q) : q[p].id = q[r].id => p = r
  BY <1>1 DEF Ready, QueueFitsLog
<1>6. ASSUME NEW j \in 1 .. Len(q), j > k PROVE q[j].id \notin G
  BY <1>1, <1>5, <1>6 DEF HeadIds
<1>7. ASSUME NEW id \in G PROVE id \in Ids /\ lg[id].status = "inQueue"
  <2>1. PICK j \in 1 .. k : id = q[j].id
    BY DEF HeadIds
  <2>2. j \in 1 .. Len(q)
    BY <1>1
  <2> QED BY <2>1, <2>2, <1>3, <1>4
<1> HIDE DEF G
<1>9. \A j \in 1 .. Len(q) : j > k => q[j].id \notin G
  BY <1>6
<1>10. \A id \in G : id \in Ids /\ lg[id].status = "inQueue"
  BY <1>7
<1> QED
  BY <1>2, <1>3, <1>4, <1>9, <1>10 DEF G

\* StartNext, called when nothing is in work, re-establishes everything the
\* invariant says about the queue, the log and the entry in work.
LEMMA StartNextEstablishes ==
  ASSUME NEW q, NEW lg, NEW f, Ready(q, lg), f \subseteq Ids, StartNext(q, lg, f)
  PROVE  /\ queue' \in Seq(Entries)
         /\ convLog' \in Logs
         /\ isConverting' \in BOOLEAN
         /\ current' \in Entries \cup {NoFile}
         /\ stage' \in {"idle", "starting", "running", "saving", "killing"}
         /\ input' \subseteq Ids
         /\ NoLostWakeup'
         /\ OneStory'
         /\ \A id \in Ids : convLog'[id].status = "absent" <=> lg[id].status = "absent"
<1>1. PICK k \in 0 .. Len(q) :
        LET G == HeadIds(q, k)
        IN /\ queue' = SubSeq(q, k + 2, Len(q))
           /\ input' = f \ G
           /\ \/ k = Len(q) /\ Rest(GiveUp(lg, G))
              \/ k < Len(q) /\ Start(q[k + 1], GiveUp(lg, G))
  BY Zenon DEF StartNext
<1> DEFINE G == HeadIds(q, k)
           given == GiveUp(lg, G)
<1>2. /\ q \in Seq(Entries) /\ Len(q) \in Nat /\ DOMAIN q = 1 .. Len(q)
      /\ lg \in Logs /\ k \in Nat
  BY DEF Ready
<1>3. /\ \A j \in 1 .. Len(q) : /\ q[j] \in Entries
                                /\ q[j].id \in Ids
                                /\ lg[q[j].id].status = "inQueue"
                                /\ lg[q[j].id].retries = q[j].retries
                                /\ j > k => q[j].id \notin G
      /\ \A id \in G : id \in Ids /\ lg[id].status = "inQueue"
  BY GivenUpIds
<1>4. /\ given \in Logs
      /\ \A id \in Ids : /\ id \in G => given[id].status = "erroneous"
                         /\ given[id].retries = lg[id].retries
                         /\ id \notin G => given[id] = lg[id]
  BY <1>2, GiveUpChanges
<1>5. /\ queue' \in Seq(Entries)
      /\ \A p \in DOMAIN queue' : p + k + 1 \in k + 2 .. Len(q) /\ queue'[p] = q[p + k + 1]
      /\ k = Len(q) => queue' = <<>>
  BY <1>1, <1>2, TailOfQueue
<1>6. \A p, r \in 1 .. Len(q) : q[p].id = q[r].id => p = r
  BY <1>2 DEF Ready, QueueFitsLog
<1>7. \A id \in Ids : lg[id].status # "processing"
  BY DEF Ready
<1>8. \A p \in DOMAIN queue' : p \in Nat \ {0}
  BY <1>5
<1> HIDE DEF G, given
<1>9. input' \subseteq Ids
  BY <1>1 DEF G
<1>10. ASSUME NEW p \in DOMAIN queue'
       PROVE  /\ given[queue'[p].id].status = "inQueue"
              /\ given[queue'[p].id].retries = queue'[p].retries
  <2>1. p + k + 1 \in k + 2 .. Len(q) /\ queue'[p] = q[p + k + 1]
    BY <1>5
  <2>2. queue'[p].id \in Ids /\ queue'[p].id \notin G
    BY <2>1, <1>3
  <2>3. given[queue'[p].id] = lg[queue'[p].id]
    BY <2>2, <1>4
  <2> QED BY <2>1, <2>3, <1>3
<1>11. \A p, r \in DOMAIN queue' : queue'[p].id = queue'[r].id => p = r
  <2> SUFFICES ASSUME NEW p \in DOMAIN queue', NEW r \in DOMAIN queue',
                      queue'[p].id = queue'[r].id
               PROVE  p = r
    OBVIOUS
  <2>1. /\ p + k + 1 \in k + 2 .. Len(q) /\ queue'[p] = q[p + k + 1]
        /\ r + k + 1 \in k + 2 .. Len(q) /\ queue'[r] = q[r + k + 1]
    BY <1>5
  <2>2. p + k + 1 = r + k + 1
    BY <2>1, <1>6
  <2> QED BY <2>2, <1>2, <1>8
<1>12. CASE k = Len(q) /\ Rest(given)
  <2>1. /\ queue' = <<>> /\ convLog' = given /\ isConverting' = FALSE
        /\ current' = NoFile /\ stage' = "idle"
    BY <1>5, <1>12 DEF Rest
  <2>2. \A id \in Ids : given[id].status # "processing"
    BY <1>4, <1>7
  <2>3. NoLostWakeup'
    BY <2>1 DEF NoLostWakeup
  <2>4. OneStory'
    BY <2>1, <2>2, <1>10, <1>11 DEF OneStory
  <2>5. \A id \in Ids : convLog'[id].status = "absent" <=> lg[id].status = "absent"
    BY <2>1, <1>3, <1>4
  <2> QED BY <2>1, <2>3, <2>4, <2>5, <1>4, <1>5, <1>9
<1>13. CASE k < Len(q) /\ Start(q[k + 1], given)
  <2> DEFINE entry == q[k + 1]
  <2>1. /\ k + 1 \in 1 .. Len(q) /\ entry \in Entries /\ entry.id \in Ids
        /\ entry.id \notin G
        /\ lg[entry.id].status = "inQueue" /\ lg[entry.id].retries = entry.retries
    BY <1>2, <1>3, <1>13
  <2> HIDE DEF entry
  <2>2. /\ convLog' \in Logs
        /\ convLog'[entry.id].status = "processing"
        /\ convLog'[entry.id].retries = given[entry.id].retries
        /\ \A id \in Ids \ {entry.id} : convLog'[id] = given[id]
    BY <2>1, <1>4, <1>13, StartChanges DEF entry
  <2>3. isConverting' = TRUE /\ current' = entry /\ stage' \in {"starting", "running"}
    BY <1>13 DEF Start, entry
  <2>4. NoLostWakeup'
    BY <2>3 DEF NoLostWakeup
  <2>5. ASSUME NEW p \in DOMAIN queue' PROVE queue'[p].id \in Ids \ {entry.id}
    <3>1. p + k + 1 \in k + 2 .. Len(q) /\ queue'[p] = q[p + k + 1]
      BY <1>5
    <3>2. p + k + 1 \in 1 .. Len(q) /\ p + k + 1 # k + 1
      BY <3>1, <1>2
    <3> QED BY <3>1, <3>2, <2>1, <1>2, <1>3, <1>6 DEF entry
  <2>6. \A id \in Ids : convLog'[id].status = "processing" <=> id = entry.id
    BY <2>1, <2>2, <1>4, <1>7
  <2>7. OneStory'
    <3>1. \A p \in DOMAIN queue' :
            /\ convLog'[queue'[p].id].status = "inQueue"
            /\ convLog'[queue'[p].id].retries = queue'[p].retries
      BY <2>2, <2>5, <1>10
    <3>2. convLog'[entry.id].retries = entry.retries
      BY <2>1, <2>2, <1>4
    <3>3. (\A id \in Ids : convLog[id].status = "processing"
                              <=> isConverting /\ current.id = id)'
      BY <2>3, <2>6
    <3>4. entry # NoFile
      BY <2>1, NoFileAssumption
    <3> QED BY <2>3, <3>1, <3>2, <3>3, <3>4, <1>11 DEF OneStory
  <2>8. \A id \in Ids : convLog'[id].status = "absent" <=> lg[id].status = "absent"
    BY <2>1, <2>2, <1>3, <1>4
  <2> QED BY <2>1, <2>2, <2>3, <2>4, <2>7, <2>8, <1>5, <1>9
<1> QED
  BY <1>1, <1>12, <1>13 DEF G, given

\* The entries of a queue are entries.
LEMMA QueueElements ==
  ASSUME NEW q \in Seq(Entries)
  PROVE  \A p \in DOMAIN q : q[p] \in Entries /\ q[p].id \in Ids /\ q[p].retries \in Nat
<1>1. \A p \in DOMAIN q : q[p] \in Entries
  <2> HIDE DEF Entries
  <2> QED OBVIOUS
<1> QED BY <1>1 DEF Entries

\* push: the new entry is behind the old ones, which stay where they are.
LEMMA PushToQueue ==
  ASSUME NEW q \in Seq(Entries), NEW entry \in Entries
  PROVE  /\ Append(q, entry) \in Seq(Entries)
         /\ DOMAIN q = 1 .. Len(q) /\ Len(q) \in Nat
         /\ DOMAIN Append(q, entry) = 1 .. Len(q) + 1
         /\ \A p \in 1 .. Len(q) : Append(q, entry)[p] = q[p]
         /\ Append(q, entry)[Len(q) + 1] = entry
<1> HIDE DEF Entries
<1> QED OBVIOUS

\* Queueing an entry whose id is not queued keeps queue and log in step.
LEMMA PushFits ==
  ASSUME NEW q \in Seq(Entries), NEW lg \in Logs, QueueFitsLog(q, lg),
         NEW entry \in Entries, lg[entry.id].status # "inQueue"
  PROVE  LET lg2 == [lg EXCEPT ![entry.id] = [status |-> "inQueue", retries |-> entry.retries]]
         IN lg2 \in Logs /\ QueueFitsLog(Append(q, entry), lg2)
<1> DEFINE lg2 == [lg EXCEPT ![entry.id] = [status |-> "inQueue", retries |-> entry.retries]]
           q2 == Append(q, entry)
<1>1. entry.id \in Ids /\ entry.retries \in Nat
  BY DEF Entries
<1>2. lg2 \in Logs
  BY <1>1 DEF Logs, Statuses
<1>3. /\ DOMAIN q = 1 .. Len(q) /\ Len(q) \in Nat
      /\ DOMAIN q2 = 1 .. Len(q) + 1
      /\ \A p \in 1 .. Len(q) : q2[p] = q[p]
      /\ q2[Len(q) + 1] = entry
  BY PushToQueue
<1>4. \A p \in 1 .. Len(q) : q[p].id \in Ids
  BY <1>3, QueueElements
<1>5. /\ lg2[entry.id].status = "inQueue" /\ lg2[entry.id].retries = entry.retries
      /\ \A id \in Ids \ {entry.id} : lg2[id] = lg[id]
  BY <1>1 DEF Logs
<1>6. \A p \in 1 .. Len(q) : q[p].id # entry.id
  BY <1>3 DEF QueueFitsLog
<1> HIDE DEF lg2, q2
<1>7. \A p \in DOMAIN q2 : p \in 1 .. Len(q) \/ p = Len(q) + 1
  BY <1>3
<1>8. \A p \in DOMAIN q2 : /\ lg2[q2[p].id].status = "inQueue"
                           /\ lg2[q2[p].id].retries = q2[p].retries
  BY <1>3, <1>4, <1>5, <1>6, <1>7 DEF QueueFitsLog
<1>9. \A p, r \in DOMAIN q2 : q2[p].id = q2[r].id => p = r
  BY <1>3, <1>6, <1>7 DEF QueueFitsLog
<1> QED BY <1>2, <1>8, <1>9 DEF QueueFitsLog, lg2, q2

\* Changing the status of an id that is not queued does not concern the queue.
LEMMA StatusFits ==
  ASSUME NEW q \in Seq(Entries), NEW lg \in Logs, QueueFitsLog(q, lg),
         NEW id \in Ids, lg[id].status # "inQueue", NEW st \in Statuses
  PROVE  LET lg2 == [lg EXCEPT ![id].status = st]
         IN lg2 \in Logs /\ QueueFitsLog(q, lg2)
<1> DEFINE lg2 == [lg EXCEPT ![id].status = st]
<1>1. lg2 \in Logs /\ \A i \in Ids \ {id} : lg2[i] = lg[i]
  BY DEF Logs
<1>2. \A p \in DOMAIN q : q[p].id \in Ids \ {id}
  BY QueueElements DEF QueueFitsLog
<1> HIDE DEF lg2
<1> QED BY <1>1, <1>2 DEF QueueFitsLog, lg2

--------------------------------------------------------------------------------
\* Between two callbacks the queue fits the log.
LEMMA OneStoryFits ==
  ASSUME TypeOK, OneStory
  PROVE  /\ queue \in Seq(Entries) /\ convLog \in Logs /\ QueueFitsLog(queue, convLog)
         /\ input \subseteq Ids
BY DEF TypeOK, OneStory, QueueFitsLog, Logs

\* What StartNext owes the invariant once the action has seen to the rest.
LEMMA StartNextKeepsIInv ==
  ASSUME IInv, NEW q, NEW lg, NEW f, Ready(q, lg), f \subseteq Ids,
         StartNext(q, lg, f), UNCHANGED <<up, ffmpegs>>, up,
         request' \in [Ids -> {"new", "writing", "refused", "logged", "lost"}],
         output' \in [Ids -> {"none", "partial", "complete"}],
         \A id \in Ids : lg[id].status = "absent" <=> request'[id] # "logged"
  PROVE  IInv'
<1>1. up' = TRUE /\ ffmpegs' \in [Ids -> Nat] /\ EndedForgets'
  BY DEF IInv, TypeOK, EndedForgets
<1>2. /\ queue' \in Seq(Entries)
      /\ convLog' \in Logs
      /\ isConverting' \in BOOLEAN
      /\ current' \in Entries \cup {NoFile}
      /\ stage' \in {"idle", "starting", "running", "saving", "killing"}
      /\ input' \subseteq Ids
      /\ NoLostWakeup'
      /\ OneStory'
      /\ \A id \in Ids : convLog'[id].status = "absent" <=> lg[id].status = "absent"
  BY StartNextEstablishes
<1>3. TypeOK'
  BY <1>1, <1>2 DEF TypeOK, Logs
<1>4. LoggedOnce'
  BY <1>2 DEF LoggedOnce
<1> QED BY <1>1, <1>2, <1>3, <1>4 DEF IInv

\* Whatever is in work is in a worker that runs.
LEMMA BusyIsUp ==
  ASSUME IInv, isConverting
  PROVE  up /\ current.id \in Ids
BY DEF IInv, TypeOK, OneStory, LoggedOnce, EndedForgets, Entries

\* A wrapper's success, and what follows it, preserves the invariant.
LEMMA ConvertedKeepsIInv ==
  ASSUME IInv, NEW id \in Ids, isConverting, current.id = id, Converted(id),
         UNCHANGED <<up, request, ffmpegs>>,
         output' \in [Ids -> {"none", "partial", "complete"}]
  PROVE  IInv'
<1> DEFINE st == IF id \in input THEN "converted" ELSE "inQueue"
           lg == [convLog EXCEPT ![id].status = st]
<1>1. StartNext(queue, lg, input \ {id})
  BY Zenon DEF Converted
<1>2. /\ queue \in Seq(Entries) /\ convLog \in Logs /\ QueueFitsLog(queue, convLog)
      /\ input \subseteq Ids
  BY OneStoryFits DEF IInv
<1>3. /\ convLog[id].status = "processing"
      /\ \A i \in Ids : convLog[i].status = "processing" => i = id
  BY DEF IInv, OneStory
<1>4. st \in Statuses /\ st # "processing" /\ st # "absent"
  BY DEF Statuses
<1> HIDE DEF st
<1>5. lg \in Logs /\ QueueFitsLog(queue, lg)
  BY <1>2, <1>3, <1>4, StatusFits
<1>6. lg[id].status = st /\ \A i \in Ids \ {id} : lg[i] = convLog[i]
  BY <1>2 DEF Logs
<1> HIDE DEF lg
<1>7. Ready(queue, lg)
  BY <1>2, <1>3, <1>4, <1>5, <1>6 DEF Ready
<1>8. \A i \in Ids : lg[i].status = "absent" <=> request'[i] # "logged"
  BY <1>3, <1>4, <1>6 DEF IInv, LoggedOnce
<1>9. request' \in [Ids -> {"new", "writing", "refused", "logged", "lost"}]
  BY DEF IInv, TypeOK
<1> QED BY <1>1, <1>2, <1>7, <1>8, <1>9, BusyIsUp, StartNextKeepsIInv

\* A failed attempt, and what follows it, preserves the invariant.
LEMMA FailedKeepsIInv ==
  ASSUME IInv, NEW id \in Ids, isConverting, current.id = id, Failed(id),
         UNCHANGED <<up, request, ffmpegs>>,
         output' \in [Ids -> {"none", "partial", "complete"}]
  PROVE  IInv'
<1> DEFINE tries == current.retries + 1
<1>1. /\ queue \in Seq(Entries) /\ convLog \in Logs /\ QueueFitsLog(queue, convLog)
      /\ input \subseteq Ids
  BY OneStoryFits DEF IInv
<1>2. /\ convLog[id].status = "processing"
      /\ \A i \in Ids : convLog[i].status = "processing" => i = id
  BY DEF IInv, OneStory
<1>3. request' \in [Ids -> {"new", "writing", "refused", "logged", "lost"}]
  BY DEF IInv, TypeOK
<1>4. CASE tries > MaxTries
  <2> DEFINE lg == [convLog EXCEPT ![id].status = "erroneous"]
  <2>1. StartNext(queue, lg, input \ {id})
    BY <1>4, Zenon DEF Failed, Enqueue
  <2>2. lg \in Logs /\ QueueFitsLog(queue, lg)
    BY <1>1, <1>2, StatusFits DEF Statuses
  <2>3. lg[id].status = "erroneous" /\ \A i \in Ids \ {id} : lg[i] = convLog[i]
    BY <1>1 DEF Logs
  <2> HIDE DEF lg
  <2>4. Ready(queue, lg)
    BY <1>1, <1>2, <2>2, <2>3 DEF Ready
  <2>5. \A i \in Ids : lg[i].status = "absent" <=> request'[i] # "logged"
    BY <1>2, <2>3 DEF IInv, LoggedOnce
  <2> QED BY <1>1, <1>3, <2>1, <2>4, <2>5, BusyIsUp, StartNextKeepsIInv
<1>5. CASE ~(tries > MaxTries)
  <2> DEFINE entry == [id |-> id, retries |-> tries]
             lg == [convLog EXCEPT ![id] = [status |-> "inQueue", retries |-> tries]]
  <2>1. StartNext(Append(queue, entry), lg, input)
    BY <1>5, Zenon DEF Failed, Enqueue
  <2>2. tries \in Nat
    <3>1. current \in Entries
      BY DEF IInv, TypeOK, OneStory
    <3> QED BY <3>1 DEF Entries
  <2> HIDE DEF tries
  <2>3. entry \in Entries /\ entry.id = id /\ entry.retries = tries
    BY <2>2 DEF Entries
  <2>4. lg \in Logs /\ QueueFitsLog(Append(queue, entry), lg) /\ Append(queue, entry) \in Seq(Entries)
    <3> HIDE DEF entry
    <3>1. lg = [convLog EXCEPT ![entry.id] = [status |-> "inQueue", retries |-> entry.retries]]
      BY <2>3
    <3>2. convLog[entry.id].status # "inQueue"
      BY <1>2, <2>3
    <3> HIDE DEF lg
    <3> QED BY <1>1, <2>3, <3>1, <3>2, PushFits, PushToQueue
  <2>5. lg[id].status = "inQueue" /\ \A i \in Ids \ {id} : lg[i] = convLog[i]
    BY <1>1 DEF Logs
  <2> HIDE DEF lg, entry
  <2>6. Ready(Append(queue, entry), lg)
    BY <1>2, <2>4, <2>5 DEF Ready
  <2>7. \A i \in Ids : lg[i].status = "absent" <=> request'[i] # "logged"
    BY <1>2, <2>5 DEF IInv, LoggedOnce
  <2> QED BY <1>1, <1>3, <2>1, <2>6, <2>7, BusyIsUp, StartNextKeepsIInv
<1> QED BY <1>4, <1>5

\* A finished upload is queued, and started when the worker is idle.
LEMMA AddKeepsIInv ==
  ASSUME IInv, NEW id \in Ids, AddToConversionQueue(id)
  PROVE  IInv'
<1> DEFINE entry == [id |-> id, retries |-> 0]
           q == Append(queue, entry)
           lg == [convLog EXCEPT ![id] = [status |-> "inQueue", retries |-> 0]]
           f == input \cup {id}
<1>1. /\ queue \in Seq(Entries) /\ convLog \in Logs /\ QueueFitsLog(queue, convLog)
      /\ input \subseteq Ids
  BY OneStoryFits DEF IInv
<1>2. /\ request[id] = "writing"
      /\ request' = [request EXCEPT ![id] = "logged"]
      /\ output' = output /\ up' = up /\ ffmpegs' = ffmpegs
  BY Zenon DEF AddToConversionQueue, Enqueue
<1>3. convLog[id].status = "absent" /\ up
  BY <1>2 DEF IInv, LoggedOnce, EndedForgets
<1>4. entry \in Entries /\ entry.id = id /\ entry.retries = 0
  BY DEF Entries
<1>5. lg \in Logs /\ QueueFitsLog(q, lg) /\ q \in Seq(Entries)
  <2> HIDE DEF entry
  <2>1. lg = [convLog EXCEPT ![entry.id] = [status |-> "inQueue", retries |-> entry.retries]]
    BY <1>4
  <2> HIDE DEF lg
  <2> QED BY <1>1, <1>3, <1>4, <2>1, PushFits, PushToQueue
<1>6. /\ lg[id].status = "inQueue" /\ lg[id].retries = 0
      /\ \A i \in Ids \ {id} : lg[i] = convLog[i]
  BY <1>1 DEF Logs
<1>7. /\ request' \in [Ids -> {"new", "writing", "refused", "logged", "lost"}]
      /\ output' \in [Ids -> {"none", "partial", "complete"}]
  BY <1>2 DEF IInv, TypeOK
<1>8. \A i \in Ids : lg[i].status = "absent" <=> request'[i] # "logged"
  BY <1>2, <1>6 DEF IInv, LoggedOnce, TypeOK
<1>9. CASE isConverting
  <2>1. /\ queue' = q /\ convLog' = lg /\ input' = f
        /\ UNCHANGED <<isConverting, current, stage>>
    BY <1>9, Zenon DEF AddToConversionQueue, Enqueue
  <2> HIDE DEF q, lg
  <2>2. TypeOK'
    BY <1>1, <1>2, <1>5, <1>7, <2>1 DEF IInv, TypeOK, Logs
  <2>3. current.id # id
    BY <1>3, <1>9 DEF IInv, OneStory
  <2>4. current.id \in Ids
    BY <1>9 DEF IInv, TypeOK, OneStory, Entries
  <2>5. OneStory'
    BY <2>1, <2>3, <2>4, <1>5, <1>6, <1>9 DEF IInv, OneStory, QueueFitsLog
  <2>6. NoLostWakeup' /\ LoggedOnce' /\ EndedForgets'
    BY <2>1, <1>2, <1>3, <1>8, <1>9 DEF NoLostWakeup, LoggedOnce, EndedForgets
  <2> QED BY <2>2, <2>5, <2>6 DEF IInv
<1>10. CASE ~isConverting
  <2>1. StartNext(q, lg, f)
    BY <1>10, Zenon DEF AddToConversionQueue, Enqueue
  <2> HIDE DEF q, lg
  <2>2. Ready(q, lg)
    BY <1>5, <1>6, <1>10 DEF Ready, IInv, OneStory
  <2> QED BY <1>1, <1>2, <1>3, <1>7, <1>8, <2>1, <2>2, StartNextKeepsIInv
<1> QED BY <1>9, <1>10

\* A worker that ends remembers nothing, and nothing is in work.
LEMMA EndKeepsIInv ==
  ASSUME IInv, WorkerEnds
  PROVE  IInv'
<1>1. queue' \in Seq(Entries) /\ DOMAIN queue' = {}
  <2> HIDE DEF Entries
  <2> QED BY DEF WorkerEnds
<1>2. /\ convLog' \in [Ids -> [status : Statuses, retries : Nat]]
      /\ \A id \in Ids : convLog'[id].status = "absent"
  BY DEF WorkerEnds, EmptyLog, Statuses
<1>3. /\ request' \in [Ids -> {"new", "writing", "refused", "logged", "lost"}]
      /\ \A id \in Ids : request'[id] \notin {"writing", "logged"}
  BY DEF WorkerEnds, IInv, TypeOK
<1>4. TypeOK'
  BY <1>1, <1>2, <1>3 DEF WorkerEnds, IInv, TypeOK
<1>5. NoLostWakeup' /\ OneStory'
  BY <1>1, <1>2 DEF WorkerEnds, NoLostWakeup, OneStory
<1> QED
  BY <1>2, <1>3, <1>4, <1>5 DEF IInv, LoggedOnce, EndedForgets

\* The processes of an id are counted: two more when its command runs, one less
\* when one of them exits, and those of the others stay.
LEMMA ProcessesCounted ==
  ASSUME IInv, NEW id \in Ids, FfmpegRuns(id) \/ FfmpegExit(id)
  PROVE  /\ ffmpegs' \in [Ids -> Nat]
         /\ \A i \in Ids \ {id} : ffmpegs'[i] = ffmpegs[i]
         /\ FfmpegExit(id) => ffmpegs[id] > 0 /\ ffmpegs'[id] = ffmpegs[id] - 1
<1>1. ffmpegs \in [Ids -> Nat]
  BY DEF IInv, TypeOK
<1>2. CASE FfmpegRuns(id)
  <2>1. ffmpegs' = [ffmpegs EXCEPT ![id] = ffmpegs[id] + 2]
    BY <1>2 DEF FfmpegRuns
  <2>2. ~FfmpegExit(id)
    <3>1. ffmpegs[id] \in Nat /\ ffmpegs'[id] = ffmpegs[id] + 2
      BY <1>1, <2>1
    <3>2. FfmpegExit(id) => ffmpegs'[id] = ffmpegs[id] - 1
      BY <1>1 DEF FfmpegExit
    <3> QED BY <3>1, <3>2
  <2> QED BY <1>1, <2>1, <2>2
<1>3. CASE FfmpegExit(id)
  <2>1. ffmpegs[id] > 0 /\ ffmpegs' = [ffmpegs EXCEPT ![id] = ffmpegs[id] - 1]
    BY <1>3 DEF FfmpegExit
  <2>2. ffmpegs[id] - 1 \in Nat
    BY <1>1, <2>1
  <2> QED BY <1>1, <2>1, <2>2
<1> QED BY <1>2, <1>3

\* Every step of the worker preserves the invariant.
LEMMA NextKeepsIInv ==
  ASSUME IInv, [Next]_vars
  PROVE  IInv'
<1>1. ASSUME NEW id \in Ids, Scheduled(id) PROVE IInv'
  <2>1. CASE AddToConversionQueue(id)
    BY <2>1, AddKeepsIInv
  <2>2. CASE WriteFails(id)
    BY <2>2 DEF WriteFails, IInv, TypeOK, NoLostWakeup, OneStory, LoggedOnce, EndedForgets
  <2>3. CASE UnoconvTimeout(id)
    BY <2>3 DEF UnoconvTimeout, IInv, TypeOK, NoLostWakeup, OneStory, LoggedOnce, EndedForgets
  <2>4. CASE UnoconvKilled(id)
    BY <2>4, FailedKeepsIInv DEF UnoconvKilled, Waits, IInv, TypeOK
  <2>5. CASE UnoconvSaved(id)
    BY <2>5, ConvertedKeepsIInv DEF UnoconvSaved, Waits, IInv, TypeOK
  <2>6. CASE UnoconvSaveFails(id)
    BY <2>6, FailedKeepsIInv DEF UnoconvSaveFails, Waits, IInv, TypeOK
  <2>7. CASE FfmpegTimer(id)
    BY <2>7, ConvertedKeepsIInv DEF FfmpegTimer, Waits, IInv, TypeOK
  <2>8. CASE FfmpegRuns(id)
    BY <2>8 DEF FfmpegRuns, IInv, TypeOK, NoLostWakeup, OneStory, LoggedOnce, EndedForgets
  <2>9. CASE FfmpegThrows(id)
    BY <2>9, FailedKeepsIInv DEF FfmpegThrows, Waits, IInv, TypeOK
  <2> QED BY <1>1, <2>1, <2>2, <2>3, <2>4, <2>5, <2>6, <2>7, <2>8, <2>9 DEF Scheduled
<1>2. ASSUME NEW id \in Ids, External(id) PROVE IInv'
  <2>1. CASE ReceiveRequest(id)
    BY <2>1 DEF ReceiveRequest, IInv, TypeOK, NoLostWakeup, OneStory, LoggedOnce, EndedForgets
  <2>2. CASE RefuseRequest(id)
    BY <2>2 DEF RefuseRequest, IInv, TypeOK, NoLostWakeup, OneStory, LoggedOnce, EndedForgets
  <2>3. CASE UnoconvExit(id)
    BY <2>3 DEF UnoconvExit, IInv, TypeOK, NoLostWakeup, OneStory, LoggedOnce, EndedForgets
  <2>4. CASE UnoconvError(id)
    BY <2>4, FailedKeepsIInv DEF UnoconvError, Waits, IInv, TypeOK
  <2>5. CASE ImageMagickWritten(id)
    BY <2>5, ConvertedKeepsIInv DEF ImageMagickWritten, Waits, IInv, TypeOK
  <2>6. CASE ImageMagickError(id)
    BY <2>6, FailedKeepsIInv DEF ImageMagickError, Waits, IInv, TypeOK
  <2>7. CASE FfmpegExit(id)
    <3>1. ffmpegs' \in [Ids -> Nat]
      BY <2>7, ProcessesCounted
    <3>2. output' \in [Ids -> {"none", "partial", "complete"}]
      BY <2>7 DEF FfmpegExit, IInv, TypeOK
    <3>3. UNCHANGED <<up, request, queue, convLog, isConverting, current, stage, input>>
      BY <2>7 DEF FfmpegExit
    <3> QED
      BY <3>1, <3>2, <3>3 DEF IInv, TypeOK, NoLostWakeup, OneStory, LoggedOnce,
         EndedForgets
  <2>8. CASE InputVanishes(id)
    BY <2>8 DEF InputVanishes, IInv, TypeOK, NoLostWakeup, OneStory, LoggedOnce, EndedForgets
  <2>9. CASE FfmpegWrites(id)
    BY <2>9 DEF FfmpegWrites, IInv, TypeOK, NoLostWakeup, OneStory, LoggedOnce, EndedForgets
  <2>10. CASE UnoconvCannotStart(id) \/ FfmpegFails(id)
    BY <2>10, EndKeepsIInv DEF UnoconvCannotStart, FfmpegFails
  <2> QED BY <1>2, <2>1, <2>2, <2>3, <2>4, <2>5, <2>6, <2>7, <2>8, <2>9, <2>10 DEF External
<1>3. CASE UNCHANGED vars
  BY <1>3 DEF vars, IInv, TypeOK, NoLostWakeup, OneStory, LoggedOnce, EndedForgets
<1> QED BY <1>1, <1>2, <1>3 DEF Next

\* The invariant holds in every reachable state of the worker.
LEMMA Invariance == Spec => []IInv
<1>1. Init => IInv
  <2> SUFFICES ASSUME Init PROVE IInv
    OBVIOUS
  <2>1. TypeOK
    <3>1. queue \in Seq(Entries)
      <4> HIDE DEF Entries
      <4> QED BY DEF Init
    <3>2. convLog \in [Ids -> [status : Statuses, retries : Nat]]
      BY DEF Init, EmptyLog, Statuses
    <3>3. request \in [Ids -> {"new", "writing", "refused", "logged", "lost"}]
      BY DEF Init
    <3>4. output \in [Ids -> {"none", "partial", "complete"}]
      BY DEF Init
    <3> QED BY <3>1, <3>2, <3>3, <3>4 DEF Init, TypeOK
  <2>2. \A id \in Ids : convLog[id].status = "absent"
    BY DEF Init, EmptyLog
  <2>3. queue = <<>> /\ DOMAIN queue = {}
    BY DEF Init
  <2>4. OneStory
    BY <2>2, <2>3 DEF Init, OneStory
  <2> QED BY <2>1, <2>2, <2>4 DEF Init, IInv, NoLostWakeup, LoggedOnce, EndedForgets
<1> QED BY <1>1, NextKeepsIInv, PTL DEF Spec

\* Every variable of the worker keeps its type (the fields of ConversionQueue
\* and the files under input/ and output/).
THEOREM TypeCorrect == Spec => []TypeOK
BY Invariance, PTL DEF IInv

\* update() never forgets the queue: an idle worker has an empty one.
THEOREM NoLostWakeups == Spec => []NoLostWakeup
BY Invariance, PTL DEF IInv

\* The queue, the log and the entry in work agree, whatever order uploads,
\* process exits, timers and file operations come in.
THEOREM QueueAndLogAgree == Spec => []OneStory
BY Invariance, PTL DEF IInv

--------------------------------------------------------------------------------
(***************************************************************************)
(* The lifecycle of a request: ConversionService keeps the promise of      *)
(* ConversionLifecycle, it keeps an input file exactly as long as an       *)
(* attempt may follow, and the position a waiting request is told never    *)
(* grows.  The first two need input files that nobody else removes:        *)
(* deleteFile rejects otherwise, and "inQueue" is written over a result.   *)
(***************************************************************************)
\* The retries of the log: an attempt is made only while there are tries left,
\* and a request is given up exactly when there are none.
TriesFit(lg) ==
  \A id \in Ids :
    /\ lg[id].retries \in 0 .. MaxTries
    /\ lg[id].status = "absent" => lg[id].retries = 0
    /\ lg[id].status = "processing" => lg[id].retries < MaxTries
    /\ lg[id].status = "erroneous" => lg[id].retries = MaxTries

\* InputLivesUntilSettled for a log and a set of input files.
InputFits(lg, f) ==
  \A id \in Ids :
    /\ lg[id].status \in {"inQueue", "processing"} => id \in f
    /\ lg[id].status \in {"converted", "erroneous"} => id \notin f

\* What StartNext makes of the log lg and the input files f: a waiting request
\* may be given up, with its input, or be started.
Turned(lg, f) ==
  \A id \in Ids :
    /\ convLog'[id].retries = lg[id].retries
    /\ \/ /\ convLog'[id].status = lg[id].status
          /\ id \in input' <=> id \in f
       \/ /\ lg[id].status = "inQueue" /\ lg[id].retries >= MaxTries
          /\ convLog'[id].status = "erroneous"
          /\ id \notin input'
       \/ /\ lg[id].status = "inQueue" /\ lg[id].retries < MaxTries
          /\ convLog'[id].status = "processing"
          /\ id \in input' <=> id \in f

\* Processes of ffmpeg run for the attempt in work or for a result that was
\* announced before they ended, and an attempt starts without any.
ProcessesFit ==
  /\ \A id \in Ids : ffmpegs[id] > 0 => /\ Converter[id] = "ffmpeg"
                                         /\ convLog[id].status \in {"processing", "converted"}
  /\ isConverting /\ stage = "starting" => ffmpegs[current.id] = 0

\* What is in work afterwards was there before, or waited in the log lg.
Picked(lg) ==
  isConverting' => \/ current'.id \in Ids /\ lg[current'.id].status = "inQueue"
                   \/ UNCHANGED <<isConverting, current, stage>>

\* Entries keep their order: the new queue is a tail of q.
Shortened(q) ==
  \E d \in Nat : \A p \in DOMAIN queue' : p + d \in DOMAIN q /\ queue'[p] = q[p + d]

\* Whoever still waits keeps an entry.
Kept(q) ==
  \A p \in DOMAIN q :
    convLog'[q[p].id].status = "inQueue" => \E r \in DOMAIN queue' : queue'[r].id = q[p].id

--------------------------------------------------------------------------------
(***************************************************************************)
(* The steps of the worker, as far as queue, log and input files go.       *)
(***************************************************************************)
LEMMA StartNextTurns ==
  ASSUME NEW q, NEW lg, NEW f, Ready(q, lg), StartNext(q, lg, f)
  PROVE  Turned(lg, f) /\ Shortened(q) /\ Kept(q) /\ Picked(lg)
<1>1. PICK k \in 0 .. Len(q) :
        LET G == HeadIds(q, k)
        IN /\ \A j \in 1 .. k : Exhausted(q[j])
           /\ queue' = SubSeq(q, k + 2, Len(q))
           /\ input' = f \ G
           /\ \/ k = Len(q) /\ Rest(GiveUp(lg, G))
              \/ k < Len(q) /\ ~Exhausted(q[k + 1]) /\ Start(q[k + 1], GiveUp(lg, G))
  BY Zenon DEF StartNext
<1> DEFINE G == HeadIds(q, k)
           given == GiveUp(lg, G)
<1>2. /\ q \in Seq(Entries) /\ Len(q) \in Nat /\ DOMAIN q = 1 .. Len(q)
      /\ lg \in Logs /\ k \in Nat /\ k <= Len(q)
  BY DEF Ready
<1>3. /\ \A j \in 1 .. Len(q) : /\ q[j] \in Entries
                                /\ q[j].id \in Ids
                                /\ lg[q[j].id].status = "inQueue"
                                /\ lg[q[j].id].retries = q[j].retries
                                /\ j > k => q[j].id \notin G
      /\ \A id \in G : id \in Ids /\ lg[id].status = "inQueue"
  BY GivenUpIds
<1>4. /\ given \in Logs
      /\ \A id \in Ids : /\ id \in G => given[id].status = "erroneous"
                         /\ given[id].retries = lg[id].retries
                         /\ id \notin G => given[id] = lg[id]
  BY <1>2, GiveUpChanges
<1>5. Shortened(q)
  <2>1. \A p \in DOMAIN queue' : p + (k + 1) \in DOMAIN q /\ queue'[p] = q[p + (k + 1)]
    <3>1. /\ queue' \in Seq(Entries)
          /\ \A p \in DOMAIN queue' : p + k + 1 \in k + 2 .. Len(q) /\ queue'[p] = q[p + k + 1]
      BY <1>1, <1>2, TailOfQueue
    <3>2. \A p \in DOMAIN queue' : p \in Nat
      BY <3>1
    <3> QED
      BY <3>1, <3>2, <1>2
  <2>2. k + 1 \in Nat
    BY <1>2
  <2> QED
    BY <2>1, <2>2 DEF Shortened
<1>6. \A id \in G : lg[id].retries >= MaxTries
  <2> SUFFICES ASSUME NEW id \in G
               PROVE  lg[id].retries >= MaxTries
    OBVIOUS
  <2>1. PICK j \in 1 .. k : id = q[j].id
    BY DEF HeadIds
  <2>2. j \in 1 .. Len(q)
    BY <1>2
  <2>3. Exhausted(q[j])
    BY <1>1
  <2> QED
    BY <2>1, <2>2, <2>3, <1>3 DEF Exhausted
<1>7. input' = f \ G
  BY <1>1
<1>8. \A p \in 1 .. k : q[p].id \in G
  BY DEF HeadIds
<1>9. \A p \in k + 2 .. Len(q) : \E r \in DOMAIN queue' : queue'[r].id = q[p].id
  <2>1. \A p \in k + 2 .. Len(q) : p - k - 1 \in DOMAIN queue' /\ queue'[p - k - 1] = q[p]
    BY <1>1, <1>2, TailOfQueue
  <2> QED
    BY <2>1
<1> HIDE DEF G, given
<1>10. CASE k = Len(q) /\ Rest(given)
  <2>1. convLog' = given
    BY <1>10 DEF Rest
  <2>2. \A p \in DOMAIN q : convLog'[q[p].id].status = "erroneous"
    BY <1>2, <1>3, <1>4, <1>8, <1>10, <2>1
  <2>3. Kept(q)
    BY <2>2 DEF Kept
  <2> QED
    BY <2>1, <2>3, <1>3, <1>4, <1>5, <1>6, <1>7, <1>10 DEF Turned, Picked, Rest
<1>11. CASE k < Len(q) /\ ~Exhausted(q[k + 1]) /\ Start(q[k + 1], given)
  <2> DEFINE entry == q[k + 1]
  <2>1. /\ entry \in Entries /\ entry.id \in Ids /\ entry.id \notin G
        /\ lg[entry.id].status = "inQueue" /\ lg[entry.id].retries = entry.retries
    <3>1. k + 1 \in 1 .. Len(q) /\ k + 1 > k
      BY <1>2, <1>11
    <3> QED
      BY <3>1, <1>3
  <2>2. entry.retries < MaxTries
    BY <1>11, <2>1, MaxTriesAssumption DEF Exhausted, Entries
  <2>3. Start(entry, given)
    BY <1>11
  <2> HIDE DEF entry
  <2>4. /\ convLog'[entry.id].status = "processing"
        /\ convLog'[entry.id].retries = given[entry.id].retries
        /\ \A id \in Ids \ {entry.id} : convLog'[id] = given[id]
    BY <2>1, <2>3, <1>4, StartChanges
  <2>5. ASSUME NEW id \in Ids, id = entry.id
        PROVE  /\ convLog'[id].retries = lg[id].retries
               /\ lg[id].status = "inQueue" /\ lg[id].retries < MaxTries
               /\ convLog'[id].status = "processing"
               /\ id \in input' <=> id \in f
    BY <2>1, <2>2, <2>4, <2>5, <1>4, <1>7
  <2>6. ASSUME NEW id \in Ids, id # entry.id, id \in G
        PROVE  /\ convLog'[id].retries = lg[id].retries
               /\ lg[id].status = "inQueue" /\ lg[id].retries >= MaxTries
               /\ convLog'[id].status = "erroneous"
               /\ id \notin input'
    BY <2>4, <2>6, <1>3, <1>4, <1>6, <1>7
  <2>7. ASSUME NEW id \in Ids, id # entry.id, id \notin G
        PROVE  /\ convLog'[id].retries = lg[id].retries
               /\ convLog'[id].status = lg[id].status
               /\ id \in input' <=> id \in f
    BY <2>4, <2>7, <1>4, <1>7
  <2>8. ASSUME NEW p \in DOMAIN q, convLog'[q[p].id].status = "inQueue"
        PROVE  \E r \in DOMAIN queue' : queue'[r].id = q[p].id
    <3>1. CASE p \in 1 .. k
      BY <1>2, <1>3, <1>4, <1>8, <2>1, <2>4, <2>8, <3>1
    <3>2. CASE p = k + 1
      BY <2>4, <2>8, <3>2 DEF entry
    <3>3. CASE p \in k + 2 .. Len(q)
      BY <1>9, <3>3
    <3> QED
      BY <1>2, <3>1, <3>2, <3>3
  <2>9. Kept(q)
    BY <2>8 DEF Kept
  <2>10. Picked(lg)
    BY <2>1, <2>3 DEF Picked, Start
  <2> QED
    BY <2>5, <2>6, <2>7, <2>9, <2>10, <1>5 DEF Turned
<1> QED
  BY <1>1, <1>10, <1>11 DEF G, given

\* A step is one of five: the end of an upload, the success or the failure of
\* the conversion in work, the end of the worker, or one that leaves queue and
\* log alone.
Calm ==
  /\ UNCHANGED <<up, queue, convLog>>
  /\ ProcessesFit => ProcessesFit'
  /\ ~InputMayVanish => \A id \in Ids : convLog[id].status # "absent"
                                           => (id \in input' <=> id \in input)

\* A failing attempt leaves no process of ffmpeg behind.
FailsAlone(id) == Failed(id) /\ (Converter[id] # "ffmpeg" \/ stage = "starting")

\* Only an attempt of unoconv or ffmpeg makes the worker end.
EndsBy(id) ==
  /\ WorkerEnds
  /\ \/ Converter[id] = "unoconv" /\ isConverting /\ current.id = id
     \/ ffmpegs[id] > 0

Step == \/ \E id \in Ids : AddToConversionQueue(id)
        \/ \E id \in Ids : /\ isConverting /\ current.id = id
                          /\ (Converted(id) \/ FailsAlone(id))
                          /\ UNCHANGED <<up, ffmpegs>>
        \/ \E id \in Ids : EndsBy(id)
        \/ Calm

LEMMA Steps ==
  ASSUME IInv, [Next]_vars
  PROVE  Step
<1>1. ASSUME NEW id \in Ids, Scheduled(id)
      PROVE  Step
  <2>1. CASE WriteFails(id)
    <3>1. convLog[id].status = "absent"
      BY <2>1 DEF WriteFails, IInv, LoggedOnce
    <3> QED
      BY <2>1, <3>1 DEF WriteFails, Step, Calm, ProcessesFit
  <2>2. CASE UnoconvTimeout(id)
    BY <2>2 DEF UnoconvTimeout, Step, Calm, ProcessesFit, Waits
  <2>3. CASE FfmpegRuns(id)
    <3>1. \A i \in Ids \ {id} : ffmpegs'[i] = ffmpegs[i]
      BY <2>3, ProcessesCounted
    <3>2. ProcessesFit => ProcessesFit'
      BY <2>3, <3>1 DEF FfmpegRuns, Waits, ProcessesFit, IInv, TypeOK, OneStory
    <3> QED BY <2>3, <3>2 DEF FfmpegRuns, Step, Calm
  <2>4. CASE UnoconvKilled(id) \/ UnoconvSaveFails(id) \/ FfmpegThrows(id)
    BY <2>4 DEF UnoconvKilled, UnoconvSaveFails, FfmpegThrows, Waits, Step, FailsAlone
  <2>5. CASE UnoconvSaved(id) \/ FfmpegTimer(id)
    BY <2>5 DEF UnoconvSaved, FfmpegTimer, Waits, Step
  <2> QED
    BY <1>1, <2>1, <2>2, <2>3, <2>4, <2>5 DEF Scheduled, Step
<1>2. ASSUME NEW id \in Ids, External(id)
      PROVE  Step
  <2>1. CASE UnoconvCannotStart(id) \/ FfmpegFails(id)
    BY <2>1 DEF UnoconvCannotStart, FfmpegFails, Waits, Step, EndsBy
  <2>2. CASE UnoconvError(id) \/ ImageMagickError(id)
    BY <2>2 DEF UnoconvError, ImageMagickError, Waits, Step, FailsAlone
  <2>3. CASE ImageMagickWritten(id)
    BY <2>3 DEF ImageMagickWritten, Waits, Step
  <2>4. CASE \/ ReceiveRequest(id) \/ RefuseRequest(id) \/ UnoconvExit(id)
             \/ FfmpegWrites(id) \/ InputVanishes(id)
    BY <2>4 DEF ReceiveRequest, RefuseRequest, UnoconvExit, FfmpegWrites,
       InputVanishes, Waits, Step, Calm, ProcessesFit
  <2>5. CASE FfmpegExit(id)
    <3>1. \A i \in Ids : ffmpegs'[i] > 0 => ffmpegs[i] > 0
      BY <2>5, ProcessesCounted
    <3>2. ProcessesFit => ProcessesFit'
      BY <2>5, <3>1 DEF FfmpegExit, ProcessesFit
    <3> QED BY <2>5, <3>2 DEF FfmpegExit, Step, Calm
  <2> QED
    BY <1>2, <2>1, <2>2, <2>3, <2>4, <2>5 DEF External
<1>3. CASE UNCHANGED vars
  BY <1>3 DEF vars, Step, Calm, ProcessesFit
<1> QED
  BY <1>1, <1>2, <1>3 DEF Next

--------------------------------------------------------------------------------
(***************************************************************************)
(* What the three interesting steps do, each as a change of the log        *)
(* followed by StartNext.                                                  *)
(***************************************************************************)
\* Nothing else of the queue and the log changes.
Otherwise(lg, id) == \A i \in Ids \ {id} : lg[i] = convLog[i]

\* The queue q that StartNext is called with holds the old entries and, when
\* something is pushed, the pushed id behind them.
Behind(q, id) ==
  /\ q \in Seq(Entries)
  /\ \A p \in DOMAIN q : (p \in DOMAIN queue /\ q[p] = queue[p]) \/ q[p].id = id
  /\ \A p \in DOMAIN queue : p \in DOMAIN q /\ q[p] = queue[p]

Pushed(q, id) == \E p \in DOMAIN q : q[p].id = id

\* Either StartNext runs, or the worker is busy and the turn ends.
Turn(q, lg, f) == Turned(lg, f) /\ Shortened(q) /\ Kept(q) /\ Picked(lg)

LEMMA BusyTurn ==
  ASSUME NEW q \in Seq(Entries), NEW lg, NEW f, queue' = q, convLog' = lg, input' = f,
         UNCHANGED <<isConverting, current, stage>>
  PROVE  Turn(q, lg, f)
<1>1. Shortened(q)
  <2>1. 0 \in Nat /\ \A p \in DOMAIN q : p + 0 = p
    BY LenProperties
  <2> QED
    BY <2>1 DEF Shortened
<1>2. Kept(q)
  BY DEF Kept
<1> QED
  BY <1>1, <1>2 DEF Turn, Turned, Picked

LEMMA PushBehind ==
  ASSUME NEW q \in Seq(Entries), q = queue, NEW entry \in Entries
  PROVE  Behind(Append(q, entry), entry.id) /\ Pushed(Append(q, entry), entry.id)
<1>1. /\ Append(q, entry) \in Seq(Entries)
      /\ DOMAIN q = 1 .. Len(q) /\ Len(q) \in Nat
      /\ DOMAIN Append(q, entry) = 1 .. Len(q) + 1
      /\ \A p \in 1 .. Len(q) : Append(q, entry)[p] = q[p]
      /\ Append(q, entry)[Len(q) + 1] = entry
  BY PushToQueue
<1>2. \A p \in 1 .. Len(q) + 1 : p \in 1 .. Len(q) \/ p = Len(q) + 1
  BY <1>1
<1>3. Len(q) + 1 \in 1 .. Len(q) + 1 /\ \A p \in 1 .. Len(q) : p \in 1 .. Len(q) + 1
  BY <1>1
<1> QED
  BY <1>1, <1>2, <1>3 DEF Behind, Pushed

\* The log after the end of an upload.
LEMMA AddTurns ==
  ASSUME IInv, NEW id \in Ids, AddToConversionQueue(id)
  PROVE  \E q, lg, f :
           /\ Turn(q, lg, f) /\ Behind(q, id) /\ Otherwise(lg, id)
           /\ convLog[id].status = "absent"
           /\ Pushed(q, id) /\ lg[id].status = "inQueue" /\ lg[id].retries = 0
           /\ f = input \cup {id}
<1> DEFINE entry == [id |-> id, retries |-> 0]
           q == Append(queue, entry)
           lg == [convLog EXCEPT ![id] = [status |-> "inQueue", retries |-> 0]]
           f == input \cup {id}
<1>1. /\ queue \in Seq(Entries) /\ convLog \in Logs /\ QueueFitsLog(queue, convLog)
  BY OneStoryFits DEF IInv
<1>2. convLog[id].status = "absent"
  BY Zenon DEF IInv, LoggedOnce, AddToConversionQueue
<1>3. entry \in Entries /\ entry.id = id /\ entry.retries = 0
  BY DEF Entries
<1>4. /\ lg[id].status = "inQueue" /\ lg[id].retries = 0
      /\ \A i \in Ids \ {id} : lg[i] = convLog[i]
  BY <1>1 DEF Logs
<1>5. lg \in Logs /\ QueueFitsLog(q, lg) /\ q \in Seq(Entries)
  <2> HIDE DEF entry
  <2>1. lg = [convLog EXCEPT ![entry.id] = [status |-> "inQueue", retries |-> entry.retries]]
    BY <1>3
  <2> HIDE DEF lg
  <2> QED BY <1>1, <1>2, <1>3, <2>1, PushFits, PushToQueue
<1>6. Behind(q, id) /\ Pushed(q, id)
  <2> HIDE DEF entry
  <2> QED BY <1>1, <1>3, PushBehind
<1>7. CASE isConverting
  <2>1. /\ queue' = q /\ convLog' = lg /\ input' = f
        /\ UNCHANGED <<isConverting, current, stage>>
    BY <1>7, Zenon DEF AddToConversionQueue, Enqueue
  <2> HIDE DEF q, lg, f
  <2>2. Turn(q, lg, f)
    BY <2>1, <1>5, BusyTurn
  <2> QED
    BY <2>2, <1>2, <1>4, <1>6 DEF Otherwise, f
<1>8. CASE ~isConverting
  <2>1. StartNext(q, lg, f)
    BY <1>8, Zenon DEF AddToConversionQueue, Enqueue
  <2> HIDE DEF q, lg, f
  <2>2. Ready(q, lg)
    BY <1>4, <1>5, <1>8 DEF Ready, IInv, OneStory
  <2>3. Turn(q, lg, f)
    BY <2>1, <2>2, StartNextTurns DEF Turn
  <2> QED
    BY <2>3, <1>2, <1>4, <1>6 DEF Otherwise, f
<1> QED
  BY <1>7, <1>8

\* The log after a success.
LEMMA ConvertedTurns ==
  ASSUME IInv, NEW id \in Ids, isConverting, current.id = id, Converted(id)
  PROVE  \E q, lg, f :
           /\ Turn(q, lg, f) /\ Behind(q, id) /\ Otherwise(lg, id)
           /\ convLog[id].status = "processing"
           /\ lg[id].status = IF id \in input THEN "converted" ELSE "inQueue"
           /\ lg[id].retries = convLog[id].retries
           /\ f = input \ {id}
<1> DEFINE st == IF id \in input THEN "converted" ELSE "inQueue"
           lg == [convLog EXCEPT ![id].status = st]
           f == input \ {id}
<1>1. StartNext(queue, lg, f)
  BY Zenon DEF Converted
<1>2. /\ queue \in Seq(Entries) /\ convLog \in Logs /\ QueueFitsLog(queue, convLog)
  BY OneStoryFits DEF IInv
<1>3. /\ convLog[id].status = "processing"
      /\ \A i \in Ids : convLog[i].status = "processing" => i = id
  BY DEF IInv, OneStory
<1>4. st \in Statuses /\ st # "processing"
  BY DEF Statuses
<1>5. st = IF id \in input THEN "converted" ELSE "inQueue"
  OBVIOUS
<1> HIDE DEF st
<1>6. lg \in Logs /\ QueueFitsLog(queue, lg)
  BY <1>2, <1>3, <1>4, StatusFits
<1>7. /\ lg[id].status = st /\ lg[id].retries = convLog[id].retries
      /\ \A i \in Ids \ {id} : lg[i] = convLog[i]
  BY <1>2 DEF Logs
<1> HIDE DEF lg
<1>8. Ready(queue, lg)
  BY <1>2, <1>3, <1>4, <1>6, <1>7 DEF Ready
<1>9. Turn(queue, lg, f)
  BY <1>1, <1>2, <1>8, StartNextTurns DEF Turn
<1>10. Behind(queue, id)
  BY <1>2 DEF Behind
<1> QED
  BY <1>3, <1>5, <1>7, <1>9, <1>10 DEF Otherwise

\* The log after a failed attempt; while TriesFit, there is a try left to log.
LEMMA FailedTurns ==
  ASSUME IInv, TriesFit(convLog), NEW id \in Ids, isConverting, current.id = id, Failed(id)
  PROVE  \E q, lg, f :
           /\ Turn(q, lg, f) /\ Behind(q, id) /\ Otherwise(lg, id)
           /\ convLog[id].status = "processing"
           /\ Pushed(q, id) /\ lg[id].status = "inQueue" /\ lg[id].retries = convLog[id].retries + 1
           /\ f = input
<1> DEFINE tries == current.retries + 1
           entry == [id |-> id, retries |-> tries]
           q == Append(queue, entry)
           lg == [convLog EXCEPT ![id] = [status |-> "inQueue", retries |-> tries]]
<1>1. /\ queue \in Seq(Entries) /\ convLog \in Logs /\ QueueFitsLog(queue, convLog)
  BY OneStoryFits DEF IInv
<1>2. /\ convLog[id].status = "processing" /\ convLog[id].retries = current.retries
      /\ \A i \in Ids : convLog[i].status = "processing" => i = id
  BY DEF IInv, OneStory
<1>3. tries \in Nat /\ ~(tries > MaxTries)
  <2>1. convLog[id].retries \in Nat
    BY <1>1 DEF Logs
  <2> QED
    BY <2>1, <1>2, MaxTriesAssumption DEF TriesFit
<1>4. StartNext(q, lg, input)
  BY <1>3, Zenon DEF Failed, Enqueue
<1>5. tries = convLog[id].retries + 1
  BY <1>2
<1> HIDE DEF tries
<1>6. entry \in Entries /\ entry.id = id /\ entry.retries = tries
  BY <1>3 DEF Entries
<1>7. lg \in Logs /\ QueueFitsLog(q, lg) /\ q \in Seq(Entries)
  <2> HIDE DEF entry
  <2>1. lg = [convLog EXCEPT ![entry.id] = [status |-> "inQueue", retries |-> entry.retries]]
    BY <1>6
  <2>2. convLog[entry.id].status # "inQueue"
    BY <1>2, <1>6
  <2> HIDE DEF lg
  <2> QED BY <1>1, <1>6, <2>1, <2>2, PushFits, PushToQueue
<1>8. Behind(q, id) /\ Pushed(q, id)
  <2> HIDE DEF entry
  <2> QED BY <1>1, <1>6, PushBehind
<1>9. /\ lg[id].status = "inQueue" /\ lg[id].retries = tries
      /\ \A i \in Ids \ {id} : lg[i] = convLog[i]
  BY <1>1 DEF Logs
<1> HIDE DEF lg, q
<1>10. Ready(q, lg)
  BY <1>2, <1>7, <1>9 DEF Ready
<1>11. Turn(q, lg, input)
  BY <1>1, <1>4, <1>10, StartNextTurns DEF Turn
<1> QED
  BY <1>2, <1>5, <1>8, <1>9, <1>11 DEF Otherwise

--------------------------------------------------------------------------------
(***************************************************************************)
(* The inductive invariant: TriesFit in general, InputFits and Queued      *)
(* while nobody else removes input files.                                  *)
(***************************************************************************)
\* Whoever waits is queued.
Queued == \A id \in InQueue : \E p \in DOMAIN queue : queue[p].id = id

InputKept == ~InputMayVanish => InputFits(convLog, input) /\ Queued /\ ProcessesFit

LInv == IInv /\ TriesFit(convLog) /\ InputKept

\* The three ways queue and log change, with what the step found and left.
Changes(id, q, lg, f) ==
  /\ Turn(q, lg, f) /\ Behind(q, id) /\ Otherwise(lg, id)
  /\ up /\ UNCHANGED <<up, ffmpegs>>
  /\ \/ /\ convLog[id].status = "absent"
        /\ Pushed(q, id) /\ lg[id].status = "inQueue" /\ lg[id].retries = 0
        /\ f = input \cup {id}
     \/ /\ convLog[id].status = "processing"
        /\ lg[id].status = IF id \in input THEN "converted" ELSE "inQueue"
        /\ lg[id].retries = convLog[id].retries
        /\ f = input \ {id}
     \/ /\ convLog[id].status = "processing"
        /\ Pushed(q, id) /\ lg[id].status = "inQueue" /\ lg[id].retries = convLog[id].retries + 1
        /\ f = input
        /\ Converter[id] # "ffmpeg" \/ ffmpegs[id] = 0 \/ ~ProcessesFit

LEMMA StepChanges ==
  ASSUME LInv, [Next]_vars
  PROVE  \/ Calm
         \/ \E id \in Ids : EndsBy(id)
         \/ \E id \in Ids : \E q, lg, f : Changes(id, q, lg, f)
<1>1. IInv /\ TriesFit(convLog) /\ Step
  BY Steps DEF LInv
<1>2. ASSUME NEW id \in Ids, AddToConversionQueue(id)
      PROVE  \E q, lg, f : Changes(id, q, lg, f)
  <2>1. PICK q, lg, f :
           /\ Turn(q, lg, f) /\ Behind(q, id) /\ Otherwise(lg, id)
           /\ convLog[id].status = "absent"
           /\ Pushed(q, id) /\ lg[id].status = "inQueue" /\ lg[id].retries = 0
           /\ f = input \cup {id}
    BY <1>1, <1>2, AddTurns
  <2>2. request[id] = "writing" /\ UNCHANGED <<up, ffmpegs>>
    BY <1>2, Zenon DEF AddToConversionQueue
  <2>3. up
    BY <1>1, <2>2 DEF IInv, EndedForgets
  <2> QED
    BY <2>1, <2>2, <2>3 DEF Changes
<1>3. ASSUME NEW id \in Ids, isConverting, current.id = id, Converted(id), UNCHANGED <<up, ffmpegs>>
      PROVE  \E q, lg, f : Changes(id, q, lg, f)
  <2>1. PICK q, lg, f :
           /\ Turn(q, lg, f) /\ Behind(q, id) /\ Otherwise(lg, id)
           /\ convLog[id].status = "processing"
           /\ lg[id].status = IF id \in input THEN "converted" ELSE "inQueue"
           /\ lg[id].retries = convLog[id].retries
           /\ f = input \ {id}
    BY <1>1, <1>3, ConvertedTurns
  <2> QED
    BY <2>1, <1>1, <1>3, BusyIsUp DEF Changes
<1>4. ASSUME NEW id \in Ids, isConverting, current.id = id, FailsAlone(id), UNCHANGED <<up, ffmpegs>>
      PROVE  \E q, lg, f : Changes(id, q, lg, f)
  <2>1. PICK q, lg, f :
           /\ Turn(q, lg, f) /\ Behind(q, id) /\ Otherwise(lg, id)
           /\ convLog[id].status = "processing"
           /\ Pushed(q, id) /\ lg[id].status = "inQueue" /\ lg[id].retries = convLog[id].retries + 1
           /\ f = input
    BY <1>1, <1>4, FailedTurns DEF FailsAlone
  <2>2. Converter[id] # "ffmpeg" \/ ffmpegs[id] = 0 \/ ~ProcessesFit
    BY <1>4 DEF FailsAlone, ProcessesFit
  <2> QED
    BY <2>1, <2>2, <1>1, <1>4, BusyIsUp DEF Changes
<1> QED
  BY <1>1, <1>2, <1>3, <1>4 DEF Step

\* The log that StartNext is called with has no more retries than MaxTries.
LEMMA ChangesKeepTries ==
  ASSUME TriesFit(convLog), NEW id \in Ids, NEW q, NEW lg, NEW f, Changes(id, q, lg, f)
  PROVE  TriesFit(lg) /\ TriesFit(convLog')
<1>1. TriesFit(lg)
  <2>1. ASSUME NEW i \in Ids, i # id
        PROVE  lg[i] = convLog[i]
    BY <2>1 DEF Changes, Otherwise
  <2>2. lg[id].retries \in 0 .. MaxTries /\ lg[id].status \in {"inQueue", "converted"}
    BY MaxTriesAssumption DEF TriesFit, Changes
  <2> QED
    BY <2>1, <2>2 DEF TriesFit
<1>2. TriesFit(convLog')
  <2> SUFFICES ASSUME NEW i \in Ids
               PROVE  /\ convLog'[i].retries \in 0 .. MaxTries
                      /\ convLog'[i].status = "absent" => convLog'[i].retries = 0
                      /\ convLog'[i].status = "processing" => convLog'[i].retries < MaxTries
                      /\ convLog'[i].status = "erroneous" => convLog'[i].retries = MaxTries
    BY DEF TriesFit
  <2>1. Turned(lg, f)
    BY DEF Changes, Turn
  <2> QED
    BY <1>1, <2>1, MaxTriesAssumption DEF TriesFit, Turned
<1> QED
  BY <1>1, <1>2

LEMMA ChangesKeepInput ==
  ASSUME InputFits(convLog, input), NEW id \in Ids, NEW q, NEW lg, NEW f,
         Changes(id, q, lg, f)
  PROVE  InputFits(convLog', input')
<1>1. InputFits(lg, f)
  <2>1. ASSUME NEW i \in Ids, i # id
        PROVE  lg[i] = convLog[i] /\ (i \in f <=> i \in input)
    BY <2>1 DEF Changes, Otherwise
  <2>2. /\ lg[id].status \in {"inQueue", "processing"} => id \in f
        /\ lg[id].status \in {"converted", "erroneous"} => id \notin f
    BY DEF InputFits, Changes
  <2> QED
    BY <2>1, <2>2 DEF InputFits
<1>2. Turned(lg, f)
  BY DEF Changes, Turn
<1> QED
  BY <1>1, <1>2 DEF InputFits, Turned

LEMMA ChangesKeepQueued ==
  ASSUME InputFits(convLog, input), Queued, NEW id \in Ids, NEW q, NEW lg, NEW f,
         Changes(id, q, lg, f)
  PROVE  Queued'
<1> SUFFICES ASSUME NEW i \in Ids, convLog'[i].status = "inQueue"
             PROVE  \E r \in DOMAIN queue' : queue'[r].id = i
  BY DEF Queued, InQueue
<1>1. Turned(lg, f) /\ Kept(q) /\ Behind(q, id) /\ Otherwise(lg, id)
  BY DEF Changes, Turn
<1>2. lg[i].status = "inQueue"
  BY <1>1 DEF Turned
<1>3. \E p \in DOMAIN q : q[p].id = i
  <2>1. CASE i = id
    BY <1>2, <2>1 DEF Changes, Pushed, InputFits
  <2>2. CASE i # id
    <3>1. i \in InQueue
      BY <1>1, <1>2, <2>2 DEF Otherwise, InQueue
    <3> QED
      BY <1>1, <3>1 DEF Queued, Behind
  <2> QED
    BY <2>1, <2>2
<1> QED
  BY <1>1, <1>3 DEF Kept

LEMMA ChangesKeepProcesses ==
  ASSUME TypeOK, InputFits(convLog, input), ProcessesFit, NEW id \in Ids, NEW q, NEW lg, NEW f,
         Changes(id, q, lg, f)
  PROVE  ProcessesFit'
<1>1. /\ Turned(lg, f) /\ Otherwise(lg, id) /\ Picked(lg)
      /\ UNCHANGED <<up, ffmpegs>> /\ ffmpegs \in [Ids -> Nat]
  BY DEF Changes, Turn, TypeOK
<1>2. ffmpegs[id] > 0 => lg[id].status = "converted"
  BY <1>1 DEF Changes, ProcessesFit, InputFits
<1>3. ASSUME NEW i \in Ids, ffmpegs[i] > 0
      PROVE  Converter[i] = "ffmpeg" /\ lg[i].status \in {"processing", "converted"}
  BY <1>1, <1>2, <1>3 DEF ProcessesFit, Otherwise
<1>4. \A i \in Ids : ffmpegs'[i] > 0 => /\ Converter[i] = "ffmpeg"
                                        /\ convLog'[i].status \in {"processing", "converted"}
  BY <1>1, <1>3 DEF Turned
<1>5. ASSUME isConverting', stage' = "starting"
      PROVE  ffmpegs'[current'.id] = 0
  <2>1. CASE current'.id \in Ids /\ lg[current'.id].status = "inQueue"
    <3>1. ffmpegs[current'.id] \in Nat /\ ~(ffmpegs[current'.id] > 0)
      BY <1>1, <1>3, <2>1
    <3> QED
      BY <1>1, <3>1
  <2>2. CASE UNCHANGED <<isConverting, current, stage>>
    BY <1>1, <1>5, <2>2 DEF ProcessesFit
  <2> QED
    BY <1>1, <1>5, <2>1, <2>2 DEF Picked
<1> QED
  BY <1>4, <1>5 DEF ProcessesFit

LEMMA NextKeepsLInv ==
  ASSUME LInv, [Next]_vars
  PROVE  LInv'
<1>1. IInv'
  BY NextKeepsIInv DEF LInv
<1>2. CASE Calm
  <2>1. TriesFit(convLog')
    BY <1>2 DEF Calm, LInv
  <2>2. ~InputMayVanish => InputFits(convLog', input') /\ Queued' /\ ProcessesFit'
    BY <1>2 DEF Calm, LInv, InputKept, InputFits, Queued, InQueue
  <2> QED
    BY <1>1, <2>1, <2>2 DEF LInv, InputKept
<1>3. ASSUME NEW id \in Ids, NEW q, NEW lg, NEW f, Changes(id, q, lg, f)
      PROVE  LInv'
  <2>1. TriesFit(convLog')
    BY <1>3, ChangesKeepTries DEF LInv
  <2>2. ~InputMayVanish => InputFits(convLog', input') /\ Queued' /\ ProcessesFit'
    BY <1>3, ChangesKeepInput, ChangesKeepQueued, ChangesKeepProcesses DEF LInv, IInv, InputKept
  <2> QED
    BY <1>1, <2>1, <2>2 DEF LInv, InputKept
<1>4. ASSUME WorkerEnds
      PROVE  LInv'
  <2>1. \A id \in Ids : convLog'[id].status = "absent" /\ convLog'[id].retries = 0
    BY <1>4 DEF WorkerEnds, EmptyLog
  <2>2. TriesFit(convLog') /\ InputFits(convLog', input') /\ Queued'
    BY <2>1, MaxTriesAssumption DEF TriesFit, InputFits, Queued, InQueue
  <2>3. ProcessesFit'
    BY <1>4 DEF WorkerEnds, ProcessesFit
  <2> QED
    BY <1>1, <2>2, <2>3 DEF LInv, InputKept
<1> QED
  BY <1>2, <1>3, <1>4, StepChanges DEF EndsBy

LEMMA LInvariance == Spec => []LInv
<1>1. Init /\ IInv => LInv
  BY MaxTriesAssumption
  DEF Init, EmptyLog, LInv, TriesFit, InputKept, InputFits, Queued, InQueue, ProcessesFit
<1> QED
  BY <1>1, Invariance, NextKeepsLInv, PTL DEF Spec

--------------------------------------------------------------------------------
\* deleteFile(path) runs exactly when no attempt can follow, in whatever order
\* uploads, exits, timers and retries come: an input is neither deleted before
\* a retry that needs it nor left behind when its request is settled.
THEOREM InputsLiveUntilSettled == ~InputMayVanish => (Spec => []InputLivesUntilSettled)
<1>1. SUFFICES ASSUME ~InputMayVanish
               PROVE  Spec => []InputLivesUntilSettled
  OBVIOUS
<1>2. LInv => InputLivesUntilSettled
  BY <1>1 DEF LInv, InputKept, InputFits, InputLivesUntilSettled, Settled
<1> QED
  BY <1>2, LInvariance, PTL

--------------------------------------------------------------------------------
(***************************************************************************)
(* The refinement.                                                         *)
(***************************************************************************)
LEMMA ChangesAreLegal ==
  ASSUME TriesFit(convLog), InputFits(convLog, input),
         NEW id \in Ids, NEW q, NEW lg, NEW f, Changes(id, q, lg, f), NEW i \in Ids
  PROVE  Lifecycle!Legal(i)
<1>1. TriesFit(lg) /\ TriesFit(convLog') /\ Turned(lg, f)
  BY ChangesKeepTries DEF Changes, Turn
<1>2. i # id => lg[i] = convLog[i]
  BY DEF Changes, Otherwise
<1>3. /\ convLog[i].retries \in 0 .. MaxTries /\ convLog'[i].retries \in 0 .. MaxTries
      /\ convLog'[i].status = "processing" => convLog'[i].retries < MaxTries
      /\ convLog'[i].status = "erroneous" => convLog'[i].retries = MaxTries
      /\ convLog[i].status = "absent" => convLog[i].retries = 0
      /\ convLog'[i].retries = lg[i].retries
      /\ \/ convLog'[i].status = lg[i].status
         \/ lg[i].status = "inQueue" /\ convLog'[i].status \in {"erroneous", "processing"}
  BY <1>1 DEF TriesFit, Turned
<1>4. CASE i # id
  <2>1. convLog'[i].status = "processing" => convLog[i].status \in {"inQueue", "processing"}
    BY <1>2, <1>3, <1>4
  <2>2. convLog[i].status = "processing" => convLog'[i].status = "processing"
    BY <1>2, <1>3, <1>4
  <2> QED
    BY <1>2, <1>3, <1>4, <2>1, <2>2 DEF Lifecycle!Legal, Lifecycle!Final
<1>5. CASE i = id
  <2>1. convLog[id].status = "processing" => id \in input
    BY DEF InputFits
  <2>2. \/ /\ convLog[id].status = "absent"
           /\ lg[id].status = "inQueue" /\ lg[id].retries = 0
        \/ /\ convLog[id].status = "processing"
           /\ lg[id].status = "converted"
           /\ lg[id].retries = convLog[id].retries
        \/ /\ convLog[id].status = "processing"
           /\ lg[id].status = "inQueue" /\ lg[id].retries = convLog[id].retries + 1
    BY <2>1 DEF Changes
  <2> QED
    BY <1>3, <1>5, <2>2 DEF Lifecycle!Legal, Lifecycle!Final
<1> QED
  BY <1>4, <1>5

\* Every step of the worker, or of the clients, processes and timers around it,
\* is a step the lifecycle of its requests allows, or none at all.
LEMMA StepsAreLegal ==
  ASSUME ~InputMayVanish, LInv, LInv', [Next]_vars
  PROVE  [Lifecycle!Next]_(Lifecycle!vars)
<1>1. CASE Calm
  BY <1>1 DEF Calm, Lifecycle!vars
<1>2. ASSUME NEW id \in Ids, NEW q, NEW lg, NEW f, Changes(id, q, lg, f)
      PROVE  Lifecycle!Next
  <2>1. \A i \in Ids : Lifecycle!Legal(i)
    BY <1>2, ChangesAreLegal DEF LInv, InputKept
  <2>2. Lifecycle!AtMostOneProcessing'
    BY DEF LInv, IInv, OneStory, Lifecycle!AtMostOneProcessing
  <2> QED
    BY <1>2, <2>1, <2>2 DEF Lifecycle!Next, Lifecycle!Proceeds, Changes
<1>3. ASSUME NEW id \in Ids, EndsBy(id)
      PROVE  Lifecycle!Next
  <2>1. up
    <3>1. convLog[id].status # "absent"
      BY <1>3 DEF EndsBy, LInv, IInv, OneStory, InputKept, ProcessesFit
    <3> QED
      BY <3>1 DEF LInv, IInv, LoggedOnce, EndedForgets
  <2>2. Converter[id] # "imagemagick" /\ convLog[id].status \in {"processing", "converted"}
    BY <1>3 DEF EndsBy, LInv, IInv, OneStory, InputKept, ProcessesFit
  <2>3. /\ up' = FALSE
        /\ [i \in Ids |-> convLog'[i].status] = [i \in Ids |-> "absent"]
        /\ [i \in Ids |-> convLog'[i].retries] = [i \in Ids |-> 0]
    BY <1>3 DEF EndsBy, WorkerEnds, EmptyLog
  <2> QED
    BY <2>1, <2>2, <2>3 DEF Lifecycle!Next, Lifecycle!Ends
<1> QED
  BY <1>1, <1>2, <1>3, StepChanges

\* The worker keeps the promise of ConversionLifecycle: one attempt at a time,
\* a failed one is counted, a request is given up after MAX_CONVERSION_TRIES of
\* them and not before, a result is final, and all of it is forgotten only when an
\* attempt of unoconv or ffmpeg makes the process end.
THEOREM WorkerKeepsPromise == ~InputMayVanish => (Spec => ImplementsLifecycle)
<1>1. SUFFICES ASSUME ~InputMayVanish
               PROVE  Spec => ImplementsLifecycle
  OBVIOUS
<1>2. Init => Lifecycle!Init
  BY DEF Init, EmptyLog, Lifecycle!Init
<1>3. LInv /\ LInv' /\ [Next]_vars => [Lifecycle!Next]_(Lifecycle!vars)
  BY <1>1, StepsAreLegal
<1> QED
  BY <1>2, <1>3, LInvariance, PTL DEF Spec, ImplementsLifecycle, Lifecycle!Spec

--------------------------------------------------------------------------------
(***************************************************************************)
(* Positions.                                                              *)
(***************************************************************************)
\* In a queue without repetition an id has the position it is at.
LEMMA PositionIsUnique ==
  ASSUME OneStory, NEW id, NEW p \in DOMAIN queue, queue[p].id = id
  PROVE  QueuePosition(id) = p
<1>1. Positions(id) = {p}
  BY DEF OneStory, Positions
<1>2. \A r \in {p} : (\A s \in {p} : r <= s) => r = p
  OBVIOUS
<1> QED
  BY <1>1, <1>2 DEF QueuePosition

LEMMA PositionIsNat ==
  ASSUME LInv, NEW id
  PROVE  QueuePosition(id) \in Nat
<1>1. queue \in Seq(Entries)
  BY DEF LInv, IInv, TypeOK
<1>2. \A p \in DOMAIN queue : p \in Nat
  <2> HIDE DEF Entries
  <2> QED
    BY <1>1
<1>3. CASE Positions(id) = {}
  BY <1>3 DEF QueuePosition
<1>4. ASSUME NEW p \in DOMAIN queue, queue[p].id = id
      PROVE  QueuePosition(id) \in Nat
  BY <1>2, <1>4, PositionIsUnique DEF LInv, IInv
<1> QED
  BY <1>3, <1>4 DEF Positions

\* A waiting request that a step leaves as it is was queued before, at its new
\* position or farther back.
LEMMA ChangesShortenWait ==
  ASSUME LInv, LInv', NEW id \in Ids, NEW q, NEW lg, NEW f, Changes(id, q, lg, f),
         NEW i \in Ids, convLog[i].status = "inQueue"
  PROVE  QueuePosition(i)' <= QueuePosition(i)
<1>1. /\ queue \in Seq(Entries) /\ queue' \in Seq(Entries)
      /\ DOMAIN queue = 1 .. Len(queue) /\ Len(queue) \in Nat
      /\ DOMAIN queue' = 1 .. Len(queue') /\ Len(queue') \in Nat
  <2>1. queue \in Seq(Entries) /\ queue' \in Seq(Entries)
    BY DEF LInv, IInv, TypeOK
  <2> HIDE DEF Entries
  <2> QED
    BY <2>1
<1>2. i # id
  BY DEF Changes
<1>3. CASE Positions(i)' = {}
  <2>1. QueuePosition(i)' = 0
    BY <1>3 DEF QueuePosition
  <2>2. QueuePosition(i) \in Nat
    BY PositionIsNat
  <2> QED
    BY <2>1, <2>2
<1>4. ASSUME NEW p \in DOMAIN queue', queue'[p].id = i
      PROVE  QueuePosition(i)' <= QueuePosition(i)
  <2>1. PICK d \in Nat : \A r \in DOMAIN queue' : r + d \in DOMAIN q /\ queue'[r] = q[r + d]
    BY DEF Changes, Turn, Shortened
  <2>2. p + d \in DOMAIN q /\ q[p + d].id = i
    BY <2>1, <1>4
  <2>3. p + d \in DOMAIN queue /\ queue[p + d].id = i
    BY <2>2, <1>2 DEF Changes, Behind
  <2>4. QueuePosition(i) = p + d
    BY <2>3, PositionIsUnique DEF LInv, IInv
  <2>5. QueuePosition(i)' = p
    <3>1. OneStory'
      BY DEF LInv, IInv
    <3>2. Positions(i)' = {p}
      BY <3>1, <1>4 DEF OneStory, Positions
    <3>3. \A r \in {p} : (\A s \in {p} : r <= s) => r = p
      OBVIOUS
    <3> QED
      BY <3>2, <3>3 DEF QueuePosition
  <2>6. p \in Nat
    BY <1>1
  <2> QED
    BY <2>1, <2>4, <2>5, <2>6
<1> QED
  BY <1>3, <1>4 DEF Positions

\* While a request waits, the position it is told only gets smaller, although
\* failed requests are queued again and input files may vanish.
THEOREM PositionsOnlyShrink == Spec => PositionNeverGrows
<1>1. ASSUME LInv, LInv', [Next]_vars, ~UNCHANGED vars,
             NEW i \in Ids, convLog[i].status = "inQueue", convLog'[i] = convLog[i]
      PROVE  QueuePosition(i)' <= QueuePosition(i)
  <2>1. CASE Calm
    <3>1. queue' = queue
      BY <2>1 DEF Calm
    <3>2. QueuePosition(i)' = QueuePosition(i)
      BY <3>1 DEF QueuePosition, Positions
    <3>3. QueuePosition(i) \in Nat
      BY <1>1, PositionIsNat
    <3> QED
      BY <3>2, <3>3
  <2>2. ASSUME NEW id \in Ids, NEW q, NEW lg, NEW f, Changes(id, q, lg, f)
        PROVE  QueuePosition(i)' <= QueuePosition(i)
    BY <1>1, <2>2, ChangesShortenWait
  <2>3. ~WorkerEnds
    BY <1>1 DEF WorkerEnds, EmptyLog
  <2> QED
    BY <1>1, <2>1, <2>2, <2>3, StepChanges DEF EndsBy
<1>2. LInv /\ LInv' /\ [Next]_vars
        => [\A id \in Ids :
              /\ convLog[id].status = "inQueue"
              /\ convLog'[id] = convLog[id]
              => QueuePosition(id)' <= QueuePosition(id)]_vars
  BY <1>1
<1> QED
  BY <1>2, LInvariance, PTL DEF Spec, PositionNeverGrows

--------------------------------------------------------------------------------
(***************************************************************************)
(* What the redis-service is told, WorkerApi.                              *)
(***************************************************************************)
\* How the answers of the routes come from what the methods leave.
LEMMA AnswersOfRoutes ==
  ASSUME NEW id, NEW outcome, ~outcome.thrown
  PROVE  /\ GetConvertedFile(id, TRUE) = outcome => StatusAnswer(id) = Respond(outcome)
         /\ GetConvertedFile(id, FALSE) = outcome => FileAnswer(id) = Respond(outcome)
         /\ GetConvertedFileDownload(id) = outcome => DownloadAnswer(id) = Respond(outcome)
         /\ GetConversionQueueStatus = outcome => QueueAnswer = Respond(outcome)
<1>1. \A v2 : Get(<<"conversion", id>>, v2).path[2] = id /\ Get(<<"conversion", id>>, v2).v2 = v2
  BY DEF Get
<1>2. Outcome(Get(<<"conversion", id>>, "true")) = GetConvertedFile(id, TRUE)
  BY <1>1, HandlersOfGets DEF Outcome
<1>3. Outcome(Get(<<"conversion", id>>, "absent")) = GetConvertedFile(id, FALSE)
  BY <1>1, HandlersOfGets DEF Outcome
<1>4. Outcome(Get(<<"conversion", id, "download">>, "absent")) = GetConvertedFileDownload(id)
  <2>1. Get(<<"conversion", id, "download">>, "absent").path[2] = id
    BY DEF Get
  <2> QED
    BY <2>1, HandlersOfGets DEF Outcome
<1>5. Outcome(Get(<<"conversion">>, "absent")) = GetConversionQueueStatus
  BY HandlersOfGets DEF Outcome
<1>6. /\ Serve(Get(<<"conversion", id>>, "true"), outcome) = Respond(outcome)
      /\ Serve(Get(<<"conversion", id>>, "absent"), outcome) = Respond(outcome)
  BY ConversionRoute, GetIsAnswered
<1>7. Serve(Get(<<"conversion", id, "download">>, "absent"), outcome) = Respond(outcome)
  BY DownloadRoute, GetIsAnswered
<1>8. Serve(Get(<<"conversion">>, "absent"), outcome) = Respond(outcome)
  BY QueueRoute, GetIsAnswered
<1> QED
  BY <1>2, <1>3, <1>4, <1>5, <1>6, <1>7, <1>8
  DEF StatusAnswer, FileAnswer, DownloadAnswer, QueueAnswer, AnswerTo

\* A status is told as the first part of the answer, and nothing else is.
LEMMA StatusTold ==
  ASSUME NEW id
  PROVE  /\ StatusAnswer(id).data.content[1] =
              IF convLog[id].status = "absent" THEN "NotFound" ELSE convLog[id].status
         /\ convLog[id].status = "inQueue"
              => StatusAnswer(id).data.content[2] = QueuePosition(id)
<1>1. CASE convLog[id].status = "absent"
  <2>1. GetConvertedFile(id, TRUE) = Returns(404, Json(<<"NotFound">>))
    BY <1>1 DEF GetConvertedFile, NotFound
  <2>2. StatusAnswer(id).data = Json(<<"NotFound">>)
    <3> DEFINE outcome == Returns(404, Json(<<"NotFound">>))
    <3>1. ~outcome.thrown /\ Respond(outcome).data = Json(<<"NotFound">>)
      BY JsonAnswered
    <3>2. GetConvertedFile(id, TRUE) = outcome
      BY <2>1
    <3> HIDE DEF outcome
    <3> QED
      BY <3>1, <3>2, AnswersOfRoutes
  <2> QED
    BY <1>1, <2>2 DEF Json
<1>2. CASE convLog[id].status # "absent"
  <2>1. GetConvertedFile(id, TRUE) = Returns(200, Json(StatusOf(id)))
    BY <1>2 DEF GetConvertedFile
  <2>2. StatusAnswer(id).data = Json(StatusOf(id))
    <3> DEFINE outcome == Returns(200, Json(StatusOf(id)))
    <3>1. ~outcome.thrown /\ Respond(outcome).data = Json(StatusOf(id))
      BY JsonAnswered
    <3>2. GetConvertedFile(id, TRUE) = outcome
      BY <2>1
    <3> HIDE DEF outcome
    <3> QED
      BY <3>1, <3>2, AnswersOfRoutes
  <2>3. StatusAnswer(id).data.content = StatusOf(id)
    BY <2>2 DEF Json
  <2> QED
    BY <1>2, <2>3 DEF StatusOf
<1> QED
  BY <1>1, <1>2

LEMMA QueueTold ==
  /\ QueueAnswer.data.content.conversions = {<<id, QueuePosition(id) - 1>> : id \in InQueue}
  /\ QueueAnswer.data.content.remainingConversions = Len(queue)
<1> DEFINE content == [conversions          |-> {<<id, QueuePosition(id) - 1>> : id \in InQueue},
                       remainingConversions |-> Len(queue)]
<1>1. GetConversionQueueStatus = Returns(0, Json(content))
  BY DEF GetConversionQueueStatus
<1>2. /\ content.conversions = {<<id, QueuePosition(id) - 1>> : id \in InQueue}
      /\ content.remainingConversions = Len(queue)
  OBVIOUS
<1> HIDE DEF content
<1>3. QueueAnswer = [status |-> 200, data |-> Json(content)]
  BY <1>1, AnswersOfRoutes, JsonAnswered
<1> QED
  BY <1>2, <1>3 DEF Json

\* Who waits, and where.
LEMMA WaitersAreNumbered ==
  ASSUME IInv, Queued
  PROVE  /\ Len(queue) \in Nat
         /\ \A p \in 1 .. Len(queue) :
              queue[p].id \in InQueue /\ QueuePosition(queue[p].id) = p
         /\ \A id \in InQueue : \E p \in 1 .. Len(queue) : queue[p].id = id
<1>1. /\ queue \in Seq(Entries) /\ DOMAIN queue = 1 .. Len(queue) /\ Len(queue) \in Nat
  <2>1. queue \in Seq(Entries)
    BY DEF IInv, TypeOK
  <2> HIDE DEF Entries
  <2> QED
    BY <2>1
<1>2. \A p \in 1 .. Len(queue) : queue[p].id \in Ids
  BY <1>1, QueueElements
<1>3. \A p \in 1 .. Len(queue) : convLog[queue[p].id].status = "inQueue"
  BY <1>1 DEF IInv, OneStory
<1>4. \A p \in 1 .. Len(queue) : QueuePosition(queue[p].id) = p
  BY <1>1, PositionIsUnique DEF IInv
<1> QED
  BY <1>1, <1>2, <1>3, <1>4 DEF Queued, InQueue

LEMMA WaitersAreCounted ==
  ASSUME IInv, Queued
  PROVE  /\ Cardinality({<<id, QueuePosition(id) - 1>> : id \in InQueue}) = Len(queue)
         /\ {w[2] : w \in {<<id, QueuePosition(id) - 1>> : id \in InQueue}}
              = 0 .. Len(queue) - 1
<1> DEFINE list == {<<id, QueuePosition(id) - 1>> : id \in InQueue}
           at == [p \in 1 .. Len(queue) |-> <<queue[p].id, p - 1>>]
<1>1. /\ Len(queue) \in Nat
      /\ \A p \in 1 .. Len(queue) :
           queue[p].id \in InQueue /\ QueuePosition(queue[p].id) = p
      /\ \A id \in InQueue : \E p \in 1 .. Len(queue) : queue[p].id = id
  BY WaitersAreNumbered
<1>2. \A p \in 1 .. Len(queue) : at[p] \in list
  BY <1>1
<1>3. \A w \in list : \E p \in 1 .. Len(queue) : at[p] = w /\ w[2] = p - 1
  <2> SUFFICES ASSUME NEW id \in InQueue
               PROVE  \E p \in 1 .. Len(queue) : <<queue[p].id, p - 1>> = <<id, QueuePosition(id) - 1>>
    OBVIOUS
  <2> QED
    BY <1>1
<1>4. \A p, r \in 1 .. Len(queue) : at[p] = at[r] => p = r
  OBVIOUS
<1>5. at \in [1 .. Len(queue) -> list]
  BY <1>2
<1>6. \A p \in 1 .. Len(queue) : at[p][2] = p - 1
  OBVIOUS
<1> HIDE DEF at, list
<1>7. at \in Bijection(1 .. Len(queue), list)
  BY <1>3, <1>4, <1>5 DEF Bijection, Injection, Surjection, IsInjective
<1>8. Cardinality(list) = Len(queue)
  BY <1>1, <1>7, FS_CountingElements DEF ExistsBijection
<1>9. {w[2] : w \in list} = 0 .. Len(queue) - 1
  <2>1. \A w \in list : w[2] \in 0 .. Len(queue) - 1
    BY <1>1, <1>3
  <2>2. ASSUME NEW n \in 0 .. Len(queue) - 1
        PROVE  \E w \in list : w[2] = n
    <3>1. n + 1 \in 1 .. Len(queue) /\ (n + 1) - 1 = n
      BY <1>1
    <3>2. at[n + 1] \in list /\ at[n + 1][2] = n
      BY <1>2, <1>6, <3>1
    <3> QED
      BY <3>2
  <2> QED
    BY <2>1, <2>2
<1> QED
  BY <1>8, <1>9 DEF list

\* While nobody else removes input files, a request told as waiting is told a
\* position in the queue, and GET /conversion lists exactly the waiting ones, at
\* the positions 0 .. remainingConversions - 1, whatever was retried or given up.
THEOREM WaitersHavePosition == ~InputMayVanish => (Spec => []InQueueHasPosition)
<1> SUFFICES ASSUME ~InputMayVanish
             PROVE  Spec => []InQueueHasPosition
  OBVIOUS
<1>1. ASSUME LInv
      PROVE  InQueueHasPosition
  <2>1. IInv /\ Queued
    BY <1>1 DEF LInv, InputKept
  <2>2. \A id \in InQueue : StatusAnswer(id).data.content[2] >= 1
    <3>1. ASSUME NEW id \in InQueue
          PROVE  StatusAnswer(id).data.content[2] >= 1
      <4>1. StatusAnswer(id).data.content[2] = QueuePosition(id)
        BY StatusTold DEF InQueue
      <4>2. QueuePosition(id) >= 1
        BY <2>1, WaitersAreNumbered
      <4> QED
        BY <4>1, <4>2
    <3> QED
      BY <3>1
  <2> QED
    BY <2>1, <2>2, QueueTold, WaitersAreCounted DEF InQueueHasPosition
<1> QED
  BY <1>1, LInvariance, PTL

--------------------------------------------------------------------------------
(***************************************************************************)
(* The results, with or without somebody who removes input files.          *)
(***************************************************************************)
\* The file of unoconv is there before the status says so, and nobody takes it away.
ResultsWritten ==
  \A id \in Ids : convLog[id].status = "converted" /\ Converter[id] = "unoconv"
                     => output[id] # "none"

NothingConverted(S) ==
  \A i \in S : convLog'[i].status = "converted" => convLog[i].status = "converted"

LEMMA AddConvertsNothing ==
  ASSUME IInv, NEW id \in Ids, AddToConversionQueue(id)
  PROVE  NothingConverted(Ids) /\ output' = output
<1>1. NothingConverted(Ids)
  <2>1. PICK q, lg, f : /\ Turn(q, lg, f) /\ Otherwise(lg, id) /\ lg[id].status = "inQueue"
    BY AddTurns
  <2> QED
    BY <2>1 DEF Turn, Turned, Otherwise, NothingConverted
<1>2. output' = output
  BY Zenon DEF AddToConversionQueue
<1> QED
  BY <1>1, <1>2

LEMMA FailedConvertsNothing ==
  ASSUME IInv, TriesFit(convLog), NEW id \in Ids, isConverting, current.id = id, Failed(id)
  PROVE  NothingConverted(Ids)
<1>1. PICK q, lg, f : /\ Turn(q, lg, f) /\ Otherwise(lg, id) /\ lg[id].status = "inQueue"
  BY FailedTurns
<1> QED
  BY <1>1 DEF Turn, Turned, Otherwise, NothingConverted

LEMMA ConvertedConvertsOne ==
  ASSUME IInv, NEW id \in Ids, isConverting, current.id = id, Converted(id)
  PROVE  NothingConverted(Ids \ {id})
<1>1. PICK q, lg, f : Turn(q, lg, f) /\ Otherwise(lg, id)
  BY ConvertedTurns
<1> QED
  BY <1>1 DEF Turn, Turned, Otherwise, NothingConverted

LEMMA NextKeepsResults ==
  ASSUME LInv, ResultsWritten, [Next]_vars
  PROVE  ResultsWritten'
<1>1. IInv /\ TriesFit(convLog) /\ output \in [Ids -> {"none", "partial", "complete"}]
  BY DEF LInv, IInv, TypeOK
<1>2. ASSUME NEW id \in Ids, AddToConversionQueue(id)
      PROVE  ResultsWritten'
  BY <1>1, <1>2, AddConvertsNothing DEF ResultsWritten, NothingConverted
<1>3. ASSUME NEW id \in Ids,
             \/ UnoconvKilled(id) \/ UnoconvSaveFails(id) \/ UnoconvError(id)
             \/ ImageMagickError(id) \/ FfmpegThrows(id)
      PROVE  ResultsWritten'
  <2>1. isConverting /\ current.id = id /\ Failed(id)
    BY <1>3 DEF UnoconvKilled, UnoconvSaveFails, UnoconvError, ImageMagickError, FfmpegThrows, Waits
  <2>2. \A i \in Ids : output[i] # "none" => output'[i] # "none"
    BY <1>1, <1>3
    DEF UnoconvKilled, UnoconvSaveFails, UnoconvError, ImageMagickError, FfmpegThrows
  <2> QED
    BY <1>1, <2>1, <2>2, FailedConvertsNothing DEF ResultsWritten, NothingConverted
<1>4. ASSUME NEW id \in Ids, UnoconvSaved(id) \/ ImageMagickWritten(id) \/ FfmpegTimer(id)
      PROVE  ResultsWritten'
  <2>1. isConverting /\ current.id = id /\ Converted(id)
    BY <1>4 DEF UnoconvSaved, ImageMagickWritten, FfmpegTimer, Waits
  <2>2. \A i \in Ids : output[i] # "none" => output'[i] # "none"
    BY <1>1, <1>4 DEF UnoconvSaved, ImageMagickWritten, FfmpegTimer
  <2>3. Converter[id] # "unoconv" \/ output'[id] # "none"
    BY <1>1, <1>4 DEF UnoconvSaved, ImageMagickWritten, FfmpegTimer, Waits
  <2> QED
    BY <1>1, <2>1, <2>2, <2>3, ConvertedConvertsOne DEF ResultsWritten, NothingConverted
<1>5. ASSUME NEW id \in Ids, FfmpegWrites(id) \/ FfmpegExit(id)
      PROVE  ResultsWritten'
  <2>1. convLog' = convLog /\ \A i \in Ids : output[i] # "none" => output'[i] # "none"
    BY <1>1, <1>5 DEF FfmpegWrites, FfmpegExit
  <2> QED
    BY <2>1 DEF ResultsWritten
<1>6. ASSUME NEW id \in Ids,
             \/ WriteFails(id) \/ UnoconvTimeout(id) \/ ReceiveRequest(id) \/ RefuseRequest(id)
             \/ UnoconvExit(id) \/ FfmpegRuns(id) \/ InputVanishes(id)
      PROVE  ResultsWritten'
  BY <1>6 DEF WriteFails, UnoconvTimeout, ReceiveRequest, RefuseRequest, UnoconvExit,
     FfmpegRuns, InputVanishes, ResultsWritten
<1>7. ASSUME NEW id \in Ids, UnoconvCannotStart(id) \/ FfmpegFails(id)
      PROVE  ResultsWritten'
  BY <1>7 DEF UnoconvCannotStart, FfmpegFails, WorkerEnds, EmptyLog, ResultsWritten
<1>8. CASE UNCHANGED vars
  BY <1>8 DEF vars, ResultsWritten
<1> QED
  BY <1>2, <1>3, <1>4, <1>5, <1>6, <1>7, <1>8 DEF Next, Scheduled, External

LEMMA WrittenIsServed ==
  ASSUME NEW id \in Ids, convLog[id].status = "converted", output[id] # "none"
  PROVE  Served(id)
<1>1. GetConvertedFile(id, FALSE) = Returns(0, Json(<<"converted", output[id]>>))
  BY DEF GetConvertedFile
<1>2. GetConvertedFileDownload(id) = Returns(200, Stream(output[id]))
  BY DEF GetConvertedFileDownload
<1>3. FileAnswer(id).status = 200
  <2>1. FileAnswer(id) = Respond(Returns(0, Json(<<"converted", output[id]>>)))
    BY <1>1, AnswersOfRoutes, JsonAnswered
  <2> QED
    BY <2>1, JsonAnswered
<1>4. DownloadAnswer(id).data.kind = "stream"
  <2> DEFINE outcome == Returns(200, Stream(output[id]))
  <2>1. ~outcome.thrown /\ Respond(outcome).data.kind = "stream"
    <3>1. ~outcome.thrown /\ Respond(outcome).data = Stream(output[id])
      BY StreamAnswered
    <3> HIDE DEF outcome
    <3> QED
      BY <3>1 DEF Stream
  <2>2. GetConvertedFileDownload(id) = outcome
    BY <1>2
  <2> HIDE DEF outcome
  <2> QED
    BY <2>1, <2>2, AnswersOfRoutes
<1> QED
  BY <1>3, <1>4 DEF Served

\* A result of unoconv that is announced as "converted" is handed out by both
\* routes, whatever vanishes, fails or is retried: changeConvLogEntry comes after
\* writeToFile, and ends of the worker leave no announcement.
THEOREM AnnouncedAreServed == Spec => []AnnouncedIsServed
<1>1. Init => ResultsWritten
  BY DEF Init, EmptyLog, ResultsWritten
<1>2. LInv /\ ResultsWritten /\ [Next]_vars => ResultsWritten'
  BY NextKeepsResults
<1>3. ResultsWritten => AnnouncedIsServed
  <2> SUFFICES ASSUME ResultsWritten, NEW id \in Ids,
                      StatusAnswer(id).data = Json(<<"converted">>), Converter[id] = "unoconv"
               PROVE  Served(id)
    BY DEF AnnouncedIsServed
  <2>1. StatusAnswer(id).data.content[1] = "converted"
    BY DEF Json
  <2>2. convLog[id].status = "converted"
    BY <2>1, StatusTold
  <2> QED
    BY <2>2, WrittenIsServed DEF ResultsWritten
<1> QED
  BY <1>1, <1>2, <1>3, LInvariance, PTL DEF Spec
================================================================================
