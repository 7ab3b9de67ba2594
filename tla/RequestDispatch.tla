---------------------------- MODULE RequestDispatch ----------------------------
(***************************************************************************)
(* What the redis-service promises about every conversion request: it      *)
(* waits in line, is taken from the front of it, given to one worker and   *)
(* comes back from that worker with a result, or is put in line again; the *)
(* result is published as it came and is gone when it has expired.  A      *)
(* request is lost on two ways only.  RedisService implements this         *)
(* specification.                                                          *)
(***************************************************************************)
EXTENDS Integers, Sequences, FiniteSets

CONSTANTS Ids,       \* conversion ids
          Workers,   \* containers
          Capacity,  \* TASKS_PER_CONTAINER
          MayMiss,   \* whether a worker may miss the request it is sent
          Unnamed    \* requests whose result cannot be told from their input

VARIABLES stage,     \* [Ids -> where the request is]
          line,      \* the requests that wait, first come first
          holders,   \* [Ids -> the workers that have the request]
          results    \* [Ids -> what there is of its result]

vars == <<stage, line, holders, results>>

Init == /\ stage = [id \in Ids |-> "new"]
        /\ line = <<>>
        /\ holders = [id \in Ids |-> {}]
        /\ results = [id \in Ids |-> {}]

Moves == {<<"new", "queued">>, <<"queued", "taken">>, <<"taken", "working">>,
          <<"working", "queued">>, <<"working", "collected">>,
          <<"collected", "finished">>, <<"finished", "expired">>}

Losses(id) == {m \in {<<"taken", "lost">>, <<"working", "lost">>} :
                 IF m[1] = "taken" THEN MayMiss ELSE id \in Unnamed}

\* One step of a request.  The worker that has it keeps it, and makes one result
\* of it; that result is collected and published, and nothing else is.
Legal(id) ==
  \/ /\ UNCHANGED <<stage[id], holders[id]>>
     /\ results'[id] = results[id] \/ (stage[id] = "working" /\ results[id] = {})
  \/ /\ <<stage[id], stage'[id]>> \in Moves \cup Losses(id)
     /\ results'[id] = IF stage'[id] \in {"collected", "finished"} THEN results[id] ELSE {}

\* What leaves the line leaves it at the front, and is taken; the others keep
\* their places in front of what joins.
InOrder ==
  \E n \in 0 .. Len(line) :
    /\ \A i \in 1 .. n : stage'[line[i]] = "taken"
    /\ Len(line) - n <= Len(line')
    /\ \A i \in 1 .. Len(line) - n : line'[i] = line[n + i]

\* The stage of a request says who has it: the line, where it is once, one worker
\* or nobody; and whether there can be or has to be a result, which is one.
OneStory ==
  /\ \A id \in Ids :
       /\ stage[id] = "queued" <=> \E i \in DOMAIN line : line[i] = id
       /\ stage[id] = "working" <=> holders[id] # {}
       /\ results[id] # {} => stage[id] \in {"working", "collected", "finished"}
       /\ stage[id] \in {"collected", "finished"} => results[id] # {}
       /\ \A c, d \in holders[id] : c = d
       /\ \A r, s \in results[id] : r = s
  /\ \A i, j \in DOMAIN line : line[i] = line[j] => i = j

WithinCapacity ==
  \A c \in Workers : Cardinality({id \in Ids : c \in holders[id]}) <= Capacity

Next == (\A id \in Ids : Legal(id)) /\ InOrder /\ (OneStory /\ WithinCapacity)'

Spec == Init /\ [][Next]_vars
================================================================================
