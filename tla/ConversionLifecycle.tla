-------------------------- MODULE ConversionLifecycle --------------------------
(***************************************************************************)
(* What a conversion worker promises about every request it has accepted:  *)
(* one attempt runs at a time, an attempt ends in a result or is counted,  *)
(* a request is given up only after MaxTries failed attempts, and a result *)
(* is final.  A worker may end, and then forgets all of it at once, but    *)
(* only by an attempt, running or past, at a fragile request.              *)
(* ConversionService implements this specification.                        *)
(***************************************************************************)
EXTENDS Naturals

CONSTANTS Ids,       \* conversion ids the worker may see
          MaxTries,  \* MAX_CONVERSION_TRIES
          Fragile    \* ids of which an attempt may end the worker

VARIABLES up,        \* the worker runs
          status,    \* [Ids -> the status the worker reports]
          attempts   \* [Ids -> failed attempts so far]

vars == <<up, status, attempts>>

Final == {"converted", "erroneous"}

Init == /\ up = TRUE
        /\ status = [id \in Ids |-> "absent"]
        /\ attempts = [id \in Ids |-> 0]

\* A request may pass several statuses inside one turn of the event loop, so
\* the promise bounds where a step may take a request, not each status it visits.
Legal(id) ==
  /\ status[id] \in Final => /\ status'[id] = status[id]
                             /\ attempts'[id] = attempts[id]
  /\ status[id] # "absent" => status'[id] # "absent"
  /\ \/ attempts'[id] = attempts[id]
     \/ status[id] = "processing" /\ attempts'[id] = attempts[id] + 1
  /\ status[id] = "processing" /\ status'[id] \in {"inQueue", "erroneous"}
        => attempts'[id] = attempts[id] + 1
  /\ status'[id] = "processing" => attempts'[id] < MaxTries
  /\ status'[id] = "converted" => /\ status[id] \in {"processing", "converted"}
                                  /\ attempts'[id] = attempts[id]
  /\ status'[id] = "erroneous" => attempts'[id] = MaxTries

AtMostOneProcessing ==
  \A i, j \in Ids : status[i] = "processing" /\ status[j] = "processing" => i = j

Proceeds == (\A id \in Ids : Legal(id)) /\ AtMostOneProcessing' /\ UNCHANGED up

Ends ==
  /\ \E id \in Fragile : status[id] \in {"processing", "converted"}
  /\ up' = FALSE
  /\ status' = [id \in Ids |-> "absent"]
  /\ attempts' = [id \in Ids |-> 0]

\* Nothing happens to the requests of a worker that has ended.
Next == up /\ (Proceeds \/ Ends)

Spec == Init /\ [][Next]_vars
================================================================================
