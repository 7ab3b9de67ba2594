------------------------------- MODULE FifoQueue -------------------------------
(***************************************************************************)
(* What the redis queue promises to RedisService: "the files in queue will *)
(* be processed after the FIFO principle".  Requests come in at one end,   *)
(* leave at the other, and only redis itself may lose what is between.     *)
(***************************************************************************)
EXTENDS Sequences

CONSTANT Requests

VARIABLES queued, \* requests in the order of their arrival
          taken   \* requests handed out, in that order

Init == queued = <<>> /\ taken = <<>>

\* A request arrives only once.
Accept(id) ==
  /\ \A i \in DOMAIN queued : queued[i] # id
  /\ \A i \in DOMAIN taken : taken[i] # id
  /\ queued' = Append(queued, id)
  /\ UNCHANGED taken

Take ==
  /\ queued # <<>>
  /\ taken' = Append(taken, Head(queued))
  /\ queued' = Tail(queued)

\* The oldest request is gone before anybody got it.
Drop ==
  /\ queued # <<>>
  /\ queued' = Tail(queued)
  /\ UNCHANGED taken

Clear == queued' = <<>> /\ UNCHANGED taken

Next == (\E id \in Requests : Accept(id)) \/ Take \/ Drop \/ Clear

Spec == Init /\ [][Next]_<<queued, taken>>
================================================================================
