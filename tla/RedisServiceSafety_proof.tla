------------------------ MODULE RedisServiceSafety_proof ------------------------
(***************************************************************************)
(* What holds of the requests of the redis-service as long as the outside  *)
(* world keeps some promises, for every number of requests and containers  *)
(* and every limit: no request is lost or done twice, clients are told the *)
(* truth about a finished one, and the service implements RequestDispatch. *)
(***************************************************************************)
EXTENDS RedisService_proof, RedisApi, RestApi_proof

(***************************************************************************)
(* How often a request occurs in a sequence.                               *)
(***************************************************************************)
LEMMA TimesIsNat ==
  ASSUME NEW s \in Seq(Requests), NEW id
  PROVE  /\ IsFiniteSet({i \in DOMAIN s : s[i] = id})
         /\ Times(id, s) \in Nat
         /\ Times(id, s) > 0 <=> \E i \in DOMAIN s : s[i] = id
<1> DEFINE I == {i \in DOMAIN s : s[i] = id}
<1>1. IsFiniteSet(1 .. Len(s))
  BY FS_Interval
<1>2. I \in SUBSET (1 .. Len(s))
  OBVIOUS
<1>3. IsFiniteSet(I) /\ Cardinality(I) \in Nat
  BY <1>1, <1>2, FS_Subset, FS_CardinalityType
<1>4. Cardinality(I) = 0 <=> I = {}
  BY <1>3, FS_EmptySet
<1> HIDE DEF I
<1>5. Cardinality(I) > 0 <=> I # {}
  BY <1>3, <1>4
<1> QED
  BY <1>3, <1>5 DEF I, Times

\* Renumbering does not change how many there are.
LEMMA ShiftKeepsSize ==
  ASSUME NEW I \in SUBSET Int, IsFiniteSet(I), NEW k \in Int
  PROVE  /\ IsFiniteSet({i + k : i \in I})
         /\ Cardinality({i + k : i \in I}) = Cardinality(I)
<1> DEFINE up   == [i \in Int |-> i + k]
           down == [i \in Int |-> i - k]
           J    == {i + k : i \in I}
<1>1. J = {up[i] : i \in I}
  OBVIOUS
<1>2. I = {down[j] : j \in J}
  <2>1. \A i \in I : i + k \in J /\ down[i + k] = i
    OBVIOUS
  <2>2. \A j \in J : \E i \in I : j = i + k
    OBVIOUS
  <2> HIDE DEF down, J
  <2> QED
    BY <2>1, <2>2
<1> HIDE DEF up, down, J
<1>3. IsFiniteSet(J) /\ Cardinality(J) <= Cardinality(I)
  BY <1>1, ImageIsSmaller
<1>4. Cardinality(I) <= Cardinality(J)
  BY <1>2, <1>3, ImageIsSmaller
<1>5. Cardinality(I) \in Nat /\ Cardinality(J) \in Nat
  BY <1>3, FS_CardinalityType
<1> QED
  BY <1>3, <1>4, <1>5 DEF J

LEMMA TimesOfNothing ==
  ASSUME NEW id
  PROVE  Times(id, <<>>) = 0
<1>1. {i \in DOMAIN <<>> : <<>>[i] = id} = {}
  OBVIOUS
<1> QED
  BY <1>1, FS_EmptySet DEF Times

LEMMA TimesOfPair ==
  ASSUME NEW A, NEW B, IsFiniteSet(A), IsFiniteSet(B), A \cap B = {}
  PROVE  Cardinality(A \cup B) = Cardinality(A) + Cardinality(B)
<1>1. Cardinality(A \cup B) = Cardinality(A) + Cardinality(B) - Cardinality(A \cap B)
  BY FS_Union
<1>2. Cardinality(A \cap B) = 0
  BY FS_EmptySet
<1>3. Cardinality(A) \in Nat /\ Cardinality(B) \in Nat
  BY FS_CardinalityType
<1> QED
  BY <1>1, <1>2, <1>3

LEMMA TimesOfAppend ==
  ASSUME NEW s \in Seq(Requests), NEW x \in Requests, NEW id \in Requests
  PROVE  Times(id, Append(s, x)) = Times(id, s) + (IF x = id THEN 1 ELSE 0)
<1> DEFINE t == Append(s, x)
           I == {i \in DOMAIN s : s[i] = id}
           n == Len(s) + 1
<1>1. /\ t \in Seq(Requests) /\ DOMAIN t = 1 .. n /\ t[n] = x
      /\ Len(s) \in Nat /\ DOMAIN s = 1 .. Len(s) /\ \A i \in 1 .. Len(s) : t[i] = s[i]
  OBVIOUS
<1>2. IsFiniteSet(I) /\ Times(id, s) = Cardinality(I) /\ Cardinality(I) \in Nat
  BY TimesIsNat DEF Times
<1>3. Times(id, t) = Cardinality({i \in DOMAIN t : t[i] = id})
  BY DEF Times
<1> HIDE DEF t
<1>4. CASE x = id
  <2>1. {i \in DOMAIN t : t[i] = id} = I \cup {n}
    BY <1>1, <1>4
  <2>2. n \notin I
    BY <1>1
  <2>3. Cardinality(I \cup {n}) = Cardinality(I) + 1
    BY <1>2, <2>2, FS_AddElement
  <2> QED
    BY <1>2, <1>3, <1>4, <2>1, <2>3 DEF t
<1>5. CASE x # id
  <2>1. {i \in DOMAIN t : t[i] = id} = I
    BY <1>1, <1>5
  <2> HIDE DEF I
  <2>2. Times(id, t) = Times(id, s) /\ Times(id, s) \in Nat
    BY <1>2, <1>3, <2>1
  <2> QED
    BY <1>5, <2>2 DEF t
<1> QED
  BY <1>4, <1>5

\* Cut in two, a sequence has all its requests in the two parts.
LEMMA TimesOfParts ==
  ASSUME NEW s \in Seq(Requests), NEW n \in 0 .. Len(s), NEW id \in Requests
  PROVE  Times(id, s) = Times(id, SubSeq(s, 1, n)) + Times(id, SubSeq(s, n + 1, Len(s)))
<1> DEFINE front == SubSeq(s, 1, n)
           back  == SubSeq(s, n + 1, Len(s))
           I == {i \in DOMAIN s : s[i] = id}
           F == {i \in DOMAIN front : front[i] = id}
           B == {i \in DOMAIN back : back[i] = id}
           M == {i + n : i \in B}
<1>1. /\ Len(s) \in Nat /\ DOMAIN s = 1 .. Len(s)
      /\ front \in Seq(Requests) /\ DOMAIN front = 1 .. n
      /\ \A i \in 1 .. n : front[i] = s[i]
  OBVIOUS
<1>2. /\ back \in Seq(Requests) /\ DOMAIN back = 1 .. Len(s) - n
      /\ \A i \in 1 .. Len(s) - n : back[i] = s[i + n]
  <2>1. CASE n = Len(s)
    BY <2>1
  <2>2. CASE n < Len(s)
    BY <2>2
  <2> QED
    BY <2>1, <2>2
<1>3. Times(id, s) = Cardinality(I) /\ Times(id, front) = Cardinality(F)
      /\ Times(id, back) = Cardinality(B)
  BY DEF Times
<1>4. IsFiniteSet(F) /\ IsFiniteSet(B)
  BY <1>1, <1>2, TimesIsNat
<1> HIDE DEF front, back
<1>5. B \in SUBSET Int /\ n \in Int
  BY <1>2
<1>6. IsFiniteSet(M) /\ Cardinality(M) = Cardinality(B)
  BY <1>4, <1>5, ShiftKeepsSize
<1>7. F \cap M = {}
  BY <1>1, <1>2
<1>8. I = F \cup M
  <2>1. ASSUME NEW i \in I
        PROVE  i \in F \cup M
    <3>1. CASE i <= n
      BY <3>1, <1>1
    <3>2. CASE i > n
      <4>1. i - n \in 1 .. Len(s) - n /\ (i - n) + n = i
        BY <3>2, <1>1
      <4>2. i - n \in B
        BY <4>1, <1>2
      <4> QED
        BY <4>1, <4>2
    <3> QED
      BY <3>1, <3>2, <1>1
  <2>2. ASSUME NEW i \in F
        PROVE  i \in I
    BY <1>1
  <2>3. ASSUME NEW i \in B
        PROVE  i + n \in I
    BY <1>1, <1>2
  <2> QED
    BY <2>1, <2>2, <2>3
<1> HIDE DEF I, F, B, M
<1>9. Cardinality(F \cup M) = Cardinality(F) + Cardinality(M)
  BY <1>4, <1>6, <1>7, TimesOfPair
<1> QED
  BY <1>3, <1>6, <1>8, <1>9 DEF front, back

LEMMA TimesOfTail ==
  ASSUME NEW s \in Seq(Requests), s # <<>>, NEW id \in Requests
  PROVE  Times(id, s) = Times(id, Tail(s)) + (IF Head(s) = id THEN 1 ELSE 0)
<1>1. 1 \in 0 .. Len(s) /\ Tail(s) = SubSeq(s, 2, Len(s)) /\ Tail(s) \in Seq(Requests)
  BY HeadTailProperties
<1> DEFINE u == SubSeq(s, 1, 1)
<1>2. DOMAIN u = {1} /\ u[1] = Head(s)
  OBVIOUS
<1> HIDE DEF u
<1>3. Times(id, u) = IF Head(s) = id THEN 1 ELSE 0
  <2>1. CASE Head(s) = id
    <3>1. {i \in DOMAIN u : u[i] = id} = {1}
      BY <1>2, <2>1
    <3> QED
      BY <2>1, <3>1, FS_Singleton DEF Times
  <2>2. CASE Head(s) # id
    <3>1. {i \in DOMAIN u : u[i] = id} = {}
      BY <1>2, <2>2
    <3> QED
      BY <2>2, <3>1, FS_EmptySet DEF Times
  <2> QED
    BY <2>1, <2>2
<1>4. Times(id, s) = Times(id, u) + Times(id, SubSeq(s, 1 + 1, Len(s)))
  BY <1>1, TimesOfParts DEF u
<1>5. SubSeq(s, 1 + 1, Len(s)) = Tail(s)
  BY <1>1
<1>6. Times(id, Tail(s)) \in Nat /\ Times(id, u) \in {0, 1}
  BY <1>1, <1>3, TimesIsNat
<1>7. Times(id, s) = Times(id, u) + Times(id, Tail(s))
  BY <1>4, <1>5
<1> QED
  BY <1>3, <1>6, <1>7

--------------------------------------------------------------------------------
(***************************************************************************)
(* The inductive invariant: besides the properties of requests, where the  *)
(* probe stands when it holds something, and that what it holds is there.  *)
(* As long as no docker or redis command fails no request is there twice;  *)
(* two more promises keep it from getting lost.                            *)
(***************************************************************************)
AtMostOnePlace ==
  \A id \in Requests : /\ Copies(id) \in {0, 1}
                       /\ Copies(id) = 1 => Answered(id) /\ ~Expired(id)

\* Containers may turn unhealthy, workers refuse requests, status requests and
\* downloads may fail; but every worker answers when it is sent a request, no
\* redis or docker command fails, and every request names its format.
Orderly == Faults \subseteq {"sick", "refuse", "poll", "fetch"} /\ WithoutFormat = {}

\* Whom a popped request is planned for is a worker; a task fetchFiles still has
\* to look at is on its worker as it was seen; and the requests of a worker have
\* different ids.
PhaseFits ==
  /\ popped # <<>> => pc = "send"
  /\ \A i \in DOMAIN plan : plan[i] \in Members
  /\ todo # {} => pc = "fetch"
  /\ \A x \in todo : /\ x[1] \in Members
                     /\ \E task \in workers[x[1]] : task.id = x[2] /\ task.known = x[3]
  /\ \A c \in Members : \A t, u \in workers[c] : t.id = u.id => t = u

\* No POST /conversion fails halfway, and only a request can have an old result.
ClientFits ==
  /\ \A id \in Requests : client[id] # "failed"
  /\ \A id \in old : client[id] # "new"

SInv == /\ EInv /\ PhaseFits /\ ClientFits
        /\ AtMostOnePlace /\ (Orderly => ExactlyOnePlace) /\ InputKept

LEMMA OrderlyProbesEnd ==
  ASSUME Orderly
  PROVE  ProbesEnd
BY DEF Orderly, ProbesEnd, EngineObeys

--------------------------------------------------------------------------------
(***************************************************************************)
(* The places a request is counted in.                                     *)
(***************************************************************************)
\* Those where it still has to be converted.
Active(id) == Times(id, queue) + Times(id, popped) + Cardinality(Holders(id))

LEMMA CountsAreNat ==
  ASSUME FInv, NEW id \in Requests
  PROVE  /\ Times(id, queue) \in Nat /\ Times(id, popped) \in Nat
         /\ IsFiniteSet(Holders(id)) /\ Cardinality(Holders(id)) \in Nat
         /\ IsFiniteSet(Collected(id)) /\ Cardinality(Collected(id)) \in Nat
         /\ Done(id) \in {0, 1} /\ Active(id) \in Nat
         /\ Copies(id) = Active(id) + Cardinality(Collected(id)) + Done(id)
<1>1. Times(id, queue) \in Nat /\ Times(id, popped) \in Nat
  BY TimesIsNat DEF FInv, IInv, PlanType
<1>2. IsFiniteSet(Holders(id)) /\ Cardinality(Holders(id)) \in Nat
  <2>1. Holders(id) \in SUBSET Members
    BY DEF Holders
  <2> QED
    BY <2>1, FreeIsFinite, FS_Subset, FS_CardinalityType
<1>3. IsFiniteSet(Collected(id)) /\ Cardinality(Collected(id)) \in Nat
  <2>1. Collected(id) \in SUBSET ({id} \X {"converted", "erroneous"})
    BY DEF Collected, FInv, RequestTypes
  <2>2. IsFiniteSet({id}) /\ IsFiniteSet({"converted", "erroneous"})
    <3>1. /\ IsFiniteSet({id})
          /\ IsFiniteSet({"converted"}) /\ IsFiniteSet({"erroneous"})
      BY FS_Singleton
    <3>2. IsFiniteSet({"converted"} \cup {"erroneous"})
      BY <3>1, FS_Union
    <3>3. {"converted", "erroneous"} = {"converted"} \cup {"erroneous"}
      OBVIOUS
    <3> QED
      BY <3>1, <3>2, <3>3
  <2>3. IsFiniteSet({id} \X {"converted", "erroneous"})
    BY <2>2, FS_Product
  <2> QED
    BY <2>1, <2>3, FS_Subset, FS_CardinalityType
<1>4. Done(id) \in {0, 1}
  BY DEF Done
<1>5. Copies(id) = Active(id) + Cardinality(Collected(id)) + Done(id)
  BY DEF Copies, Active
<1>6. Active(id) \in Nat
  BY <1>1, <1>2 DEF Active
<1> QED
  BY <1>1, <1>2, <1>3, <1>4, <1>5, <1>6

\* Whoever is counted somewhere is counted nowhere else.
LEMMA CountedOnce ==
  ASSUME SInv, NEW id \in Requests
  PROVE  /\ Active(id) + Cardinality(Collected(id)) + Done(id) \in {0, 1}
         /\ Active(id) + Cardinality(Collected(id)) + Done(id) = 1
              => Answered(id) /\ ~Expired(id)
BY CountsAreNat DEF SInv, EInv, AtMostOnePlace

LEMMA ActiveIsWithInput ==
  ASSUME SInv, NEW id \in Requests, Active(id) > 0
  PROVE  id \in input
BY DEF SInv, InputKept, Active

\* The properties, of one request.
PlacedAt(id) ==
  /\ Copies(id) \in {0, 1}
  /\ Copies(id) = 1 => Answered(id) /\ ~Expired(id)
  /\ Orderly /\ Answered(id) /\ ~Expired(id) => Copies(id) = 1
  /\ Active(id) > 0 => id \in input

Placed == AtMostOnePlace /\ (Orderly => ExactlyOnePlace) /\ InputKept

LEMMA PlacedEverywhere ==
  ASSUME \A id \in Requests : PlacedAt(id)'
  PROVE  Placed'
<1>1. AtMostOnePlace' /\ InputKept'
  BY DEF PlacedAt, AtMostOnePlace, InputKept, Active
<1>2. Orderly => ExactlyOnePlace'
  BY DEF PlacedAt, ExactlyOnePlace
<1> QED
  BY <1>1, <1>2 DEF Placed, Orderly

LEMMA SumOfCounts ==
  ASSUME NEW id
  PROVE  /\ Copies(id) = Active(id) + Cardinality(Collected(id)) + Done(id)
         /\ Copies(id)' = Active(id)' + Cardinality(Collected(id)') + Done(id)'
BY DEF Copies, Active

LEMMA OneUntouched ==
  ASSUME SInv, NEW id \in Requests,
         UNCHANGED <<Active(id), Collected(id), Done(id), Answered(id), Expired(id)>>,
         id \in input => id \in input'
  PROVE  PlacedAt(id)'
<1>1. Copies(id)' = Copies(id)
  BY SumOfCounts
<1>2. /\ Copies(id) \in {0, 1}
      /\ Copies(id) = 1 => Answered(id) /\ ~Expired(id)
      /\ Orderly /\ Answered(id) /\ ~Expired(id) => Copies(id) = 1
  BY DEF SInv, AtMostOnePlace, ExactlyOnePlace
<1>3. Active(id) > 0 => id \in input
  BY ActiveIsWithInput
<1> QED
  BY <1>1, <1>2, <1>3 DEF PlacedAt, Orderly

\* A step that moves requests between the queue, the probe and the workers.
LEMMA OnlyMoved ==
  ASSUME SInv, UNCHANGED <<client, finished, old, batch, input>>,
         \A id \in Requests : Active(id)' = Active(id)
  PROVE  Placed'
<1>1. ASSUME NEW id \in Requests
      PROVE  PlacedAt(id)'
  <2>1. UNCHANGED <<Collected(id), Done(id), Answered(id), Expired(id)>>
    BY DEF Collected, Done, Answered, Expired
  <2> QED
    BY <2>1, OneUntouched
<1> QED
  BY <1>1, PlacedEverywhere

\* A step that leaves every request with whom holds it.
LEMMA HoldersKept ==
  ASSUME SInv, UNCHANGED <<client, finished, old, batch, input, queue, popped>>,
         \A id \in Requests : Holders(id)' = Holders(id)
  PROVE  Placed'
<1>1. ASSUME NEW id \in Requests
      PROVE  Active(id)' = Active(id)
  BY <1>1 DEF Active
<1> QED
  BY <1>1, OnlyMoved

\* While no unhealthy worker is emptied, whoever has a request holds it.
LEMMA HoldersOf ==
  ASSUME FInv, pc # "redispatch", NEW id
  PROVE  Holders(id) = {c \in Members : \E task \in workers[c] : task.id = id}
BY DEF FInv, CheckFits, Holders, HeldBy

LEMMA HoldersUntouched ==
  ASSUME UNCHANGED <<place, workers, sick, redone>>, NEW id
  PROVE  Holders(id)' = Holders(id)
BY DEF Holders, HeldBy, Members

--------------------------------------------------------------------------------
(***************************************************************************)
(* Requests come in, and their results grow old.                           *)
(***************************************************************************)
LEMMA ConvertFilePlaces ==
  ASSUME SInv, NEW id \in Requests, ConvertFile(id)
  PROVE  Placed'
<1>1. /\ client[id] = "new" /\ client' = [client EXCEPT ![id] = "accepted"]
      /\ input' = input \cup {id} /\ queue' = Append(queue, id)
      /\ UNCHANGED <<finished, old, batch, popped, place, workers, sick, redone>>
  BY DEF ConvertFile, AddRequestToQueue, handler, results, checking, sending, fetching
<1>2. queue \in Seq(Requests) /\ client \in [Requests -> {"new", "accepted", "failed"}]
  BY DEF SInv, EInv, FInv, IInv, PlanType, RequestTypes
<1>3. ASSUME NEW x \in Requests
      PROVE  PlacedAt(x)'
  <2>1. Times(x, queue') = Times(x, queue) + (IF id = x THEN 1 ELSE 0)
    BY <1>1, <1>2, TimesOfAppend
  <2>2. UNCHANGED <<Holders(x), Collected(x), Done(x), Expired(x), Times(x, popped)>>
    BY <1>1, HoldersUntouched DEF Collected, Done, Expired
  <2>3. CASE x # id
    <3>1. Times(x, queue') = Times(x, queue)
      <4>1. Times(x, queue) \in Nat
        BY <1>2, TimesIsNat
      <4> QED
        BY <2>1, <2>3, <4>1
    <3>2. UNCHANGED <<Active(x), Answered(x)>>
      BY <1>1, <1>2, <2>2, <2>3, <3>1 DEF Active, Answered
    <3> QED
      BY <1>1, <2>2, <3>2, OneUntouched
  <2>4. CASE x = id
    <3>1. Times(id, queue') = Times(id, queue) + 1
      BY <2>1, <2>4
    <3>2. ~Answered(id) /\ Answered(id)' /\ ~Expired(id)
      BY <1>1, <1>2 DEF Answered, Expired, SInv, ClientFits
    <3>3. /\ Active(id)' = Active(id) + 1
          /\ Active(id) + Cardinality(Collected(id)) + Done(id) = 0
      <4>1. Active(id)' = Times(id, queue') + Times(id, popped) + Cardinality(Holders(id))
        BY <2>2, <2>4 DEF Active
      <4>2. /\ Times(id, queue) \in Nat /\ Times(id, popped) \in Nat
            /\ Cardinality(Holders(id)) \in Nat
        BY CountsAreNat DEF SInv, EInv
      <4> QED
        BY <3>1, <3>2, <4>1, <4>2, CountedOnce DEF Active
    <3>4. Copies(id)' = 1
      <4>1. Active(id) \in Nat /\ Cardinality(Collected(id)) \in Nat /\ Done(id) \in {0, 1}
        BY CountsAreNat DEF SInv, EInv
      <4>2. Copies(id)' = Active(id)' + Cardinality(Collected(id)) + Done(id)
        BY <2>2, <2>4, SumOfCounts
      <4> QED
        BY <3>3, <4>1, <4>2
    <3> QED
      BY <1>1, <2>2, <2>4, <3>2, <3>4 DEF PlacedAt
  <2> QED
    BY <2>3, <2>4
<1> QED
  BY <1>3, PlacedEverywhere

LEMMA GrowsOldPlaces ==
  ASSUME SInv, NEW id \in Requests, GrowsOld(id)
  PROVE  Placed'
<1>1. /\ finished[id] # "none" /\ old' = old \cup {id}
      /\ UNCHANGED <<client, finished, batch, input, queue, popped, place, workers, sick, redone>>
  BY DEF GrowsOld, files, api, handler, fetching, checking, sending
<1>2. ASSUME NEW x \in Requests
      PROVE  PlacedAt(x)'
  <2>1. UNCHANGED <<Holders(x), Collected(x), Done(x), Answered(x), Expired(x)>>
    BY <1>1, HoldersUntouched DEF Collected, Done, Answered, Expired
  <2>2. UNCHANGED Active(x)
    BY <1>1, <2>1 DEF Active
  <2> QED
    BY <1>1, <2>1, <2>2, OneUntouched
<1> QED
  BY <1>2, PlacedEverywhere

--------------------------------------------------------------------------------
(***************************************************************************)
(* The check of the health hands requests back.                            *)
(***************************************************************************)
LEMMA CheckHealthHolders ==
  ASSUME SInv, CheckHealth, NEW id \in Requests
  PROVE  Holders(id)' = Holders(id)
<1>1. /\ pc = "health" /\ pc' = "redispatch"
      /\ UNCHANGED <<place, workers, redone>>
  BY DEF CheckHealth, handler
<1>2. redone = {} /\ redone' = {}
  BY <1>1 DEF SInv, EInv, FInv, CheckFits
<1>3. \A c : HeldBy(c, id) <=> \E task \in workers[c] : task.id = id
  BY <1>2 DEF HeldBy
<1>4. \A c : HeldBy(c, id)' <=> \E task \in workers[c] : task.id = id
  BY <1>1, <1>2 DEF HeldBy
<1>5. Members' = Members
  BY <1>1 DEF Members
<1> QED
  BY <1>3, <1>4, <1>5 DEF Holders

LEMMA CheckHealthPlaces ==
  ASSUME SInv, CheckHealth
  PROVE  Placed'
<1>1. UNCHANGED <<client, finished, old, batch, input, queue, popped>>
  BY DEF CheckHealth, api, results, fetching, files, sending
<1> QED
  BY <1>1, CheckHealthHolders, HoldersKept

LEMMA RedispatchHolders ==
  ASSUME SInv, NEW task \in Tasks, Redispatch(task), NEW id \in Requests
  PROVE  /\ task.id = id => /\ Head(sick) \in Holders(id)
                            /\ Holders(id)' = Holders(id) \ {Head(sick)}
         /\ task.id # id => Holders(id)' = Holders(id)
<1>1. /\ sick # <<>> /\ task \in workers[Head(sick)] /\ task.id \notin redone
      /\ redone' = redone \cup {task.id} /\ UNCHANGED <<place, workers, sick>>
  BY DEF Redispatch, handler
<1>2. Head(sick) \in Members /\ Members' = Members
  BY <1>1, HeadIsMember DEF Members, SInv, EInv, FInv
<1> QED
  BY <1>1, <1>2 DEF Holders, HeldBy

LEMMA RedispatchPlaces ==
  ASSUME SInv, NEW task \in Tasks, Redispatch(task)
  PROVE  Placed'
<1> DEFINE w == Head(sick)
           r == task.id
<1>1. /\ sick # <<>> /\ task \in workers[w] /\ r \notin redone
      /\ queue' = Append(queue, r) /\ redone' = redone \cup {r}
      /\ UNCHANGED <<client, finished, old, batch, input, popped, place, workers, sick>>
  BY DEF Redispatch, AddRequestToQueue, results, fetching, files, sending, handler
<1>2. r \in Requests /\ queue \in Seq(Requests) /\ w \in Members
  BY <1>1, HeadIsMember DEF Tasks, SInv, EInv, FInv, IInv, PlanType
<1>3. ASSUME NEW id \in Requests
      PROVE  Active(id)' = Active(id)
  <2>1. Times(id, queue') = Times(id, queue) + (IF r = id THEN 1 ELSE 0)
    BY <1>1, <1>2, TimesOfAppend
  <2>2. /\ Times(id, queue) \in Nat /\ Times(id, popped) \in Nat
        /\ IsFiniteSet(Holders(id)) /\ Cardinality(Holders(id)) \in Nat
    BY CountsAreNat DEF SInv, EInv
  <2>4. Active(id)' = Times(id, queue') + Times(id, popped) + Cardinality(Holders(id)')
    BY <1>1 DEF Active
  <2>5. CASE r = id
    <3>1. w \in Holders(id) /\ Holders(id)' = Holders(id) \ {w}
      BY <2>5, RedispatchHolders
    <3>3. Cardinality(Holders(id)') = Cardinality(Holders(id)) - 1
      BY <3>1, <2>2, FS_RemoveElement
    <3>4. Times(id, queue') = Times(id, queue) + 1
      BY <2>1, <2>5
    <3> QED
      BY <2>2, <2>4, <3>3, <3>4 DEF Active
  <2>6. CASE r # id
    <3>1. Holders(id)' = Holders(id)
      BY <2>6, RedispatchHolders
    <3>2. Times(id, queue') = Times(id, queue)
      BY <2>1, <2>2, <2>6
    <3> QED
      BY <2>4, <3>1, <3>2 DEF Active
  <2> QED
    BY <2>5, <2>6
<1> QED
  BY <1>1, <1>3, OnlyMoved

\* The worker that goes down holds nothing any more; the next one still holds
\* all it has.
LEMMA RemoveUnhealthyHolders ==
  ASSUME SInv, RemoveUnhealthy, NEW id \in Requests
  PROVE  Holders(id)' = Holders(id) /\ \A c \in Holders(id) : workers'[c] = workers[c]
<1> DEFINE w == Head(sick)
<1>1. /\ sick # <<>> /\ \A task \in workers[w] : task.id \in redone
      /\ Dismiss({w}) /\ sick' = Tail(sick) /\ redone' = {}
  BY DEF RemoveUnhealthy
<1>2. {w} \in SUBSET Members /\ Members' = Members \ {w}
  BY <1>1, HeadIsMember, DismissPlaces DEF SInv, EInv, FInv
<1>3. \A c \in Containers : c # w => workers'[c] = workers[c]
  BY <1>1 DEF Dismiss
<1>4. w \notin Holders(id)
  BY <1>1 DEF Holders, HeldBy
<1>5. ASSUME NEW c \in Members, c # w
      PROVE  workers'[c] = workers[c] /\ (HeldBy(c, id)' <=> HeldBy(c, id))
  <2>1. workers'[c] = workers[c]
    BY <1>3, <1>5 DEF Members
  <2> QED
    BY <1>1, <1>5, <2>1 DEF HeldBy
<1>6. Holders(id)' = Holders(id)
  BY <1>2, <1>4, <1>5 DEF Holders
<1> QED
  BY <1>4, <1>5, <1>6 DEF Holders

LEMMA RemoveUnhealthyPlaces ==
  ASSUME SInv, RemoveUnhealthy
  PROVE  Placed'
<1>1. UNCHANGED <<client, finished, old, batch, input, queue, popped>>
  BY DEF RemoveUnhealthy, api, results, fetching, files, sending
<1> QED
  BY <1>1, RemoveUnhealthyHolders, HoldersKept

--------------------------------------------------------------------------------
(***************************************************************************)
(* Requests go to their workers.                                           *)
(***************************************************************************)
LEMMA PopRequestsPlaces ==
  ASSUME SInv, PopRequests
  PROVE  Placed'
<1> DEFINE n == Smaller(Len(queue), Cardinality(Free))
<1>1. /\ pc = "forward"
      /\ popped' = SubSeq(queue, 1, n) /\ queue' = SubSeq(queue, n + 1, Len(queue))
      /\ UNCHANGED <<client, finished, old, batch, input, place, workers, sick, redone>>
  BY DEF PopRequests, results, fetching, files, handler, checking
<1>2. queue \in Seq(Requests) /\ n \in 0 .. Len(queue)
  <2>1. queue \in Seq(Requests) /\ Len(queue) \in Nat /\ Cardinality(Free) \in Nat
    BY FreeIsFinite DEF SInv, EInv, FInv, IInv, PlanType
  <2> QED
    BY <2>1 DEF Smaller
<1> HIDE DEF n
<1>3. popped = <<>>
  BY <1>1 DEF SInv, PhaseFits
<1>4. ASSUME NEW id \in Requests
      PROVE  Active(id)' = Active(id)
  <2>1. Times(id, queue) = Times(id, popped') + Times(id, queue')
    BY <1>1, <1>2, TimesOfParts
  <2>2. Times(id, popped) = 0
    BY <1>3, TimesOfNothing
  <2>3. Holders(id)' = Holders(id)
    BY <1>1, HoldersUntouched
  <2>4. Times(id, queue') \in Nat /\ Times(id, popped') \in Nat
    <3>1. queue' \in Seq(Requests) /\ popped' \in Seq(Requests)
      BY <1>1, <1>2
    <3> QED
      BY <3>1, TimesIsNat
  <2>5. Cardinality(Holders(id)) \in Nat
    BY CountsAreNat DEF SInv, EInv
  <2>6. /\ Active(id)' = Times(id, queue') + Times(id, popped') + Cardinality(Holders(id))
        /\ Active(id) = Times(id, queue) + Times(id, popped) + Cardinality(Holders(id))
    BY <2>3 DEF Active
  <2> QED
    BY <2>1, <2>2, <2>4, <2>5, <2>6
<1> QED
  BY <1>1, <1>4, OnlyMoved

\* The next popped request has an input file, nobody has it yet, and the worker
\* planned for it is one docker lists.
LEMMA SendIsFit ==
  ASSUME SInv, NEW w \in Containers, NEW id \in Requests, Send(w, id)
  PROVE  /\ pc = "send" /\ w \in Members /\ docker[w] # "none"
         /\ id \in input /\ Holders(id) = {}
         /\ \A task \in workers[w] : task.id # id
         /\ \A x \in Requests :
              Times(x, popped') = Times(x, popped) - (IF x = id THEN 1 ELSE 0)
<1>1. /\ pc = "send" /\ popped # <<>> /\ popped' = Tail(popped)
      /\ id = Head(popped) /\ w = Head(plan)
  BY DEF Send
<1>2. popped \in Seq(Requests) /\ plan \in Seq(Containers) /\ Len(popped) = Len(plan)
  BY DEF SInv, EInv, FInv, IInv, PlanType
<1>3. w \in Members
  <2>1. 1 \in DOMAIN plan /\ w = plan[1]
    BY <1>1, <1>2
  <2> QED
    BY <2>1 DEF SInv, PhaseFits
<1>4. docker[w] # "none"
  BY <1>1, <1>3, ProbeKnowsEngine DEF SInv, Listed
<1>5. ASSUME NEW x \in Requests
      PROVE  /\ Times(x, popped) = Times(x, popped') + (IF id = x THEN 1 ELSE 0)
             /\ Times(x, popped') \in Nat
  <2>1. Times(x, popped) = Times(x, Tail(popped)) + (IF Head(popped) = x THEN 1 ELSE 0)
    BY <1>1, <1>2, TimesOfTail
  <2>2. Tail(popped) \in Seq(Requests)
    BY <1>1, <1>2, HeadTailProperties
  <2>3. Times(x, Tail(popped)) \in Nat
    BY <2>2, TimesIsNat
  <2> QED
    BY <1>1, <2>1, <2>3
<1>6. Times(id, popped) > 0
  <2>1. Times(id, popped) = Times(id, popped') + 1 /\ Times(id, popped') \in Nat
    BY <1>5
  <2> QED
    BY <2>1
<1>7. Active(id) > 0 /\ Cardinality(Holders(id)) = 0
  <2>1. /\ Times(id, queue) \in Nat /\ Times(id, popped) \in Nat
        /\ Cardinality(Holders(id)) \in Nat
        /\ Cardinality(Collected(id)) \in Nat /\ Done(id) \in {0, 1}
    BY CountsAreNat DEF SInv, EInv
  <2>2. Active(id) + Cardinality(Collected(id)) + Done(id) \in {0, 1}
    BY CountedOnce
  <2> QED
    BY <1>6, <2>1, <2>2 DEF Active
<1>8. Holders(id) = {}
  BY <1>7, CountsAreNat, FS_EmptySet DEF SInv, EInv
<1>9. \A task \in workers[w] : task.id # id
  BY <1>1, <1>3, <1>8, HoldersOf DEF SInv, EInv
<1>10. id \in input
  BY <1>7, ActiveIsWithInput
<1>11. ASSUME NEW x \in Requests
       PROVE  Times(x, popped') = Times(x, popped) - (IF x = id THEN 1 ELSE 0)
  BY <1>5
<1> QED
  BY <1>1, <1>3, <1>4, <1>8, <1>9, <1>10, <1>11

LEMMA DispatchHolders ==
  ASSUME SInv, NEW w \in Containers, NEW id \in Requests, Send(w, id),
         NEW job, Dispatch(w, id, job), NEW x \in Requests
  PROVE  Holders(x)' = IF x = id THEN {w} ELSE Holders(x)
<1>1. pc = "send" /\ UNCHANGED <<place, sick, redone>>
  BY DEF Send, checking
<1>2. /\ workers'[w] = workers[w] \cup {[id |-> id, known |-> "open", job |-> job]}
      /\ \A c \in Containers : c # w => workers'[c] = workers[c]
  BY DEF Dispatch, SInv, EInv, FInv, IInv, WorkersType
<1>3. w \in Members /\ Holders(id) = {} /\ Members' = Members /\ Members \subseteq Containers
  BY <1>1, SendIsFit DEF Members
<1>4. sick = <<>>
  BY <1>1 DEF SInv, EInv, FInv, CheckFits
<1>5. /\ Holders(x) = {c \in Members : \E task \in workers[c] : task.id = x}
      /\ Holders(x)' = {c \in Members : \E task \in workers'[c] : task.id = x}
  BY <1>1, <1>3, <1>4 DEF Holders, HeldBy
<1>6. CASE x = id
  <2> DEFINE sent == [id |-> id, known |-> "open", job |-> job]
  <2>0. sent \in workers'[w] /\ sent.id = id
    BY <1>2
  <2> HIDE DEF sent
  <2>1. \E task \in workers'[w] : task.id = id
    BY <2>0
  <2>2. \A c \in Members : c # w => ~ \E task \in workers'[c] : task.id = id
    BY <1>2, <1>3, <1>5, <1>6
  <2> QED
    BY <1>3, <1>5, <1>6, <2>1, <2>2
<1>7. CASE x # id
  BY <1>2, <1>3, <1>5, <1>7
<1> QED
  BY <1>6, <1>7

LEMMA DispatchPlaces ==
  ASSUME SInv, NEW w \in Containers, NEW id \in Requests, Send(w, id),
         NEW job, Dispatch(w, id, job)
  PROVE  Placed'
<1>1. UNCHANGED <<client, finished, old, batch, input, queue>>
  BY DEF Send, results, fetching, files, api
<1>2. ASSUME NEW x \in Requests
      PROVE  Active(x)' = Active(x)
  <2>1. /\ Times(x, queue) \in Nat /\ Times(x, popped) \in Nat
        /\ Cardinality(Holders(x)) \in Nat
    BY CountsAreNat DEF SInv, EInv
  <2>2. Times(x, popped') = Times(x, popped) - (IF x = id THEN 1 ELSE 0)
    BY SendIsFit
  <2>3. Active(x)' = Times(x, queue) + Times(x, popped') + Cardinality(Holders(x)')
    BY <1>1 DEF Active
  <2>4. CASE x = id
    <3>1. Holders(x)' = {w} /\ Holders(x) = {}
      BY <2>4, DispatchHolders, SendIsFit
    <3>2. Cardinality(Holders(x)') = 1 /\ Cardinality(Holders(x)) = 0
      BY <3>1, FS_Singleton, FS_EmptySet
    <3>3. Times(x, popped') = Times(x, popped) - 1
      BY <2>2, <2>4
    <3> QED
      BY <2>1, <2>3, <3>2, <3>3 DEF Active
  <2>5. CASE x # id
    <3>1. Holders(x)' = Holders(x)
      BY <2>5, DispatchHolders
    <3>2. Times(x, popped') = Times(x, popped)
      BY <2>1, <2>2, <2>5
    <3> QED
      BY <2>3, <3>1, <3>2 DEF Active
  <2> QED
    BY <2>4, <2>5
<1> QED
  BY <1>1, <1>2, OnlyMoved

\* Updating the requests on the workers one by one moves none of them.
OneByOne(f) ==
  /\ workers' = [c \in Containers |-> {f[c][task] : task \in workers[c]}]
  /\ \A c \in Containers : \A task \in workers[c] : f[c][task].id = task.id

LEMMA UpdatingPlaces ==
  ASSUME SInv, UNCHANGED <<client, finished, old, batch, input, queue, popped>>,
         UNCHANGED <<place, sick, redone>>,
         NEW f, OneByOne(f)
  PROVE  /\ Placed'
         /\ \A c \in Members' : \A t, u \in workers'[c] : t.id = u.id => t = u
<1>1. Members' = Members /\ Members \subseteq Containers
  BY DEF Members
<1>2. \A c \in Containers : /\ workers'[c] = {f[c][task] : task \in workers[c]}
                            /\ \A task \in workers[c] : f[c][task].id = task.id
  BY DEF OneByOne
<1>3. ASSUME NEW id \in Requests
      PROVE  Holders(id)' = Holders(id)
  <2>1. ASSUME NEW c \in Containers
        PROVE  (\E task \in workers'[c] : task.id = id) <=> \E task \in workers[c] : task.id = id
    BY <1>2
  <2>2. ASSUME NEW c \in Containers
        PROVE  HeldBy(c, id)' <=> HeldBy(c, id)
    BY <2>1 DEF HeldBy
  <2> QED
    BY <1>1, <2>2 DEF Holders
<1>4. ASSUME NEW c \in Members, NEW t \in workers'[c], NEW u \in workers'[c], t.id = u.id
      PROVE  t = u
  <2>1. PICK t0 \in workers[c] : t = f[c][t0]
    BY <1>1, <1>2
  <2>2. PICK u0 \in workers[c] : u = f[c][u0]
    BY <1>1, <1>2
  <2>3. t0.id = u0.id
    BY <1>1, <1>2, <1>4, <2>1, <2>2
  <2>4. t0 = u0
    BY <2>3 DEF SInv, PhaseFits
  <2> QED
    BY <2>1, <2>2, <2>4
<1>5. Placed'
  BY <1>3, HoldersKept
<1> QED
  BY <1>1, <1>4, <1>5

--------------------------------------------------------------------------------
(***************************************************************************)
(* Requests leave their workers, and results come and go.                  *)
(***************************************************************************)
LEMMA CollectingHolders ==
  ASSUME SInv, NEW c \in Containers, NEW id \in Requests, NEW outcome,
         pc = "fetch", <<c, id, outcome>> \in todo,
         RemoveRequestFromWorker(c, id), UNCHANGED <<place, sick, redone>>,
         NEW x \in Requests
  PROVE  /\ c \in Holders(id)
         /\ Holders(x)' = IF x = id THEN Holders(id) \ {c} ELSE Holders(x)
<1>1. sick = <<>> /\ c \in Members /\ \E task \in workers[c] : task.id = id
  BY DEF SInv, EInv, FInv, CheckFits, PhaseFits
<1>2. Members' = Members /\ Members \subseteq Containers
  BY DEF Members
<1>3. /\ workers'[c] = {task \in workers[c] : task.id # id}
      /\ \A d \in Containers : d # c => workers'[d] = workers[d]
  BY DEF RemoveRequestFromWorker, SInv, EInv, FInv, IInv, WorkersType
<1>4. ASSUME NEW y \in Requests
      PROVE  /\ Holders(y) = {d \in Members : \E task \in workers[d] : task.id = y}
             /\ Holders(y)' = {d \in Members : \E task \in workers'[d] : task.id = y}
  BY <1>1, <1>2 DEF Holders, HeldBy
<1>5. Holders(id)' = Holders(id) \ {c} /\ c \in Holders(id)
  BY <1>1, <1>2, <1>3, <1>4
<1>6. CASE x # id
  <2>1. ASSUME NEW d \in Members
        PROVE  (\E task \in workers'[d] : task.id = x) <=> \E task \in workers[d] : task.id = x
    BY <1>2, <1>3, <1>6
  <2> QED
    BY <1>4, <1>5, <1>6, <2>1
<1> QED
  BY <1>5, <1>6

\* What becomes of a request fetchFiles takes off its worker: it is collected, or
\* lost when it did not name its format.
LEMMA CollectingPlaces ==
  ASSUME SInv, NEW c \in Containers, NEW id \in Requests, NEW outcome,
         pc = "fetch", <<c, id, outcome>> \in todo,
         RemoveRequestFromWorker(c, id), DeleteInput(id, outcome),
         UNCHANGED <<client, finished, old, queue, popped, place, sick, redone>>
  PROVE  Placed'
<1>1. Holders(id)' = Holders(id) \ {c}
  BY CollectingHolders
<1>2. c \in Holders(id)
  BY CollectingHolders
<1>3. /\ Times(id, queue) \in Nat /\ Times(id, popped) \in Nat
      /\ IsFiniteSet(Holders(id)) /\ Cardinality(Holders(id)) \in Nat
      /\ IsFiniteSet(Collected(id)) /\ Cardinality(Collected(id)) \in Nat
      /\ Done(id) \in {0, 1}
  BY CountsAreNat DEF SInv, EInv
<1>4. Cardinality(Holders(id)) > 0 /\ Cardinality(Holders(id)') = Cardinality(Holders(id)) - 1
  <2>1. Cardinality(Holders(id) \ {c}) = Cardinality(Holders(id)) - 1
        /\ IsFiniteSet(Holders(id) \ {c})
    BY <1>2, <1>3, FS_RemoveElement
  <2>2. Cardinality(Holders(id) \ {c}) \in Nat
    BY <2>1, FS_CardinalityType
  <2> QED
    BY <1>1, <1>3, <2>1, <2>2
<1>5. /\ Active(id) = 1 /\ Cardinality(Collected(id)) = 0 /\ Done(id) = 0
      /\ Active(id)' = 0 /\ Answered(id) /\ ~Expired(id)
  <2>1. Active(id) + Cardinality(Collected(id)) + Done(id) \in {0, 1}
        /\ (Active(id) + Cardinality(Collected(id)) + Done(id) = 1
              => Answered(id) /\ ~Expired(id))
    BY CountedOnce
  <2>2. Active(id) = Times(id, queue) + Times(id, popped) + Cardinality(Holders(id))
    BY DEF Active
  <2>3. Active(id)' = Times(id, queue) + Times(id, popped) + Cardinality(Holders(id)')
    BY DEF Active
  <2>4. /\ Active(id) = 1 /\ Cardinality(Collected(id)) = 0 /\ Done(id) = 0
        /\ Active(id)' = 0
    BY <1>3, <1>4, <2>1, <2>2, <2>3
  <2> QED
    BY <2>1, <2>4
<1>6. Collected(id) = {}
  BY <1>3, <1>5, FS_EmptySet
<1>7. Done(id)' = 0 /\ Answered(id)' /\ ~Expired(id)'
  BY <1>5 DEF Done, Answered, Expired
<1>8. \/ input' = input \ {id} /\ batch' = batch \cup {<<id, outcome>>}
      \/ UNCHANGED <<input, batch>> /\ ~Orderly
  <2>1. id \in input
    BY <1>5, ActiveIsWithInput
  <2> QED
    BY <2>1 DEF DeleteInput, Orderly
<1>9. PlacedAt(id)'
  <2>1. CASE batch' = batch \cup {<<id, outcome>>}
    <3>1. Collected(id)' = {<<id, outcome>>}
      BY <1>6, <2>1 DEF Collected
    <3>2. Cardinality(Collected(id)') = 1
      BY <3>1, FS_Singleton
    <3>3. Copies(id)' = 1
      BY <1>5, <1>7, <3>2, SumOfCounts
    <3> QED
      BY <1>5, <1>7, <3>3 DEF PlacedAt
  <2>2. CASE batch' = batch /\ ~Orderly
    <3>1. Cardinality(Collected(id)') = 0
      BY <1>5, <2>2 DEF Collected
    <3>2. Copies(id)' = 0
      BY <1>5, <1>7, <3>1, SumOfCounts
    <3> QED
      BY <1>5, <2>2, <3>2 DEF PlacedAt, Orderly
  <2> QED
    BY <1>8, <2>1, <2>2
<1>10. ASSUME NEW x \in Requests, x # id
       PROVE  PlacedAt(x)'
  <2>1. Holders(x)' = Holders(x)
    BY <1>10, CollectingHolders
  <2>2. UNCHANGED <<Active(x), Done(x), Answered(x), Expired(x)>>
    BY <2>1 DEF Active, Done, Answered, Expired
  <2>3. UNCHANGED Collected(x)
    BY <1>8, <1>10 DEF Collected
  <2> QED
    BY <1>8, <1>10, <2>2, <2>3, OneUntouched
<1> QED
  BY <1>9, <1>10, PlacedEverywhere

\* A collected request becomes a finished one.
LEMMA StoreFinishedPlaces ==
  ASSUME SInv, StoreFinished
  PROVE  Placed'
<1>1. /\ finished' \in [Requests -> {"none", "converted", "erroneous"}]
      /\ \A id \in Requests : IF \E b \in batch : b[1] = id
                                THEN <<id, finished'[id]>> \in batch
                                ELSE finished'[id] = finished[id]
      /\ old' = {id \in old : \A b \in batch : b[1] # id}
      /\ batch' = {}
      /\ UNCHANGED <<client, input, queue, popped, place, workers, sick, redone>>
  BY DEF StoreFinished, files, handler, api, checking, sending
<1>2. ASSUME NEW id \in Requests
      PROVE  UNCHANGED <<Active(id), Answered(id)>> /\ Collected(id)' = {}
  <2>1. Holders(id)' = Holders(id)
    BY <1>1, HoldersUntouched
  <2> QED
    BY <1>1, <2>1 DEF Active, Answered, Collected
<1>3. ASSUME NEW id \in Requests
      PROVE  PlacedAt(id)'
  <2>1. CASE \E b \in batch : b[1] = id
    <3>1. Collected(id) # {}
      BY <2>1 DEF Collected
    <3>2. Cardinality(Collected(id)) > 0
      <4>1. IsFiniteSet(Collected(id)) /\ Cardinality(Collected(id)) \in Nat
        BY CountsAreNat DEF SInv, EInv
      <4>2. Cardinality(Collected(id)) # 0
        BY <3>1, <4>1, FS_EmptySet
      <4> QED
        BY <4>1, <4>2
    <3>3. Active(id) = 0 /\ Answered(id)
      <4>1. Active(id) \in Nat /\ Cardinality(Collected(id)) \in Nat /\ Done(id) \in {0, 1}
        BY CountsAreNat DEF SInv, EInv
      <4>2. Active(id) + Cardinality(Collected(id)) + Done(id) \in {0, 1}
            /\ (Active(id) + Cardinality(Collected(id)) + Done(id) = 1
                  => Answered(id) /\ ~Expired(id))
        BY CountedOnce
      <4>3. Active(id) = 0 /\ Active(id) + Cardinality(Collected(id)) + Done(id) = 1
        BY <3>2, <4>1, <4>2
      <4> QED
        BY <4>2, <4>3
    <3>4. finished'[id] # "none"
      BY <1>1, <2>1 DEF SInv, EInv, FInv, RequestTypes
    <3>5. Done(id)' = 1 /\ ~Expired(id)'
      BY <3>4 DEF Done, Expired
    <3>6. Cardinality(Collected(id)') = 0
      BY <1>2, FS_EmptySet
    <3>7. Copies(id)' = 1
      BY <1>2, <3>3, <3>5, <3>6, SumOfCounts
    <3> QED
      BY <1>2, <3>3, <3>5, <3>7 DEF PlacedAt
  <2>2. CASE ~ \E b \in batch : b[1] = id
    <3>1. finished'[id] = finished[id] /\ (id \in old' <=> id \in old)
      BY <1>1, <2>2
    <3>2. UNCHANGED <<Done(id), Expired(id), Collected(id)>>
      BY <1>2, <2>2, <3>1 DEF Done, Expired, Collected
    <3> QED
      BY <1>1, <1>2, <3>2, OneUntouched
  <2> QED
    BY <2>1, <2>2
<1> QED
  BY <1>3, PlacedEverywhere

\* The TTL takes a result and makes its request one that has expired.
LEMMA CheckFileTtlPlaces ==
  ASSUME SInv, CheckFileTtl
  PROVE  Placed'
<1>1. /\ finished' = [id \in Requests |-> IF id \in Outdated THEN "none" ELSE finished[id]]
      /\ UNCHANGED <<client, old, batch, input, queue, popped, place, workers, sick, redone>>
  BY DEF CheckFileTtl, handler, api, checking, sending, fetching
<1>2. ASSUME NEW id \in Requests
      PROVE  UNCHANGED <<Active(id), Answered(id), Collected(id)>>
  <2>1. Holders(id)' = Holders(id)
    BY <1>1, HoldersUntouched
  <2> QED
    BY <1>1, <2>1 DEF Active, Answered, Collected
<1>3. ASSUME NEW id \in Requests
      PROVE  PlacedAt(id)'
  <2>1. CASE id \in Outdated
    <3>1. id \in old /\ finished[id] # "none" /\ finished'[id] = "none"
      BY <1>1, <2>1 DEF Outdated
    <3>2. Done(id) = 1 /\ Done(id)' = 0 /\ Expired(id)'
      BY <1>1, <3>1 DEF Done, Expired
    <3>3. Active(id) = 0 /\ Cardinality(Collected(id)) = 0
      <4>1. Active(id) \in Nat /\ Cardinality(Collected(id)) \in Nat
        BY CountsAreNat DEF SInv, EInv
      <4>2. Active(id) + Cardinality(Collected(id)) + Done(id) \in {0, 1}
        BY CountedOnce
      <4> QED
        BY <3>2, <4>1, <4>2
    <3>4. Copies(id)' = 0
      <4>1. Copies(id)' = Active(id) + Cardinality(Collected(id)) + Done(id)'
        BY <1>2, SumOfCounts
      <4> QED
        BY <3>2, <3>3, <4>1
    <3> QED
      BY <1>2, <3>2, <3>3, <3>4 DEF PlacedAt
  <2>2. CASE id \notin Outdated
    <3>1. UNCHANGED <<Done(id), Expired(id)>>
      BY <1>1, <2>2 DEF Done, Expired
    <3> QED
      BY <1>1, <1>2, <3>1, OneUntouched
  <2> QED
    BY <2>1, <2>2
<1> QED
  BY <1>3, PlacedEverywhere

--------------------------------------------------------------------------------
(***************************************************************************)
(* Workers come and go without a request.                                  *)
(***************************************************************************)
LEMMA StartContainersHolders ==
  ASSUME SInv, NEW S \in SUBSET Fresh, StartContainers(S), NEW id \in Requests
  PROVE  Holders(id)' = Holders(id) /\ \A c \in Holders(id) : workers'[c] = workers[c]
<1>1. pc = "apply" /\ Enroll(S) /\ UNCHANGED sick
  BY DEF StartContainers, Applied, checking
<1>2. sick = <<>> /\ sick' = <<>>
  BY <1>1 DEF SInv, EInv, FInv, CheckFits
<1>3. Members' = Members \cup S /\ Members \subseteq Containers /\ S \subseteq Containers
      /\ Members \cap S = {}
  <2>1. Members' = Members \cup S
    BY <1>1, EnrollPlaces DEF SInv, EInv, FInv
  <2> QED
    BY <2>1 DEF Members, Fresh
<1>4. \A c \in Containers : workers'[c] = IF c \in S THEN {} ELSE workers[c]
  BY <1>1 DEF Enroll
<1>5. Holders(id) = {c \in Members : \E task \in workers[c] : task.id = id}
  BY <1>2 DEF Holders, HeldBy
<1>6. Holders(id)' = {c \in Members' : \E task \in workers'[c] : task.id = id}
  BY <1>2 DEF Holders, HeldBy
<1>7. \A c \in S : ~ \E task \in workers'[c] : task.id = id
  BY <1>3, <1>4
<1>8. \A c \in Members : workers'[c] = workers[c]
  BY <1>3, <1>4
<1> QED
  BY <1>3, <1>5, <1>6, <1>7, <1>8

LEMMA StartContainersPlaces ==
  ASSUME SInv, NEW S \in SUBSET Fresh, StartContainers(S)
  PROVE  Placed'
<1>1. UNCHANGED <<client, finished, old, batch, input, queue, popped>>
  BY DEF StartContainers, Applied, results, fetching, files, api, sending
<1> QED
  BY <1>1, StartContainersHolders, HoldersKept

LEMMA RemoveIdleHolders ==
  ASSUME SInv, RemoveIdle, NEW id \in Requests
  PROVE  Holders(id)' = Holders(id) /\ \A c \in Holders(id) : workers'[c] = workers[c]
<1> DEFINE S == FirstIdle(toRemove)
<1>1. pc = "apply" /\ Dismiss(S) /\ UNCHANGED sick
  BY DEF RemoveIdle, Applied, checking
<1>2. sick = <<>> /\ sick' = <<>>
  BY <1>1 DEF SInv, EInv, FInv, CheckFits
<1>3. S \in SUBSET Members /\ \A c \in S : workers[c] = {}
  BY FirstIdleAreMembers
<1> HIDE DEF S
<1>4. Members' = Members \ S /\ Members \subseteq Containers
  BY <1>1, <1>3, DismissPlaces DEF SInv, EInv, FInv, Members
<1>5. \A c \in Containers : c \notin S => workers'[c] = workers[c]
  BY <1>1 DEF Dismiss
<1>6. Holders(id) = {c \in Members : \E task \in workers[c] : task.id = id}
  BY <1>2 DEF Holders, HeldBy
<1>7. Holders(id)' = {c \in Members' : \E task \in workers'[c] : task.id = id}
  BY <1>2 DEF Holders, HeldBy
<1> QED
  BY <1>3, <1>4, <1>5, <1>6, <1>7

LEMMA RemoveIdlePlaces ==
  ASSUME SInv, RemoveIdle
  PROVE  Placed'
<1>1. UNCHANGED <<client, finished, old, batch, input, queue, popped>>
  BY DEF RemoveIdle, Applied, results, fetching, files, api, sending
<1> QED
  BY <1>1, RemoveIdleHolders, HoldersKept

--------------------------------------------------------------------------------
(***************************************************************************)
(* All steps.                                                              *)
(***************************************************************************)
LEMMA PlacedUntouched ==
  ASSUME SInv, UNCHANGED <<client, finished, old, batch, input, queue, popped>>,
         UNCHANGED <<place, workers, sick, redone>>
  PROVE  Placed'
<1>1. ASSUME NEW id \in Requests
      PROVE  Holders(id)' = Holders(id)
  BY HoldersUntouched
<1> QED
  BY <1>1, HoldersKept

\* A request whose worker does not answer is lost.
LEMMA ForwardFailsPlaces ==
  ASSUME SInv, NEW w \in Containers, NEW id \in Requests, ForwardFails(w, id)
  PROVE  Placed'
<1>1. /\ Send(w, id) /\ pc = "send"
      /\ UNCHANGED <<client, finished, old, batch, input, queue, place, workers, sick, redone>>
  BY DEF ForwardFails, Send, results, fetching, files, api, checking
<1>2. ~Orderly
  BY <1>1, SendIsFit DEF ForwardFails, MayFail, Orderly
<1>3. ASSUME NEW x \in Requests
      PROVE  /\ UNCHANGED <<Collected(x), Done(x), Answered(x), Expired(x)>>
             /\ Active(x)' = Active(x) - (IF x = id THEN 1 ELSE 0)
  <2>1. UNCHANGED <<Holders(x), Collected(x), Done(x), Answered(x), Expired(x)>>
    BY <1>1, HoldersUntouched DEF Collected, Done, Answered, Expired
  <2>2. Times(x, popped') = Times(x, popped) - (IF x = id THEN 1 ELSE 0)
    BY <1>1, SendIsFit
  <2>3. /\ Times(x, queue) \in Nat /\ Times(x, popped) \in Nat
        /\ Cardinality(Holders(x)) \in Nat
    BY CountsAreNat DEF SInv, EInv
  <2>4. Active(x)' = Times(x, queue) + Times(x, popped') + Cardinality(Holders(x))
    BY <1>1, <2>1 DEF Active
  <2> QED
    BY <2>1, <2>2, <2>3, <2>4 DEF Active
<1>4. ASSUME NEW x \in Requests
      PROVE  PlacedAt(x)'
  <2>1. CASE x # id
    <3>1. UNCHANGED Active(x)
      <4>1. Active(x) \in Nat
        BY CountsAreNat DEF SInv, EInv
      <4> QED
        BY <1>3, <2>1, <4>1
    <3> QED
      BY <1>1, <1>3, <3>1, OneUntouched
  <2>2. CASE x = id
    <3>1. /\ Active(x) \in Nat /\ Cardinality(Collected(x)) \in Nat /\ Done(x) \in {0, 1}
          /\ Active(x)' = Active(x) - 1
      BY <1>3, <2>2, CountsAreNat DEF SInv, EInv
    <3>2. Active(x)' \in Nat
      <4>1. Active(x)' = Times(x, queue) + Times(x, popped') + Cardinality(Holders(x)')
        BY <1>1 DEF Active
      <4>2. UNCHANGED Holders(x)
        BY <1>1, HoldersUntouched
      <4>3. Times(x, popped') \in Nat
        <5>1. popped \in Seq(Requests) /\ popped # <<>> /\ popped' = Tail(popped)
          BY <1>1 DEF Send, SInv, EInv, FInv, IInv, PlanType
        <5>2. popped' \in Seq(Requests)
          BY <5>1, HeadTailProperties
        <5> QED
          BY <5>2, TimesIsNat
      <4> QED
        BY <4>1, <4>2, <4>3, CountsAreNat DEF SInv, EInv
    <3>3. Active(x) + Cardinality(Collected(x)) + Done(x) \in {0, 1}
      BY CountedOnce
    <3>4. Active(x)' = 0 /\ Copies(x)' = 0
      <4>1. Copies(x)' = Active(x)' + Cardinality(Collected(x)) + Done(x)
        BY <1>3, SumOfCounts
      <4> QED
        BY <3>1, <3>2, <3>3, <4>1
    <3> QED
      BY <1>2, <3>4 DEF PlacedAt, Orderly
  <2> QED
    BY <2>1, <2>2
<1> QED
  BY <1>4, PlacedEverywhere

LEMMA AtWorkerPlaces ==
  ASSUME SInv, NEW c \in Containers, NEW id \in Requests, AtWorker(c, id)
  PROVE  Placed'
<1>1. CASE Forward(c, id)
  BY <1>1, DispatchPlaces DEF Forward
<1>2. CASE ForwardRefused(c, id)
  BY <1>2, DispatchPlaces DEF ForwardRefused
<1>3. CASE FetchFile(c, id)
  <2>1. /\ pc = "fetch" /\ <<c, id, "converted">> \in todo
        /\ RemoveRequestFromWorker(c, id) /\ DeleteInput(id, "converted")
        /\ UNCHANGED <<client, finished, old, queue, popped, place, sick, redone>>
    BY <1>3 DEF FetchFile, api, results, checking, sending
  <2> QED
    BY <2>1, CollectingPlaces
<1>4. CASE FetchFileFails(c, id)
  BY <1>4, PlacedUntouched DEF FetchFileFails, files, handler, api, results, checking, sending
<1>5. CASE CollectErroneous(c, id)
  <2>1. /\ pc = "fetch" /\ <<c, id, "erroneous">> \in todo
        /\ RemoveRequestFromWorker(c, id) /\ DeleteInput(id, "erroneous")
        /\ UNCHANGED <<client, finished, old, queue, popped, place, sick, redone>>
    BY <1>5 DEF CollectErroneous, api, results, checking, sending
  <2> QED
    BY <2>1, CollectingPlaces
<1> QED
  BY <1>1, <1>2, <1>3, <1>4, <1>5, ForwardFailsPlaces DEF AtWorker

LEMMA UpdatesPlace ==
  ASSUME SInv,
         Probe \/ \E c \in Containers : \E task \in Tasks : JobEnds(c, task)
  PROVE  /\ Placed'
         /\ \A c \in Members' : \A t, u \in workers'[c] : t.id = u.id => t = u
<1>1. WorkersType
  BY DEF SInv, EInv, FInv, IInv
<1>2. CASE Probe
  <2>1. UNCHANGED <<client, finished, old, batch, input, queue, popped, place, sick, redone>>
    BY <1>2 DEF Probe, files, api, results, checking, sending
  <2>2. PICK f : /\ workers' = [c \in Containers |-> {f[c][task] : task \in workers[c]}]
                 /\ \A c \in Containers : \A task \in workers[c] :
                      f[c][task] \in Tasks /\ f[c][task].id = task.id
    BY <1>1, <1>2, ProbeUpdates
  <2>3. OneByOne(f)
    BY <2>2 DEF OneByOne
  <2> QED
    BY <2>1, <2>3, UpdatingPlaces
<1>3. ASSUME NEW c \in Containers, NEW task \in Tasks, JobEnds(c, task)
      PROVE  /\ Placed'
             /\ \A d \in Members' : \A t, u \in workers'[d] : t.id = u.id => t = u
  <2>1. UNCHANGED <<client, finished, old, batch, input, queue, popped, place, sick, redone>>
    BY <1>3 DEF JobEnds, internal, files, api, results, checking, sending, fetching
  <2>2. PICK f : /\ workers' = [d \in Containers |-> {f[d][t] : t \in workers[d]}]
                 /\ \A d \in Containers : \A t \in workers[d] :
                      f[d][t] \in Tasks /\ SameForService(f[d][t], t)
    BY <1>1, <1>3, JobEndsUpdates
  <2>3. OneByOne(f)
    BY <2>2 DEF OneByOne, SameForService
  <2> QED
    BY <2>1, <2>3, UpdatingPlaces
<1> QED
  BY <1>2, <1>3

LEMMA FileOpensPlaces ==
  ASSUME SInv, NEW id \in Requests, FileOpens(id)
  PROVE  Placed'
BY PlacedUntouched DEF FileOpens, handler, api, results, checking, sending, fetching

LEMMA KeepsPlaced ==
  ASSUME ProbesEnd, SInv, [Next]_vars
  PROVE  Placed'
<1> USE DEF files, handler, api, results, checking, sending, fetching
<1>1. CASE WorldGoesOn
  <2>1. ASSUME NEW id \in Requests, ConvertFile(id) \/ GrowsOld(id) \/ FileOpens(id)
        PROVE  Placed'
    BY <2>1, ConvertFilePlaces, GrowsOldPlaces, FileOpensPlaces
  <2>2. ASSUME NEW c \in Containers, Boots(c) \/ Sickens(c)
        PROVE  Placed'
    BY <2>2, PlacedUntouched DEF Boots, Sickens, DockerChanges, internal
  <2> QED
    BY <1>1, <2>1, <2>2, UpdatesPlace DEF WorldGoesOn
<1>2. CASE Tick \/ UpdateStatus
  BY <1>2, PlacedUntouched DEF Tick, UpdateStatus
<1>3. ASSUME NEW task \in Tasks, Redispatch(task)
      PROVE  Placed'
  BY <1>3, RedispatchPlaces
<1>4. ASSUME NEW S \in SUBSET Fresh, StartContainers(S)
      PROVE  Placed'
  BY <1>4, StartContainersPlaces
<1>5. CASE UNCHANGED vars
  BY <1>5, PlacedUntouched DEF vars
<1> HIDE DEF files, handler, api, results, checking, sending, fetching
<1>6. CASE ProbeGoesOn
  BY <1>6, <1>2, <1>3, <1>4, CheckHealthPlaces, RemoveUnhealthyPlaces, PopRequestsPlaces,
     AtWorkerPlaces, UpdatesPlace, StoreFinishedPlaces, RemoveIdlePlaces, CheckFileTtlPlaces
  DEF ProbeGoesOn
<1> QED
  BY <1>1, <1>5, <1>6, NothingThrows DEF SInv

--------------------------------------------------------------------------------
LEMMA PhaseUntouched ==
  ASSUME SInv, UNCHANGED <<place, workers, popped, plan, todo>>,
         pc' = pc \/ (popped = <<>> /\ todo = {})
  PROVE  PhaseFits'
<1>1. Members' = Members
  BY DEF Members
<1> QED
  BY <1>1 DEF SInv, PhaseFits

\* Workers come and go when the probe holds no request.
LEMMA PhaseIsIdle ==
  ASSUME SInv, UNCHANGED <<popped, plan, todo>>, pc \notin {"send", "fetch"},
         \A c \in Members' : workers'[c] = {} \/ (c \in Members /\ workers'[c] = workers[c])
  PROVE  PhaseFits'
<1>1. popped = <<>> /\ todo = {}
  BY DEF SInv, PhaseFits
<1>2. DOMAIN plan = {}
  <2>1. plan \in Seq(Containers) /\ Len(plan) = 0
    BY <1>1 DEF SInv, EInv, FInv, IInv, PlanType
  <2> QED
    BY <2>1
<1> QED
  BY <1>1, <1>2 DEF SInv, PhaseFits

LEMMA PlannedAreMembers ==
  ASSUME SInv, NEW w \in Containers, NEW id \in Requests, Send(w, id),
         NEW i \in DOMAIN plan'
  PROVE  plan'[i] \in Members
<1>1. plan' \in Seq(Containers)
      /\ \A j \in 1 .. Len(plan') : plan'[j] = plan[j + 1] /\ j + 1 \in 1 .. Len(plan)
  BY SendShortensPlan DEF SInv, EInv, FInv, PlanType
<1>2. plan'[i] = plan[i + 1] /\ i + 1 \in DOMAIN plan
  BY <1>1 DEF SInv, EInv, FInv, IInv, PlanType
<1> QED
  BY <1>2 DEF SInv, PhaseFits

LEMMA ForwardFailsPhase ==
  ASSUME SInv, NEW w \in Containers, NEW id \in Requests, ForwardFails(w, id)
  PROVE  PhaseFits'
<1>1. Send(w, id) /\ pc = "send" /\ pc' = pc /\ UNCHANGED <<place, todo, workers>>
  BY DEF ForwardFails, Send, control, fetching
<1>2. Members' = Members
  BY <1>1 DEF Members
<1>3. \A i \in DOMAIN plan' : plan'[i] \in Members
  BY <1>1, PlannedAreMembers
<1> QED
  BY <1>1, <1>2, <1>3 DEF SInv, PhaseFits

LEMMA DispatchPhase ==
  ASSUME SInv, NEW w \in Containers, NEW id \in Requests, Send(w, id),
         NEW job, Dispatch(w, id, job)
  PROVE  PhaseFits'
<1>1. pc = "send" /\ pc' = pc /\ UNCHANGED <<place, todo>>
  BY DEF Send, control, fetching
<1>2. todo = {}
  BY <1>1 DEF SInv, PhaseFits
<1>3. Members' = Members /\ Members \subseteq Containers
  BY <1>1 DEF Members
<1>4. \A i \in DOMAIN plan' : plan'[i] \in Members
  BY PlannedAreMembers
<1> DEFINE sent == [id |-> id, known |-> "open", job |-> job]
<1>5. /\ workers'[w] = workers[w] \cup {sent} /\ sent.id = id
      /\ \A c \in Containers : c # w => workers'[c] = workers[c]
  BY DEF Dispatch, SInv, EInv, FInv, IInv, WorkersType
<1> HIDE DEF sent
<1>6. \A task \in workers[w] : task.id # id
  BY SendIsFit
<1>7. ASSUME NEW c \in Members, NEW t \in workers'[c], NEW u \in workers'[c], t.id = u.id
      PROVE  t = u
  <2>1. \A d \in Members : \A x, y \in workers[d] : x.id = y.id => x = y
    BY DEF SInv, PhaseFits
  <2>2. CASE c # w
    BY <1>3, <1>5, <1>7, <2>1, <2>2
  <2>3. CASE c = w
    BY <1>3, <1>5, <1>6, <1>7, <2>1, <2>3
  <2> QED
    BY <2>2, <2>3
<1> QED
  BY <1>1, <1>2, <1>3, <1>4, <1>7 DEF PhaseFits

\* What fetchFiles still has to look at is not what it has just looked at.
LEMMA CollectingPhase ==
  ASSUME SInv, NEW c \in Containers, NEW id \in Requests, NEW outcome,
         <<c, id, outcome>> \in todo, todo' = todo \ {<<c, id, outcome>>},
         RemoveRequestFromWorker(c, id), UNCHANGED <<place, popped, plan, pc>>
  PROVE  PhaseFits'
<1>1. Members' = Members /\ Members \subseteq Containers
  BY DEF Members
<1>2. /\ workers'[c] = {task \in workers[c] : task.id # id}
      /\ \A d \in Containers : d # c => workers'[d] = workers[d]
  BY DEF RemoveRequestFromWorker, SInv, EInv, FInv, IInv, WorkersType
<1>3. PICK mine \in workers[c] : mine.id = id /\ mine.known = outcome
  BY DEF SInv, PhaseFits
<1>4. ASSUME NEW x \in todo'
      PROVE  x[1] \in Members /\ \E task \in workers'[x[1]] : task.id = x[2] /\ task.known = x[3]
  <2>1. PICK task \in workers[x[1]] : task.id = x[2] /\ task.known = x[3]
    BY DEF SInv, PhaseFits
  <2>2. x[1] \in Members /\ c \in Members
    BY DEF SInv, PhaseFits
  <2>3. CASE x[1] # c
    BY <1>1, <1>2, <2>1, <2>2, <2>3
  <2>4. CASE x[1] = c
    <3>1. x[2] # id
      <4>1. SUFFICES ASSUME x[2] = id
                     PROVE  FALSE
        OBVIOUS
      <4>2. task = mine
        BY <1>3, <2>1, <2>2, <2>4, <4>1 DEF SInv, PhaseFits
      <4>3. x = <<c, id, outcome>>
        <5>1. x \in Containers \X Requests \X {"converted", "erroneous"}
          BY DEF SInv, EInv, FInv, RequestTypes
        <5> QED
          BY <1>3, <2>1, <2>4, <4>1, <4>2, <5>1
      <4> QED
        BY <4>3
    <3> QED
      BY <1>2, <2>1, <2>2, <2>4, <3>1
  <2> QED
    BY <2>2, <2>3, <2>4
<1>5. \A d \in Members : workers'[d] \subseteq workers[d]
  BY <1>1, <1>2
<1> QED
  BY <1>1, <1>4, <1>5 DEF SInv, PhaseFits

LEMMA AtWorkerPhase ==
  ASSUME SInv, NEW c \in Containers, NEW id \in Requests, AtWorker(c, id)
  PROVE  PhaseFits'
<1>1. CASE Forward(c, id)
  BY <1>1, DispatchPhase DEF Forward
<1>2. CASE ForwardRefused(c, id)
  BY <1>2, DispatchPhase DEF ForwardRefused
<1>3. CASE FetchFile(c, id)
  <2>1. /\ <<c, id, "converted">> \in todo /\ todo' = todo \ {<<c, id, "converted">>}
        /\ RemoveRequestFromWorker(c, id) /\ UNCHANGED <<place, popped, plan, pc>>
    BY <1>3 DEF FetchFile, sending, control
  <2> QED
    BY <2>1, CollectingPhase
<1>4. CASE FetchFileFails(c, id)
  <2>1. /\ todo' \subseteq todo /\ UNCHANGED <<place, workers, popped, plan, pc>>
    BY <1>4 DEF FetchFileFails, handler, sending, control
  <2>2. Members' = Members
    BY <2>1 DEF Members
  <2> QED
    BY <2>1, <2>2 DEF SInv, PhaseFits
<1>5. CASE CollectErroneous(c, id)
  <2>1. /\ <<c, id, "erroneous">> \in todo /\ todo' = todo \ {<<c, id, "erroneous">>}
        /\ RemoveRequestFromWorker(c, id) /\ UNCHANGED <<place, popped, plan, pc>>
    BY <1>5 DEF CollectErroneous, sending, control
  <2> QED
    BY <2>1, CollectingPhase
<1> QED
  BY <1>1, <1>2, <1>3, <1>4, <1>5, ForwardFailsPhase DEF AtWorker

LEMMA UpdatesPhase ==
  ASSUME SInv, NEW c \in Containers, NEW ended \in Tasks, JobEnds(c, ended)
  PROVE  PhaseFits'
<1>1. UNCHANGED <<place, popped, plan, todo, pc>>
  BY DEF JobEnds, internal, sending, fetching, control
<1>2. Members' = Members /\ Members \subseteq Containers
  BY <1>1 DEF Members
<1>3. PICK f : /\ workers' = [d \in Containers |-> {f[d][t] : t \in workers[d]}]
               /\ \A d \in Containers : \A t \in workers[d] :
                    f[d][t] \in Tasks /\ SameForService(f[d][t], t)
  BY JobEndsUpdates DEF SInv, EInv, FInv, IInv
<1>4. ASSUME NEW x \in todo
      PROVE  x[1] \in Members /\ \E task \in workers'[x[1]] : task.id = x[2] /\ task.known = x[3]
  <2>1. x[1] \in Members
    BY DEF SInv, PhaseFits
  <2>2. PICK task \in workers[x[1]] : task.id = x[2] /\ task.known = x[3]
    BY DEF SInv, PhaseFits
  <2>3. f[x[1]][task] \in workers'[x[1]]
    BY <1>2, <1>3, <2>1, <2>2
  <2>4. SameForService(f[x[1]][task], task)
    BY <1>2, <1>3, <2>1, <2>2
  <2> QED
    BY <2>1, <2>2, <2>3, <2>4 DEF SameForService
<1>5. \A d \in Members' : \A t, u \in workers'[d] : t.id = u.id => t = u
  BY UpdatesPlace
<1> QED
  BY <1>1, <1>2, <1>4, <1>5 DEF SInv, PhaseFits

LEMMA ProbePhase ==
  ASSUME SInv, Probe
  PROVE  PhaseFits'
<1>1. /\ popped = <<>> /\ pc' = "fetch" /\ UNCHANGED <<place, popped, plan>>
      /\ todo' = {x \in Members \X Requests \X {"converted", "erroneous"} :
                    \E task \in workers'[x[1]] : task.id = x[2] /\ task.known = x[3]}
  BY DEF Probe, sending
<1>2. Members' = Members
  BY <1>1 DEF Members
<1>3. \A x \in todo' : x[1] \in Members /\ \E task \in workers'[x[1]] :
                                             task.id = x[2] /\ task.known = x[3]
  BY <1>1
<1>4. \A d \in Members' : \A t, u \in workers'[d] : t.id = u.id => t = u
  BY UpdatesPlace
<1> QED
  BY <1>1, <1>2, <1>3, <1>4 DEF SInv, PhaseFits

LEMMA PopRequestsPhase ==
  ASSUME SInv, PopRequests
  PROVE  PhaseFits'
<1> DEFINE n == Smaller(Len(queue), Cardinality(Free))
<1>1. /\ pc = "forward" /\ pc' = "send" /\ plan' \in LeastLoaded(n)
      /\ UNCHANGED <<place, workers, todo>>
  BY DEF PopRequests, handler, fetching
<1> HIDE DEF n
<1>2. Members' = Members
  BY <1>1 DEF Members
<1>3. \A i \in DOMAIN plan' : plan'[i] \in Members
  BY <1>1 DEF LeastLoaded
<1> QED
  BY <1>1, <1>2, <1>3 DEF SInv, PhaseFits

LEMMA KeepsPhaseFits ==
  ASSUME ProbesEnd, SInv, [Next]_vars
  PROVE  PhaseFits'
<1> USE DEF handler, sending, fetching, control
<1>0. pc # "send" => popped = <<>>
  BY DEF SInv, PhaseFits
<1>1. CASE WorldGoesOn
  <2>1. ASSUME NEW id \in Requests, ConvertFile(id) \/ GrowsOld(id) \/ FileOpens(id)
        PROVE  PhaseFits'
    BY <2>1, PhaseUntouched DEF ConvertFile, GrowsOld, FileOpens
  <2>2. ASSUME NEW c \in Containers, Boots(c) \/ Sickens(c)
        PROVE  PhaseFits'
    BY <2>2, PhaseUntouched DEF Boots, Sickens, DockerChanges, internal
  <2> QED
    BY <1>1, <2>1, <2>2, UpdatesPhase DEF WorldGoesOn
<1>2. CASE Tick \/ CheckHealth \/ UpdateStatus \/ CheckFileTtl
  <2>1. popped = <<>> /\ todo = {}
    BY <1>2 DEF Tick, CheckHealth, UpdateStatus, CheckFileTtl, SInv, PhaseFits
  <2> QED
    BY <1>2, <2>1, PhaseUntouched DEF Tick, CheckHealth, UpdateStatus, CheckFileTtl
<1>3. CASE StoreFinished
  BY <1>0, <1>3, PhaseUntouched DEF StoreFinished
<1>4. ASSUME NEW task \in Tasks, Redispatch(task)
      PROVE  PhaseFits'
  BY <1>4, PhaseUntouched DEF Redispatch
<1>5. ASSUME NEW S \in SUBSET Fresh, StartContainers(S)
      PROVE  PhaseFits'
  <2>1. Enroll(S) /\ pc = "apply" /\ UNCHANGED <<popped, plan, todo>>
    BY <1>5 DEF StartContainers, Applied
  <2>2. Members' = Members \cup S
    BY <2>1, EnrollPlaces DEF SInv, EInv, FInv
  <2>3. \A c \in Containers : workers'[c] = IF c \in S THEN {} ELSE workers[c]
    BY <2>1 DEF Enroll
  <2>4. \A c \in Members' : workers'[c] = {} \/ (c \in Members /\ workers'[c] = workers[c])
    BY <2>2, <2>3 DEF Members, Fresh
  <2> QED
    BY <2>1, <2>4, PhaseIsIdle
<1>6. CASE RemoveUnhealthy \/ RemoveIdle
  <2>1. PICK S \in SUBSET Members : Dismiss(S)
    BY <1>6, HeadIsMember, FirstIdleAreMembers DEF RemoveUnhealthy, RemoveIdle, SInv, EInv
  <2>2. pc \notin {"send", "fetch"} /\ UNCHANGED <<popped, plan, todo>>
    BY <1>6 DEF RemoveUnhealthy, RemoveIdle, Applied
  <2>3. Members' = Members \ S
    BY <2>1, DismissPlaces DEF SInv, EInv, FInv
  <2>4. \A c \in Members' : c \in Members /\ workers'[c] = workers[c]
    BY <2>1, <2>3 DEF Dismiss, Members
  <2> QED
    BY <2>2, <2>4, PhaseIsIdle
<1>7. CASE UNCHANGED vars
  BY <1>7, PhaseUntouched DEF vars
<1> HIDE DEF handler, sending, fetching, control
<1>8. CASE ProbeGoesOn
  BY <1>8, <1>2, <1>3, <1>4, <1>5, <1>6, PopRequestsPhase, AtWorkerPhase, ProbePhase
  DEF ProbeGoesOn
<1> QED
  BY <1>1, <1>7, <1>8, NothingThrows DEF SInv

--------------------------------------------------------------------------------
LEMMA KeepsClientFits ==
  ASSUME ProbesEnd, SInv, [Next]_vars
  PROVE  ClientFits'
<1> USE DEF api, results
<1>1. ASSUME NEW id \in Requests, ConvertFile(id)
      PROVE  ClientFits'
  <2>1. client' = [client EXCEPT ![id] = "accepted"] /\ old' = old
    BY <1>1 DEF ConvertFile
  <2>2. client \in [Requests -> {"new", "accepted", "failed"}] /\ old \subseteq Requests
    BY DEF SInv, EInv, FInv, RequestTypes
  <2> QED
    BY <2>1, <2>2 DEF SInv, ClientFits
<1>2. ASSUME NEW id \in Requests, GrowsOld(id)
      PROVE  ClientFits'
  <2>1. finished[id] # "none" /\ old' = old \cup {id} /\ client' = client
    BY <1>2 DEF GrowsOld
  <2>2. client[id] # "new"
    BY <2>1 DEF SInv, EInv, FInv, ResultsFit
  <2> QED
    BY <2>1, <2>2 DEF SInv, ClientFits
<1>3. CASE \/ \E c \in Containers : \/ Boots(c) \/ Sickens(c)
                                   \/ \E task \in Tasks : JobEnds(c, task)
           \/ \E id \in Requests : FileOpens(id)
  BY <1>3 DEF Boots, Sickens, FileOpens, JobEnds, DockerChanges, internal, api, results, SInv,
     ClientFits
<1>4. CASE Tick \/ CheckHealth \/ UpdateStatus \/ CheckFileTtl \/ Probe \/ PopRequests
             \/ RemoveUnhealthy \/ RemoveIdle
  BY <1>4 DEF Tick, CheckHealth, UpdateStatus, CheckFileTtl, Probe, PopRequests, RemoveUnhealthy,
     RemoveIdle, Applied, SInv, ClientFits
<1>5. CASE StoreFinished
  BY <1>5 DEF StoreFinished, SInv, ClientFits
<1>6. ASSUME NEW task \in Tasks, Redispatch(task)
      PROVE  ClientFits'
  BY <1>6 DEF Redispatch, SInv, ClientFits
<1>7. ASSUME NEW S \in SUBSET Fresh, StartContainers(S)
      PROVE  ClientFits'
  BY <1>7 DEF StartContainers, Applied, SInv, ClientFits
<1>8. ASSUME NEW c \in Containers, NEW id \in Requests, AtWorker(c, id)
      PROVE  ClientFits'
  BY <1>8 DEF AtWorker, Forward, ForwardRefused, ForwardFails, Send, FetchFile, FetchFileFails,
     CollectErroneous, SInv, ClientFits
<1>9. CASE UNCHANGED vars
  BY <1>9 DEF vars, SInv, ClientFits
<1> HIDE DEF api, results
<1>10. CASE ProbeGoesOn
  BY <1>10, <1>4, <1>5, <1>6, <1>7, <1>8 DEF ProbeGoesOn
<1>11. CASE WorldGoesOn
  BY <1>11, <1>1, <1>2, <1>3 DEF WorldGoesOn
<1> QED
  BY <1>9, <1>10, <1>11, NothingThrows DEF SInv

LEMMA InitSInv == Init => SInv
<1> SUFFICES ASSUME Init
             PROVE  SInv
  OBVIOUS
<1>1. FInv /\ Members = {} /\ EngineFits
  <2>1. Members = {}
    BY DEF Init, Members
  <2> QED
    BY <2>1, InitFInv DEF Init, EngineFits
<1>2. PhaseFits
  BY <1>1 DEF Init, PhaseFits
<1>3. ClientFits
  BY DEF Init, ClientFits
<1>4. ASSUME NEW id \in Requests
      PROVE  /\ Copies(id) = IF Answered(id) /\ ~Expired(id) THEN 1 ELSE 0
             /\ Active(id) = 0
  <2>1. Times(id, queue) = 0 /\ Times(id, popped) = 0
    BY TimesOfNothing DEF Init
  <2>2. Holders(id) = {} /\ Collected(id) = {}
    BY <1>1 DEF Init, Holders, Collected
  <2>3. Cardinality(Holders(id)) = 0 /\ Cardinality(Collected(id)) = 0
    BY <2>2, FS_EmptySet
  <2>4. Done(id) = 0 /\ ~Answered(id)
    BY DEF Init, Done, Answered
  <2> QED
    BY <2>1, <2>3, <2>4 DEF Copies, Active
<1>5. ExactlyOnePlace /\ AtMostOnePlace /\ InputKept
  BY <1>4 DEF ExactlyOnePlace, AtMostOnePlace, InputKept, Active
<1> QED
  BY <1>1, <1>2, <1>3, <1>5 DEF SInv, EInv

LEMMA SInvariance == ProbesEnd => (Spec => []SInv)
<1> SUFFICES ASSUME ProbesEnd
             PROVE  Spec => []SInv
  OBVIOUS
<1>1. SInv /\ [Next]_vars => SInv'
  <2> SUFFICES ASSUME SInv, [Next]_vars
               PROVE  SInv'
    OBVIOUS
  <2>1. EInv'
    BY NextKeepsFInv, KeepsEngineFits DEF SInv, EInv, ProbesEnd
  <2> QED
    BY <2>1, KeepsPlaced, KeepsPhaseFits, KeepsClientFits DEF SInv, Placed, Orderly
<1> QED
  BY InitSInv, <1>1, PTL DEF Spec

\* No request is there twice, as long as docker and redis obey and nobody else
\* removes containers: the queue, the probe's hands, the workers, the collected
\* and the published results never have two of it, whatever workers do; and
\* nobody has one that was not accepted or has expired.
THEOREM NeverTwice == ProbesEnd => (Spec => []AtMostOnePlace)
<1>1. SInv => AtMostOnePlace
  BY DEF SInv
<1> QED
  BY <1>1, SInvariance, PTL

\* Nor is one lost, as long as every worker answers when it is sent one and every
\* request names its format: an accepted request is at exactly one of these
\* places, until the TTL has taken its result.  Unhealthy workers, refused
\* requests and failing status requests and downloads change nothing about it.
THEOREM EachRequestIsOnce == Orderly => (Spec => []ExactlyOnePlace)
<1> SUFFICES ASSUME Orderly
             PROVE  Spec => []ExactlyOnePlace
  OBVIOUS
<1>1. SInv => ExactlyOnePlace
  BY DEF SInv
<1>2. Spec => []SInv
  BY SInvariance, OrderlyProbesEnd
<1> QED
  BY <1>1, <1>2, PTL

\* As long as docker and redis obey, whoever still has to convert a request finds
\* its input file: removeRequestFile deletes it only when the request has left its
\* worker, and then it is nowhere else.
THEOREM InputsAreKept == ProbesEnd => (Spec => []InputKept)
<1>1. SInv => InputKept
  BY DEF SInv
<1> QED
  BY <1>1, SInvariance, PTL

--------------------------------------------------------------------------------
(***************************************************************************)
(* What the clients are told.                                              *)
(***************************************************************************)
\* requestsInQueue names only requests that are in the queue, whatever fails.
WaitingFits == \A id \in waiting : \E i \in DOMAIN queue : queue[i] = id

LEMMA AddingKeepsWaitingFits ==
  ASSUME FInv, WaitingFits, NEW id \in Requests, AddRequestToQueue(id)
  PROVE  WaitingFits'
<1>1. /\ \A i \in DOMAIN queue : i \in DOMAIN queue' /\ queue'[i] = queue[i]
      /\ \E i \in DOMAIN queue' : queue'[i] = id
  BY AddedIsLast DEF FInv, IInv, PlanType
<1>2. waiting' = waiting \cup {id}
  BY DEF AddRequestToQueue
<1> QED
  BY <1>1, <1>2 DEF WaitingFits

LEMMA PoppingKeepsWaitingFits ==
  ASSUME FInv, WaitingFits, PopRequests
  PROVE  WaitingFits'
<1>1. PICK n : /\ n = Smaller(Len(queue), Cardinality(Free))
               /\ queue' = SubSeq(queue, n + 1, Len(queue))
               /\ waiting' = waiting \ {queue[i] : i \in 1 .. n}
  BY DEF PopRequests, StillWaiting
<1>2. /\ queue \in Seq(Requests) /\ Len(queue) \in Nat /\ DOMAIN queue = 1 .. Len(queue)
      /\ n \in 0 .. Len(queue)
  <2>1. queue \in Seq(Requests) /\ Len(queue) \in Nat /\ Cardinality(Free) \in Nat
    BY FreeIsFinite DEF FInv, IInv, PlanType
  <2> QED
    BY <1>1, <2>1 DEF Smaller
<1>3. /\ DOMAIN queue' = 1 .. Len(queue) - n
      /\ \A i \in 1 .. Len(queue) - n : queue'[i] = queue[i + n]
  BY <1>1, <1>2
<1>4. ASSUME NEW id \in waiting'
      PROVE  \E i \in DOMAIN queue' : queue'[i] = id
  <2>1. PICK i \in DOMAIN queue : queue[i] = id
    BY <1>1, <1>4 DEF WaitingFits
  <2>2. i \notin 1 .. n
    BY <1>1, <1>4, <2>1
  <2>3. i - n \in 1 .. Len(queue) - n /\ (i - n) + n = i
    BY <1>2, <2>1, <2>2
  <2> QED
    BY <1>3, <2>1, <2>3
<1> QED
  BY <1>4 DEF WaitingFits

LEMMA KeepsWaitingFits ==
  ASSUME FInv, WaitingFits, [Next]_vars
  PROVE  WaitingFits'
<1> USE DEF api
<1>1. ASSUME NEW id \in Requests, ConvertFile(id) \/ ConvertFileFails(id)
      PROVE  AddRequestToQueue(id) \/ UNCHANGED <<queue, waiting>>
  BY <1>1 DEF ConvertFile, ConvertFileFails
<1>2. ASSUME NEW id \in Requests, GrowsOld(id) \/ FileOpens(id)
      PROVE  UNCHANGED <<queue, waiting>>
  BY <1>2 DEF GrowsOld, FileOpens
<1>3. ASSUME NEW c \in Containers,
             Boots(c) \/ Sickens(c) \/ Vanishes(c) \/ Appears(c)
               \/ \E task \in Tasks : JobEnds(c, task)
      PROVE  UNCHANGED <<queue, waiting>>
  BY <1>3 DEF Boots, Sickens, Vanishes, Appears, JobEnds, DockerChanges, internal
<1>4. ASSUME NEW task \in Tasks, Redispatch(task) \/ RedispatchFails(task)
      PROVE  \E id \in Requests : AddRequestToQueue(id) \/ UNCHANGED <<queue, waiting>>
  BY <1>4 DEF Redispatch, RedispatchFails, Tasks
<1>5. ASSUME \/ Tick \/ CheckHealth \/ CheckHealthFails \/ RemoveUnhealthy
             \/ RemoveUnhealthyFails \/ UpdateStatus \/ UpdateStatusFails \/ PopRequestsFails
             \/ Probe \/ StoreFinished \/ RemoveIdle \/ RemoveIdleFails \/ CheckFileTtl
      PROVE  UNCHANGED <<queue, waiting>>
  BY <1>5 DEF Tick, CheckHealth, CheckHealthFails, RemoveUnhealthy, RemoveUnhealthyFails,
     UpdateStatus, UpdateStatusFails, PopRequestsFails, Probe, StoreFinished, RemoveIdle,
     RemoveIdleFails, CheckFileTtl, Applied
<1>6. ASSUME NEW S \in SUBSET Fresh, StartContainers(S) \/ StartContainersFails(S)
      PROVE  UNCHANGED <<queue, waiting>>
  BY <1>6 DEF StartContainers, StartContainersFails, Applied
<1>7. ASSUME NEW c \in Containers, NEW id \in Requests, AtWorker(c, id)
      PROVE  UNCHANGED <<queue, waiting>>
  BY <1>7 DEF AtWorker, Forward, ForwardRefused, ForwardFails, Send, FetchFile, FetchFileFails,
     CollectErroneous
<1>8. CASE UNCHANGED vars
  BY <1>8 DEF vars, WaitingFits
<1>9. UNCHANGED <<queue, waiting>> => WaitingFits'
  BY DEF WaitingFits
<1> HIDE DEF api
<1>10. CASE ProbeStep
  BY <1>10, <1>4, <1>5, <1>6, <1>7, <1>9, AddingKeepsWaitingFits, PoppingKeepsWaitingFits
  DEF ProbeStep
<1>11. CASE Outside
  BY <1>11, <1>1, <1>2, <1>3, <1>9, AddingKeepsWaitingFits DEF Outside
<1> QED
  BY <1>8, <1>10, <1>11 DEF Next

\* A finished request is neither waiting nor at a worker.
LEMMA FinishedIsNowhereElse ==
  ASSUME SInv, WaitingFits, NEW id \in Requests, finished[id] # "none"
  PROVE  id \notin waiting /\ \A a \in Assigned : a[2].id # id
<1>1. Active(id) = 0
  <2>1. Done(id) = 1
    BY DEF Done
  <2>2. Active(id) \in Nat /\ Cardinality(Collected(id)) \in Nat
    BY CountsAreNat DEF SInv, EInv
  <2> QED
    BY <2>1, <2>2, CountedOnce
<1>2. Times(id, queue) = 0 /\ Cardinality(Holders(id)) = 0 /\ IsFiniteSet(Holders(id))
  <2>1. /\ Times(id, queue) \in Nat /\ Times(id, popped) \in Nat
        /\ Cardinality(Holders(id)) \in Nat /\ IsFiniteSet(Holders(id))
    BY CountsAreNat DEF SInv, EInv
  <2>2. Times(id, queue) + Times(id, popped) + Cardinality(Holders(id)) = 0
    BY <1>1 DEF Active
  <2> QED
    BY <2>1, <2>2
<1>3. Holders(id) = {}
  BY <1>2, FS_EmptySet
<1>4. \A i \in DOMAIN queue : queue[i] # id
  <2>1. queue \in Seq(Requests)
    BY DEF SInv, EInv, FInv, IInv, PlanType
  <2>2. Times(id, queue) > 0 <=> \E i \in DOMAIN queue : queue[i] = id
    BY <2>1, TimesIsNat
  <2> QED
    BY <1>2, <2>2
<1>5. ASSUME NEW c \in Members, NEW task \in workers[c], task.id = id
      PROVE  FALSE
  <2>1. ~HeldBy(c, id)
    BY <1>3 DEF Holders
  <2>2. id \in redone
    BY <1>5, <2>1 DEF HeldBy
  <2> QED
    BY <1>4, <2>2 DEF SInv, EInv, FInv, CheckFits
<1>6. \A a \in Assigned : a[1] \in Members /\ a[2] \in workers[a[1]]
  BY DEF Assigned
<1> QED
  BY <1>4, <1>5, <1>6 DEF WaitingFits

\* What the three methods of the controller leave for a finished request.
LEMMA FinishedIsReported ==
  ASSUME SInv, WaitingFits, NEW id \in Requests, finished[id] # "none"
  PROVE  /\ GetConvertedFile(id, TRUE) = Returns(0, Json(<<finished[id]>>))
         /\ finished[id] = "converted" /\ id \notin opening =>
              /\ GetConvertedFile(id, FALSE) = Returns(0, Json(<<"converted", id>>))
              /\ GetConvertedFileDownload(id) = Returns(0, Stream(id))
<1>1. finished[id] \in {"converted", "erroneous"}
  BY DEF SInv, EInv, FInv, RequestTypes
<1>2. ReportedStatus(id) = finished[id]
  BY FinishedIsNowhereElse DEF ReportedStatus
<1>3. finished[id] = "converted" => id \in output \cup opening
  BY DEF SInv, EInv, FInv, ResultsFit
<1>4. GetConvertedFile(id, TRUE) = Returns(0, Json(<<finished[id]>>))
  BY <1>1, <1>2 DEF GetConvertedFile, AssertStatus
<1>5. ASSUME finished[id] = "converted", id \notin opening
      PROVE  /\ GetConvertedFile(id, FALSE) = Returns(0, Json(<<"converted", id>>))
             /\ GetConvertedFileDownload(id) = Returns(0, Stream(id))
  BY <1>2, <1>3, <1>5 DEF GetConvertedFile, GetConvertedFileDownload
<1> QED
  BY <1>4, <1>5

\* It is listed once, as a finished request.
LEMMA FinishedIsListedOnce ==
  ASSUME SInv, WaitingFits, NEW id \in Requests, finished[id] # "none"
  PROVE  {c.of : c \in {c \in Conversions : c.id = id}} = {"finishedRequest"}
<1>1. \A c \in Conversions : c.id = id => c.of = "finishedRequest"
  BY FinishedIsNowhereElse DEF Conversions
<1>2. \E c \in Conversions : c.id = id /\ c.of = "finishedRequest"
  <2> DEFINE entry == [id |-> id, of |-> "finishedRequest", status |-> finished[id]]
  <2>1. entry \in Conversions
    BY DEF Conversions
  <2>2. entry.id = id /\ entry.of = "finishedRequest"
    OBVIOUS
  <2> QED
    BY <2>1, <2>2
<1> QED
  BY <1>1, <1>2

\* How the answers of the routes come from what the methods leave.
LEMMA AnswersOfRoutes ==
  ASSUME NEW id, NEW outcome, ~outcome.thrown
  PROVE  /\ GetConvertedFile(id, TRUE) = outcome => StatusAnswer(id) = Respond(outcome)
         /\ GetConvertedFile(id, FALSE) = outcome => FileAnswer(id) = Respond(outcome)
         /\ GetConvertedFileDownload(id) = outcome => DownloadAnswer(id) = Respond(outcome)
         /\ GetConversionQueueStatus = outcome => QueueAnswer = Respond(outcome)
<1>1. \A v2 : Get(<<"conversion", id>>, v2).path[2] = id /\ Get(<<"conversion", id>>, v2).v2 = v2
  BY DEF Get
<1>2. Outcome(Get(<<"conversion", id>>, "true")) = GetConvertedFile(id, TRUE)
  BY <1>1, HandlersOfGets DEF Outcome
<1>3. Outcome(Get(<<"conversion", id>>, "absent")) = GetConvertedFile(id, FALSE)
  BY <1>1, HandlersOfGets DEF Outcome
<1>4. Outcome(Get(<<"conversion", id, "download">>, "absent")) = GetConvertedFileDownload(id)
  <2>1. Get(<<"conversion", id, "download">>, "absent").path[2] = id
    BY DEF Get
  <2> QED
    BY <2>1, HandlersOfGets DEF Outcome
<1>5. Outcome(Get(<<"conversion">>, "absent")) = GetConversionQueueStatus
  BY HandlersOfGets DEF Outcome
<1>6. /\ Serve(Get(<<"conversion", id>>, "true"), outcome) = Respond(outcome)
      /\ Serve(Get(<<"conversion", id>>, "absent"), outcome) = Respond(outcome)
  BY ConversionRoute, GetIsAnswered
<1>7. Serve(Get(<<"conversion", id, "download">>, "absent"), outcome) = Respond(outcome)
  BY DownloadRoute, GetIsAnswered
<1>8. Serve(Get(<<"conversion">>, "absent"), outcome) = Respond(outcome)
  BY QueueRoute, GetIsAnswered
<1> QED
  BY <1>2, <1>3, <1>4, <1>5, <1>6, <1>7, <1>8
  DEF StatusAnswer, FileAnswer, DownloadAnswer, QueueAnswer, AnswerTo

LEMMA ServedWhenFinished ==
  ASSUME SInv, WaitingFits
  PROVE  FinishedIsServed
<1> SUFFICES ASSUME NEW id \in Requests, finished[id] # "none"
             PROVE  /\ StatusAnswer(id) = [status |-> 200, data |-> Json(<<finished[id]>>)]
                    /\ finished[id] = "converted" /\ id \notin opening =>
                         /\ FileAnswer(id) = [status |-> 200, data |-> Json(<<"converted", id>>)]
                         /\ DownloadAnswer(id) = [status |-> 200, data |-> Stream(id)]
                    /\ {c.of : c \in {c \in QueueAnswer.data.content.conversions : c.id = id}}
                         = {"finishedRequest"}
  BY DEF FinishedIsServed
<1>1. StatusAnswer(id) = [status |-> 200, data |-> Json(<<finished[id]>>)]
  <2>1. StatusAnswer(id) = Respond(Returns(0, Json(<<finished[id]>>)))
    BY FinishedIsReported, AnswersOfRoutes, JsonAnswered
  <2> QED
    BY <2>1, JsonAnswered
<1>2. ASSUME finished[id] = "converted", id \notin opening
      PROVE  /\ FileAnswer(id) = [status |-> 200, data |-> Json(<<"converted", id>>)]
             /\ DownloadAnswer(id) = [status |-> 200, data |-> Stream(id)]
  <2>1. /\ GetConvertedFile(id, FALSE) = Returns(0, Json(<<"converted", id>>))
        /\ GetConvertedFileDownload(id) = Returns(0, Stream(id))
    BY <1>2, FinishedIsReported
  <2>2. FileAnswer(id) = [status |-> 200, data |-> Json(<<"converted", id>>)]
    <3>1. FileAnswer(id) = Respond(Returns(0, Json(<<"converted", id>>)))
      BY <2>1, AnswersOfRoutes, JsonAnswered
    <3> QED
      BY <3>1, JsonAnswered
  <2>3. DownloadAnswer(id) = [status |-> 200, data |-> Stream(id)]
    BY <2>1, AnswersOfRoutes, StreamAnswered
  <2> QED
    BY <2>2, <2>3
<1>3. QueueAnswer.data.content.conversions = Conversions
  <2> DEFINE content == [conversions          |-> Conversions,
                         remainingConversions |-> Cardinality(Conversions) + Len(queue)]
  <2>1. content.conversions = Conversions
    OBVIOUS
  <2>2. GetConversionQueueStatus = Returns(0, Json(content))
    BY DEF GetConversionQueueStatus
  <2> HIDE DEF content
  <2>3. QueueAnswer = [status |-> 200, data |-> Json(content)]
    BY <2>2, AnswersOfRoutes, JsonAnswered
  <2> QED
    BY <2>1, <2>3 DEF Json
<1>4. {c.of : c \in {c \in Conversions : c.id = id}} = {"finishedRequest"}
  BY FinishedIsListedOnce
<1> QED
  BY <1>1, <1>2, <1>3, <1>4

\* As long as docker and redis obey, a finished request is told as what it is
\* until its entry goes: neither requestsInQueue nor a copy at a worker hides the
\* result, GET /conversion lists it once, and both file routes hand out what is
\* under its name from the moment its file is open.  Nothing is said of how much of
\* the file is there.
THEOREM FinishedAreServed == ProbesEnd => (Spec => []FinishedIsServed)
<1>1. Init => WaitingFits
  BY DEF Init, WaitingFits
<1>2. FInv /\ WaitingFits /\ [Next]_vars => WaitingFits'
  BY KeepsWaitingFits
<1>3. SUFFICES ASSUME ProbesEnd
               PROVE  Spec => []FinishedIsServed
  OBVIOUS
<1>4. SInv /\ WaitingFits => FinishedIsServed
  BY ServedWhenFinished
<1>5. Spec => []SInv
  BY <1>3, SInvariance
<1> QED
  BY <1>1, <1>2, <1>4, <1>5, FInvariance, PTL DEF Spec
--------------------------------------------------------------------------------
(***************************************************************************)
(* RedisService implements RequestDispatch.  What the service knows of a   *)
(* result is what the worker has made; and the five kinds of places of a   *)
(* request tell its stage, since it is at one of them at most.             *)
(***************************************************************************)
KnownFits ==
  \A c \in Containers : \A task \in workers[c] :
    task.known \in {"converted", "erroneous"} => task.job = task.known

Queued(id) == \E i \in DOMAIN queue : queue[i] = id
Taken(id) == \E i \in DOMAIN popped : popped[i] = id

StageFits(id) ==
  /\ Stage(id) \in {"new", "queued", "taken", "working", "collected", "finished",
                    "expired", "lost"}
  /\ Stage(id) = "queued" <=> Queued(id)
  /\ Stage(id) = "taken" <=> Taken(id)
  /\ Stage(id) = "working" <=> Holders(id) # {}
  /\ Stage(id) = "collected" <=> Collected(id) # {}
  /\ Stage(id) = "finished" <=> finished[id] # "none"
  /\ Stage(id) = "new" <=> ~Answered(id)
  /\ Stage(id) = "expired" <=> Answered(id) /\ Expired(id)

\* There is one of everything.
OneOfEach(id) ==
  /\ \A i, j \in DOMAIN queue : queue[i] = id /\ queue[j] = id => i = j
  /\ \A c, d \in Holders(id) : c = d
  /\ \A r, s \in Results(id) : r = s

DInv == SInv /\ KnownFits /\ \A id \in Requests : StageFits(id) /\ OneOfEach(id)

\* Of one that occurs once there is one index.
LEMMA OccursOnce ==
  ASSUME NEW s \in Seq(Requests), NEW id, Times(id, s) <= 1,
         NEW i \in DOMAIN s, NEW j \in DOMAIN s, s[i] = id, s[j] = id
  PROVE  i = j
<1> DEFINE I == {k \in DOMAIN s : s[k] = id}
<1>1. IsFiniteSet(I) /\ Cardinality(I) \in Nat
  BY TimesIsNat, FS_CardinalityType
<1>2. Cardinality(I) <= 1 /\ i \in I /\ j \in I
  BY DEF Times
<1> HIDE DEF I
<1>3. Cardinality(I) = 0 \/ Cardinality(I) = 1
  BY <1>1, <1>2
<1>4. I # {}
  BY <1>2
<1>5. Cardinality(I) = 1
  BY <1>1, <1>3, <1>4, FS_EmptySet
<1>6. \E k : I = {k}
  BY <1>1, <1>5, FS_Singleton
<1> QED
  BY <1>2, <1>6

\* A set of one at most has one element at most.
LEMMA OneAtMost ==
  ASSUME NEW S, IsFiniteSet(S), Cardinality(S) \in {0, 1}
  PROVE  \A x, y \in S : x = y
<1>1. CASE Cardinality(S) = 0
  BY <1>1, FS_EmptySet
<1>2. CASE Cardinality(S) = 1
  <2>1. \E k : S = {k}
    BY <1>2, FS_Singleton
  <2> QED
    BY <2>1
<1> QED
  BY <1>1, <1>2

\* The counts of a request as one of eight cases.
LEMMA StageIsFit ==
  ASSUME SInv, NEW id \in Requests
  PROVE  StageFits(id)
<1> DEFINE q == Times(id, queue)
           p == Times(id, popped)
           h == Cardinality(Holders(id))
           b == Cardinality(Collected(id))
           d == Done(id)
<1>1. /\ q \in Nat /\ p \in Nat /\ h \in Nat /\ b \in Nat /\ d \in {0, 1}
      /\ q + p + h + b + d \in {0, 1}
      /\ q + p + h + b + d = 1 => Answered(id) /\ ~Expired(id)
  BY CountsAreNat, CountedOnce DEF Active, SInv, EInv
<1>2. /\ q > 0 <=> Queued(id)
      /\ p > 0 <=> Taken(id)
  BY TimesIsNat DEF Queued, Taken, SInv, EInv, FInv, IInv, PlanType
<1>3. h # 0 <=> Holders(id) # {}
  BY CountsAreNat, FS_EmptySet DEF SInv, EInv
<1>4. b # 0 <=> Collected(id) # {}
  BY CountsAreNat, FS_EmptySet DEF SInv, EInv
<1>5. d # 0 <=> finished[id] # "none"
  BY DEF Done
<1>6. id \in old => Answered(id)
  <2>1. client[id] \in {"new", "accepted", "failed"}
    BY DEF SInv, EInv, FInv, RequestTypes
  <2> QED
    BY <2>1 DEF SInv, ClientFits, Answered
<1>7. Stage(id) = CASE q > 0 -> "queued"
                    [] p > 0 -> "taken"
                    [] Holders(id) # {} -> "working"
                    [] Collected(id) # {} -> "collected"
                    [] finished[id] # "none" -> "finished"
                    [] OTHER -> IF ~Answered(id) THEN "new"
                                ELSE IF id \in old THEN "expired" ELSE "lost"
  BY DEF Stage
<1> HIDE DEF q, p, h, b, d
<1>8. \/ q > 0 /\ ~(p > 0) /\ h = 0 /\ b = 0 /\ d = 0 /\ Answered(id) /\ ~Expired(id)
      \/ ~(q > 0) /\ p > 0 /\ h = 0 /\ b = 0 /\ d = 0 /\ Answered(id) /\ ~Expired(id)
      \/ ~(q > 0) /\ ~(p > 0) /\ h # 0 /\ b = 0 /\ d = 0 /\ Answered(id) /\ ~Expired(id)
      \/ ~(q > 0) /\ ~(p > 0) /\ h = 0 /\ b # 0 /\ d = 0 /\ Answered(id) /\ ~Expired(id)
      \/ ~(q > 0) /\ ~(p > 0) /\ h = 0 /\ b = 0 /\ d # 0 /\ Answered(id) /\ ~Expired(id)
      \/ ~(q > 0) /\ ~(p > 0) /\ h = 0 /\ b = 0 /\ d = 0
  <2>1. CASE q + p + h + b + d = 0
    <3>1. q = 0 /\ p = 0 /\ h = 0 /\ b = 0 /\ d = 0
      BY <1>1, <2>1
    <3> QED
      BY <3>1
  <2>2. CASE q + p + h + b + d = 1
    <3>1. Answered(id) /\ ~Expired(id)
      BY <1>1, <2>2
    <3>2. \/ q > 0 /\ ~(p > 0) /\ h = 0 /\ b = 0 /\ d = 0
          \/ ~(q > 0) /\ p > 0 /\ h = 0 /\ b = 0 /\ d = 0
          \/ ~(q > 0) /\ ~(p > 0) /\ h # 0 /\ b = 0 /\ d = 0
          \/ ~(q > 0) /\ ~(p > 0) /\ h = 0 /\ b # 0 /\ d = 0
          \/ ~(q > 0) /\ ~(p > 0) /\ h = 0 /\ b = 0 /\ d # 0
      BY <1>1, <2>2
    <3> QED
      BY <3>1, <3>2
  <2> QED
    BY <1>1, <2>1, <2>2
<1> QED
  BY <1>2, <1>3, <1>4, <1>5, <1>6, <1>7, <1>8 DEF StageFits, Expired

LEMMA OnceIsFit ==
  ASSUME SInv, NEW id \in Requests
  PROVE  OneOfEach(id)
<1>1. /\ Times(id, queue) <= 1
      /\ Cardinality(Holders(id)) \in {0, 1} /\ Cardinality(Collected(id)) \in {0, 1}
  <2> DEFINE q == Times(id, queue)
             p == Times(id, popped)
             h == Cardinality(Holders(id))
             b == Cardinality(Collected(id))
             d == Done(id)
  <2>1. q \in Nat /\ p \in Nat /\ h \in Nat /\ b \in Nat /\ d \in {0, 1}
    BY CountsAreNat DEF SInv, EInv
  <2>2. q + p + h + b + d \in {0, 1}
    BY CountedOnce DEF Active
  <2>3. q <= 1 /\ h \in {0, 1} /\ b \in {0, 1}
    <3> HIDE DEF q, p, h, b, d
    <3> QED
      BY <2>1, <2>2
  <2> QED
    BY <2>3
<1>2. /\ queue \in Seq(Requests) /\ IsFiniteSet(Holders(id)) /\ IsFiniteSet(Collected(id))
  BY CountsAreNat DEF SInv, EInv, FInv, IInv, PlanType
<1>3. \A i, j \in DOMAIN queue : queue[i] = id /\ queue[j] = id => i = j
  BY <1>1, <1>2, OccursOnce
<1>4. \A c, d \in Holders(id) : c = d
  BY <1>1, <1>2, OneAtMost
<1>5. \A x, y \in Collected(id) : x = y
  BY <1>1, <1>2, OneAtMost
<1>6. StageFits(id)
  BY StageIsFit
<1>7. ASSUME NEW r \in Results(id), NEW s \in Results(id)
      PROVE  r = s
  <2>1. CASE Holders(id) # {}
    <3>1. Collected(id) = {} /\ finished[id] = "none"
      BY <1>6, <2>1 DEF StageFits
    <3>2. <<id, r>> \notin batch /\ <<id, s>> \notin batch
      BY <3>1 DEF Collected
    <3>3. r # "none" /\ s # "none"
      BY DEF Results
    <3>4. PICK c \in Holders(id) : \E task \in workers[c] : task.id = id /\ task.job = r
      BY <3>1, <3>2, <3>3 DEF Results
    <3>5. PICK e \in Holders(id) : \E task \in workers[e] : task.id = id /\ task.job = s
      BY <3>1, <3>2, <3>3 DEF Results
    <3>6. c = e /\ c \in Members
      BY <1>4 DEF Holders
    <3> QED
      BY <3>4, <3>5, <3>6 DEF SInv, PhaseFits
  <2>2. CASE Holders(id) = {} /\ Collected(id) # {}
    <3>1. finished[id] = "none" /\ r # "none" /\ s # "none"
      BY <1>6, <2>2 DEF StageFits, Results
    <3>2. <<id, r>> \in Collected(id) /\ <<id, s>> \in Collected(id)
      BY <2>2, <3>1 DEF Results, Collected
    <3> QED
      BY <1>5, <3>2
  <2>3. CASE Holders(id) = {} /\ Collected(id) = {}
    <3>1. <<id, r>> \notin batch /\ <<id, s>> \notin batch
      BY <2>3 DEF Collected
    <3> QED
      BY <2>3, <3>1 DEF Results
  <2> QED
    BY <2>1, <2>2, <2>3
<1> QED
  BY <1>3, <1>4, <1>7 DEF OneOfEach

--------------------------------------------------------------------------------
\* The service takes for known only what the worker has said.
LEMMA KeepsKnownFits ==
  ASSUME ProbesEnd, SInv, KnownFits, [Next]_vars
  PROVE  KnownFits'
<1> USE DEF handler
<1>1. WorkersType
  BY DEF SInv, EInv, FInv, IInv
<1>2. ASSUME \A c \in Containers : \A task \in workers'[c] :
               \/ task \in workers[c]
               \/ task.known \in {"converted", "erroneous"} => task.job = task.known
      PROVE  KnownFits'
  BY <1>2 DEF KnownFits
<1>3. ASSUME UNCHANGED workers
      PROVE  KnownFits'
  BY <1>3 DEF KnownFits
<1>4. ASSUME NEW c \in Containers, NEW task \in Tasks, JobEnds(c, task)
      PROVE  KnownFits'
  <2>1. PICK job \in {"converted", "erroneous"} :
          workers' = [workers EXCEPT ![c] = (@ \ {task}) \cup {[task EXCEPT !.job = job]}]
    BY <1>4 DEF JobEnds
  <2> DEFINE ended == [task EXCEPT !.job = job]
  <2>2. task \in workers[c] /\ task.job = "open" /\ ended.known = task.known
    BY <1>4 DEF JobEnds, Tasks
  <2>3. ended.known \notin {"converted", "erroneous"}
    BY <2>2 DEF KnownFits
  <2>4. \A d \in Containers : \A t \in workers'[d] : t \in workers[d] \/ t = ended
    BY <1>1, <2>1 DEF WorkersType
  <2> QED
    BY <1>2, <2>3, <2>4
<1>5. CASE WorldGoesOn
  BY <1>3, <1>4, <1>5 DEF WorldGoesOn, ConvertFile, GrowsOld, FileOpens, Boots, Sickens,
     DockerChanges, internal, handler
<1>6. CASE Probe
  <2>1. PICK missed \in SUBSET Unanswered :
          workers' = [c \in Containers |->
                        {IF <<c, task>> \in missed THEN task ELSE Answer(task)
                           : task \in workers[c]}]
    BY <1>6 DEF Probe
  <2>2. ASSUME NEW c \in Containers, NEW t \in workers'[c]
        PROVE  t \in workers[c] \/ (t.known \in {"converted", "erroneous"} => t.job = t.known)
    <3>1. PICK task \in workers[c] : t = IF <<c, task>> \in missed THEN task ELSE Answer(task)
      BY <2>1
    <3>2. task \in Tasks
      BY <1>1 DEF WorkersType
    <3>3. Answer(task).job = task.job
          /\ Answer(task).known = IF task.job = "refused" THEN "text" ELSE task.job
      BY <3>2 DEF Answer, Tasks
    <3> QED
      BY <3>1, <3>3
  <2> QED
    BY <1>2, <2>2
<1>7. CASE Tick \/ CheckHealth \/ UpdateStatus \/ PopRequests \/ StoreFinished \/ CheckFileTtl
           \/ \E task \in Tasks : Redispatch(task)
  BY <1>3, <1>7 DEF Tick, CheckHealth, UpdateStatus, PopRequests, StoreFinished, CheckFileTtl,
     Redispatch
<1>8. CASE RemoveUnhealthy \/ RemoveIdle \/ \E S \in SUBSET Fresh : StartContainers(S)
  <2>1. \A c \in Containers : workers'[c] = {} \/ workers'[c] = workers[c]
    BY <1>8 DEF RemoveUnhealthy, RemoveIdle, StartContainers, Dismiss, Enroll
  <2> QED
    BY <1>2, <2>1
<1>9. ASSUME NEW c \in Containers, NEW id \in Requests, AtWorker(c, id)
      PROVE  KnownFits'
  <2>1. CASE ForwardFails(c, id) \/ FetchFileFails(c, id)
    BY <1>3, <2>1 DEF ForwardFails, FetchFileFails
  <2>2. ASSUME NEW job, Dispatch(c, id, job)
        PROVE  KnownFits'
    <3> DEFINE sent == [id |-> id, known |-> "open", job |-> job]
    <3>1. \A d \in Containers : \A t \in workers'[d] : t \in workers[d] \/ t = sent
      BY <1>1, <2>2 DEF Dispatch, WorkersType
    <3>2. sent.known = "open"
      OBVIOUS
    <3> QED
      BY <1>2, <3>1, <3>2
  <2>3. CASE Forward(c, id) \/ ForwardRefused(c, id)
    BY <2>2, <2>3 DEF Forward, ForwardRefused
  <2>4. CASE FetchFile(c, id) \/ CollectErroneous(c, id)
    <3>1. \A d \in Containers : workers'[d] \subseteq workers[d]
      BY <1>1, <2>4 DEF FetchFile, CollectErroneous, RemoveRequestFromWorker, WorkersType
    <3> QED
      BY <1>2, <3>1
  <2> QED
    BY <1>9, <2>1, <2>3, <2>4 DEF AtWorker
<1>10. CASE UNCHANGED vars
  BY <1>3, <1>10 DEF vars
<1> QED
  BY <1>5, <1>6, <1>7, <1>8, <1>9, <1>10, NothingThrows DEF ProbeGoesOn, SInv

LEMMA DInvariance == ProbesEnd => (Spec => []DInv)
<1> SUFFICES ASSUME ProbesEnd
             PROVE  Spec => []DInv
  OBVIOUS
<1>1. Init => KnownFits
  BY DEF Init, KnownFits
<1>2. SInv /\ KnownFits /\ [Next]_vars => KnownFits'
  BY KeepsKnownFits
<1>3. SInv /\ KnownFits => DInv
  BY StageIsFit, OnceIsFit DEF DInv
<1> QED
  BY <1>1, <1>2, <1>3, SInvariance, PTL DEF Spec
--------------------------------------------------------------------------------
(***************************************************************************)
(* What a step does to one request, and to the line.                       *)
(***************************************************************************)
\* A worker has one task at most with this id and this result.
Made(c, id, r) == \E task \in workers[c] : task.id = id /\ task.job = r

Outcomes == {"converted", "erroneous"}

LEMMA ResultsAre ==
  ASSUME NEW id
  PROVE  /\ Results(id) = {r \in Outcomes : \/ <<id, r>> \in batch
                                            \/ finished[id] = r
                                            \/ \E c \in Holders(id) : Made(c, id, r)}
         /\ Results(id)' = {r \in Outcomes : \/ <<id, r>> \in batch'
                                             \/ finished'[id] = r
                                             \/ \E c \in Holders(id)' : Made(c, id, r)'}
BY DEF Results, Made, Outcomes

\* A request nobody moves.
LEMMA Resting ==
  ASSUME DInv, DInv', NEW id \in Requests,
         Queued(id)' <=> Queued(id), Taken(id)' <=> Taken(id),
         UNCHANGED <<Holders(id), finished[id]>>, Collected(id)' = Collected(id),
         Answered(id)' <=> Answered(id), Expired(id)' <=> Expired(id)
  PROVE  UNCHANGED <<Stage(id), Holders(id)>>
BY DEF DInv, StageFits

LEMMA RestingIsLegal ==
  ASSUME DInv, DInv', NEW id \in Requests,
         Queued(id)' <=> Queued(id), Taken(id)' <=> Taken(id),
         UNCHANGED <<Holders(id), finished[id]>>, Collected(id)' = Collected(id),
         Answered(id)' <=> Answered(id), Expired(id)' <=> Expired(id),
         \A c \in Holders(id), r \in Outcomes : Made(c, id, r)' <=> Made(c, id, r)
  PROVE  Dispatched!Legal(id)
<1>1. UNCHANGED <<Stage(id), Holders(id)>>
  BY Resting
<1>2. \A r : <<id, r>> \in batch' <=> <<id, r>> \in batch
  BY DEF Collected
<1>3. Results(id)' = Results(id)
  <2>1. Holders(id)' = Holders(id) /\ finished'[id] = finished[id]
    OBVIOUS
  <2>2. \A r \in Outcomes : (\E c \in Holders(id)' : Made(c, id, r)')
                             <=> \E c \in Holders(id) : Made(c, id, r)
    BY <2>1
  <2>3. \A r \in Outcomes : r \in Results(id)' <=> r \in Results(id)
    BY <1>2, <2>1, <2>2, ResultsAre
  <2>4. Results(id) \subseteq Outcomes /\ Results(id)' \subseteq Outcomes
    BY ResultsAre
  <2> QED
    BY <2>3, <2>4
<1> QED
  BY <1>1, <1>3 DEF Dispatched!Legal

\* One that moves on without a result, or loses what there was of it.
LEMMA MovingIsLegal ==
  ASSUME DInv', NEW id \in Requests,
         <<Stage(id), Stage(id)'>> \in Dispatched!Moves \cup Dispatched!Losses(id),
         Stage(id)' \notin {"working", "collected", "finished"}
  PROVE  Dispatched!Legal(id)
<1>1. Holders(id)' = {} /\ Collected(id)' = {} /\ finished'[id] = "none"
  BY DEF DInv, StageFits
<1>2. Results(id)' = {}
  <2>1. \A r : <<id, r>> \notin batch'
    BY <1>1 DEF Collected
  <2> QED
    BY <1>1, <2>1, ResultsAre DEF Outcomes
<1> QED
  BY <1>2 DEF Dispatched!Legal

\* One that moves on with its result.
LEMMA ResultIsLegal ==
  ASSUME DInv, DInv', NEW id \in Requests,
         <<Stage(id), Stage(id)'>> \in Dispatched!Moves,
         Stage(id)' \in {"collected", "finished"},
         NEW r, r \in Results(id), r \in Results(id)'
  PROVE  Dispatched!Legal(id)
<1>1. Results(id) = {r} /\ Results(id)' = {r}
  BY DEF DInv, OneOfEach
<1> QED
  BY <1>1 DEF Dispatched!Legal

\* The line as it is, or with one request more at its end.
LEMMA LineStays ==
  ASSUME queue \in Seq(Requests), queue' = queue \/ \E id \in Requests : queue' = Append(queue, id)
  PROVE  Dispatched!InOrder
<1>1. /\ 0 \in 0 .. Len(queue)
      /\ Len(queue) - 0 <= Len(queue')
      /\ \A i \in 1 .. Len(queue) - 0 : queue'[i] = queue[0 + i]
  OBVIOUS
<1>2. \A i \in 1 .. 0 : [id \in Requests |-> Stage(id)]'[queue[i]] = "taken"
  OBVIOUS
<1> QED
  BY <1>1, <1>2 DEF Dispatched!InOrder

\* The places of all requests but one as they were.
Rest(id) ==
  /\ Queued(id)' <=> Queued(id)
  /\ Taken(id)' <=> Taken(id)
  /\ UNCHANGED <<Holders(id), finished[id]>>
  /\ Collected(id)' = Collected(id)
  /\ Answered(id)' <=> Answered(id)
  /\ Expired(id)' <=> Expired(id)
  /\ \A c \in Holders(id), r \in Outcomes : Made(c, id, r)' <=> Made(c, id, r)

LEMMA RestIsLegal ==
  ASSUME DInv, DInv', NEW id \in Requests, Rest(id)
  PROVE  Dispatched!Legal(id)
BY RestingIsLegal DEF Rest

\* What RequestDispatch promises of a step.
Promised == (\A id \in Requests : Dispatched!Legal(id)) /\ Dispatched!InOrder

\* A step that neither moves a request nor changes a worker who holds one.
LEMMA StepsAside ==
  ASSUME DInv, DInv', UNCHANGED <<client, queue, popped, batch, finished, old>>,
         \A id \in Requests : /\ Holders(id)' = Holders(id)
                              /\ \A c \in Holders(id) : workers'[c] = workers[c]
  PROVE  Promised
<1>1. ASSUME NEW id \in Requests
      PROVE  Dispatched!Legal(id)
  <2>1. Rest(id)
    BY DEF Rest, Queued, Taken, Collected, Answered, Expired, Made
  <2> QED
    BY <2>1, RestIsLegal
<1>2. queue \in Seq(Requests)
  BY DEF DInv, SInv, EInv, FInv, IInv, PlanType
<1>3. Dispatched!InOrder
  BY <1>2, LineStays
<1> QED
  BY <1>1, <1>3 DEF Promised
--------------------------------------------------------------------------------
(***************************************************************************)
(* The steps that move requests.                                           *)
(***************************************************************************)
LEMMA ConvertFileIsPromised ==
  ASSUME DInv, DInv', NEW id \in Requests, ConvertFile(id)
  PROVE  Promised
<1>1. /\ client[id] = "new" /\ client' = [client EXCEPT ![id] = "accepted"]
      /\ queue' = Append(queue, id)
      /\ UNCHANGED <<finished, old, batch, popped, place, workers, sick, redone>>
  BY DEF ConvertFile, AddRequestToQueue, handler, results, checking, sending, fetching
<1>2. queue \in Seq(Requests) /\ client \in [Requests -> {"new", "accepted", "failed"}]
  BY DEF DInv, SInv, EInv, FInv, IInv, PlanType, RequestTypes
<1>3. Dispatched!Legal(id)
  <2>1. Stage(id) = "new"
    BY <1>1 DEF DInv, StageFits, Answered
  <2>2. Queued(id)'
    BY <1>1, <1>2 DEF Queued
  <2>3. Stage(id)' = "queued"
    BY <2>2 DEF DInv, StageFits
  <2> QED
    BY <2>1, <2>3, MovingIsLegal DEF Dispatched!Moves
<1>4. ASSUME NEW x \in Requests, x # id
      PROVE  Dispatched!Legal(x)
  <2>1. Queued(x)' <=> Queued(x)
    BY <1>1, <1>2, <1>4 DEF Queued
  <2>2. Rest(x)
    BY <1>1, <1>2, <1>4, <2>1, HoldersUntouched DEF Rest, Taken, Collected, Answered, Expired, Made
  <2> QED
    BY <2>2, RestIsLegal
<1>5. Dispatched!InOrder
  BY <1>1, <1>2, LineStays
<1> QED
  BY <1>3, <1>4, <1>5 DEF Promised

LEMMA GrowsOldIsPromised ==
  ASSUME DInv, DInv', NEW id \in Requests, GrowsOld(id)
  PROVE  Promised
<1>1. /\ finished[id] # "none" /\ old' = old \cup {id}
      /\ UNCHANGED <<client, finished, batch, queue, popped, place, workers, sick, redone>>
  BY DEF GrowsOld, files, api, handler, fetching, checking, sending
<1>2. ASSUME NEW x \in Requests
      PROVE  Dispatched!Legal(x)
  <2>1. Rest(x)
    BY <1>1, HoldersUntouched DEF Rest, Queued, Taken, Collected, Answered, Expired, Made
  <2> QED
    BY <2>1, RestIsLegal
<1>3. queue \in Seq(Requests)
  BY DEF DInv, SInv, EInv, FInv, IInv, PlanType
<1> QED
  BY <1>1, <1>2, <1>3, LineStays DEF Promised

LEMMA RedispatchIsPromised ==
  ASSUME DInv, DInv', NEW task \in Tasks, Redispatch(task)
  PROVE  Promised
<1> DEFINE id == task.id
<1>1. /\ queue' = Append(queue, id)
      /\ UNCHANGED <<client, finished, old, batch, popped, workers>>
  BY DEF Redispatch, AddRequestToQueue, results, fetching, sending, handler
<1>2. queue \in Seq(Requests) /\ id \in Requests /\ SInv
  BY DEF DInv, SInv, EInv, FInv, IInv, PlanType, Tasks
<1>3. Dispatched!Legal(id)
  <2>1. Holders(id) # {}
    BY <1>2, RedispatchHolders
  <2>2. Queued(id)'
    BY <1>1, <1>2 DEF Queued
  <2>3. Stage(id) = "working" /\ Stage(id)' = "queued"
    BY <1>2, <2>1, <2>2 DEF DInv, StageFits
  <2> QED
    BY <1>2, <2>3, MovingIsLegal DEF Dispatched!Moves
<1>4. ASSUME NEW x \in Requests, x # id
      PROVE  Dispatched!Legal(x)
  <2>1. Queued(x)' <=> Queued(x)
    BY <1>1, <1>2, <1>4 DEF Queued
  <2>2. Holders(x)' = Holders(x)
    BY <1>2, <1>4, RedispatchHolders
  <2>3. Rest(x)
    BY <1>1, <2>1, <2>2 DEF Rest, Taken, Collected, Answered, Expired, Made
  <2> QED
    BY <2>3, RestIsLegal
<1>5. Dispatched!InOrder
  BY <1>1, <1>2, LineStays
<1> QED
  BY <1>3, <1>4, <1>5 DEF Promised

LEMMA PopRequestsIsPromised ==
  ASSUME DInv, DInv', PopRequests
  PROVE  Promised
<1> DEFINE n == Smaller(Len(queue), Cardinality(Free))
<1>1. /\ pc = "forward"
      /\ popped' = SubSeq(queue, 1, n) /\ queue' = SubSeq(queue, n + 1, Len(queue))
      /\ UNCHANGED <<client, finished, old, batch, place, workers, sick, redone>>
  BY DEF PopRequests, results, fetching, handler, checking
<1>2. queue \in Seq(Requests) /\ n \in 0 .. Len(queue)
  <2>1. queue \in Seq(Requests) /\ Len(queue) \in Nat /\ Cardinality(Free) \in Nat
    BY FreeIsFinite DEF DInv, SInv, EInv, FInv, IInv, PlanType
  <2> QED
    BY <2>1 DEF Smaller
<1> HIDE DEF n
<1>3. popped = <<>>
  BY <1>1 DEF DInv, SInv, PhaseFits
<1>4. /\ Len(popped') = n /\ \A i \in 1 .. n : popped'[i] = queue[i]
      /\ Len(queue') = Len(queue) - n
      /\ \A i \in 1 .. Len(queue) - n : queue'[i] = queue[n + i]
      /\ DOMAIN popped' = 1 .. n /\ DOMAIN queue' = 1 .. Len(queue) - n
  BY <1>1, <1>2
<1>5. ASSUME NEW i \in 1 .. n, NEW id \in Requests, queue[i] = id
      PROVE  Stage(id) = "queued" /\ Stage(id)' = "taken"
  <2>1. Queued(id)
    BY <1>2, <1>5 DEF Queued
  <2>2. Taken(id)'
    BY <1>4, <1>5 DEF Taken
  <2> QED
    BY <2>1, <2>2 DEF DInv, StageFits
<1>6. ASSUME NEW id \in Requests
      PROVE  Dispatched!Legal(id)
  <2>1. CASE \E i \in 1 .. n : queue[i] = id
    <3>1. Stage(id) = "queued" /\ Stage(id)' = "taken"
      BY <1>5, <2>1
    <3> QED
      BY <3>1, MovingIsLegal DEF Dispatched!Moves
  <2>2. CASE ~ \E i \in 1 .. n : queue[i] = id
    <3>1. ~Taken(id) /\ ~Taken(id)'
      BY <1>3, <1>4, <2>2 DEF Taken
    <3>2. Queued(id)' <=> Queued(id)
      <4>1. ASSUME NEW i \in DOMAIN queue, queue[i] = id
            PROVE  Queued(id)'
        <5>1. i - n \in 1 .. Len(queue) - n /\ n + (i - n) = i
          BY <1>2, <2>2, <4>1
        <5>2. queue'[i - n] = id /\ i - n \in DOMAIN queue'
          BY <1>4, <4>1, <5>1
        <5> QED
          BY <5>2 DEF Queued
      <4>2. ASSUME NEW i \in DOMAIN queue', queue'[i] = id
            PROVE  Queued(id)
        <5>1. n + i \in DOMAIN queue /\ queue[n + i] = id
          BY <1>2, <1>4, <4>2
        <5> QED
          BY <5>1 DEF Queued
      <4> QED
        BY <4>1, <4>2 DEF Queued
    <3>3. Rest(id)
      BY <1>1, <3>1, <3>2, HoldersUntouched DEF Rest, Collected, Answered, Expired, Made
    <3> QED
      BY <3>3, RestIsLegal
  <2> QED
    BY <2>1, <2>2
<1>7. Dispatched!InOrder
  <2>1. ASSUME NEW i \in 1 .. n
        PROVE  [id \in Requests |-> Stage(id)]'[queue[i]] = "taken"
    <3>1. PICK id \in Requests : queue[i] = id
      BY <1>2
    <3>2. Stage(id)' = "taken"
      BY <1>5, <3>1
    <3> QED
      BY <3>1, <3>2
  <2>2. Len(queue) - n <= Len(queue')
    BY <1>2, <1>4
  <2> QED
    BY <1>2, <1>4, <2>1, <2>2 DEF Dispatched!InOrder
<1> QED
  BY <1>6, <1>7 DEF Promised
--------------------------------------------------------------------------------
\* Of the popped requests the first one goes, and it was there once.
LEMMA SendTakesOne ==
  ASSUME DInv, NEW w \in Containers, NEW id \in Requests, Send(w, id)
  PROVE  /\ Taken(id) /\ ~Taken(id)'
         /\ \A x \in Requests : x # id => (Taken(x)' <=> Taken(x))
<1>1. /\ popped # <<>> /\ popped' = Tail(popped) /\ id = Head(popped)
  BY DEF Send
<1>2. popped \in Seq(Requests) /\ SInv
  BY DEF DInv, SInv, EInv, FInv, IInv, PlanType
<1>3. popped' \in Seq(Requests)
  BY <1>1, <1>2, HeadTailProperties
<1>4. ASSUME NEW x \in Requests
      PROVE  /\ Taken(x) <=> Times(x, popped) > 0
             /\ Taken(x)' <=> Times(x, popped') > 0
             /\ Times(x, popped) \in Nat /\ Times(x, popped') \in Nat
             /\ Times(x, popped') = Times(x, popped) - (IF x = id THEN 1 ELSE 0)
  BY <1>2, <1>3, TimesIsNat, SendIsFit DEF Taken
<1>5. Taken(id)
  BY <1>1, <1>2 DEF Taken
<1>6. Times(id, popped) <= 1
  <2> DEFINE q == Times(id, queue)
             p == Times(id, popped)
             h == Cardinality(Holders(id))
             b == Cardinality(Collected(id))
             d == Done(id)
  <2>1. q \in Nat /\ p \in Nat /\ h \in Nat /\ b \in Nat /\ d \in {0, 1}
    BY <1>2, CountsAreNat DEF SInv, EInv
  <2>2. q + p + h + b + d \in {0, 1}
    BY <1>2, CountedOnce DEF Active
  <2>3. p <= 1
    <3> HIDE DEF q, p, h, b, d
    <3> QED
      BY <2>1, <2>2
  <2> QED
    BY <2>3
<1>7. ~Taken(id)'
  BY <1>4, <1>6
<1>8. ASSUME NEW x \in Requests, x # id
      PROVE  Taken(x)' <=> Taken(x)
  BY <1>4, <1>8
<1> QED
  BY <1>5, <1>7, <1>8

LEMMA DispatchIsPromised ==
  ASSUME DInv, DInv', NEW w \in Containers, NEW id \in Requests, Send(w, id),
         NEW job \in {"open", "refused"}, Dispatch(w, id, job)
  PROVE  Promised
<1>1. UNCHANGED <<client, finished, old, batch, queue>> /\ SInv
  BY DEF Send, results, fetching, api, DInv
<1> DEFINE sent == [id |-> id, known |-> "open", job |-> job]
<1>2. /\ workers'[w] = workers[w] \cup {sent} /\ sent.id = id /\ sent.job = job
      /\ \A c \in Containers : c # w => workers'[c] = workers[c]
  BY DEF Dispatch, DInv, SInv, EInv, FInv, IInv, WorkersType
<1> HIDE DEF sent
<1>3. Dispatched!Legal(id)
  <2>1. Holders(id)' = {w}
    BY <1>1, DispatchHolders
  <2>2. Stage(id) = "taken" /\ Stage(id)' = "working"
    BY <2>1, SendTakesOne DEF DInv, StageFits
  <2>3. Collected(id)' = {} /\ finished'[id] = "none"
    BY <2>2 DEF DInv, StageFits
  <2>4. \A task \in workers'[w] : task.id = id => task.job \in {"open", "refused"}
    <3>1. \A task \in workers[w] : task.id # id
      BY <1>1, SendIsFit
    <3> QED
      BY <1>2, <3>1
  <2>5. \A r \in Outcomes : <<id, r>> \notin batch' /\ finished'[id] # r
    BY <2>3 DEF Collected, Outcomes
  <2>6. ASSUME NEW c \in Holders(id)', NEW r \in Outcomes
        PROVE  ~Made(c, id, r)'
    BY <2>1, <2>4 DEF Made, Outcomes
  <2>7. Results(id)' = {}
    BY <2>5, <2>6, ResultsAre
  <2> QED
    BY <2>2, <2>7 DEF Dispatched!Legal, Dispatched!Moves
<1>4. ASSUME NEW x \in Requests, x # id
      PROVE  Dispatched!Legal(x)
  <2>1. Holders(x)' = Holders(x) /\ (Taken(x)' <=> Taken(x))
    BY <1>1, <1>4, DispatchHolders, SendTakesOne
  <2>2. \A c \in Holders(x) : \A r \in Outcomes : Made(c, x, r)' <=> Made(c, x, r)
    <3>1. Holders(x) \subseteq Containers
      BY DEF Holders, Members
    <3> QED
      BY <1>2, <1>4, <3>1 DEF Made
  <2>3. Rest(x)
    BY <1>1, <2>1, <2>2 DEF Rest, Queued, Collected, Answered, Expired
  <2> QED
    BY <2>3, RestIsLegal
<1>5. Dispatched!InOrder
  BY <1>1, LineStays DEF SInv, EInv, FInv, IInv, PlanType
<1> QED
  BY <1>3, <1>4, <1>5 DEF Promised

\* A request is lost only to a worker that misses it: its input file is there.
LEMMA ForwardFailsIsPromised ==
  ASSUME DInv, DInv', NEW w \in Containers, NEW id \in Requests, ForwardFails(w, id)
  PROVE  Promised
<1>1. /\ Send(w, id) /\ SInv
      /\ UNCHANGED <<client, finished, old, batch, queue, place, workers, sick, redone>>
  BY DEF ForwardFails, Send, results, fetching, api, checking, DInv
<1>2. Faults \cap {"boot", "dead"} # {}
  BY <1>1, SendIsFit DEF ForwardFails, MayFail
<1>3. Dispatched!Legal(id)
  <2>1. Stage(id) = "taken"
    BY <1>1, SendTakesOne DEF DInv, StageFits
  <2>2. ~Queued(id) /\ Holders(id) = {} /\ Collected(id) = {} /\ finished[id] = "none"
        /\ Answered(id) /\ ~(Answered(id) /\ Expired(id))
    BY <2>1 DEF DInv, StageFits
  <2>3. ~Queued(id)' /\ Holders(id)' = {} /\ Collected(id)' = {} /\ finished'[id] = "none"
        /\ Answered(id)' /\ ~(Answered(id)' /\ Expired(id)')
    BY <1>1, <2>2, HoldersUntouched DEF Queued, Collected, Answered, Expired
  <2>4. Stage(id)' = "lost"
    BY <1>1, <2>3, SendTakesOne DEF DInv, StageFits
  <2>5. <<"taken", "lost">> \in Dispatched!Losses(id)
    BY <1>2 DEF Dispatched!Losses
  <2> QED
    BY <2>1, <2>4, <2>5, MovingIsLegal
<1>4. ASSUME NEW x \in Requests, x # id
      PROVE  Dispatched!Legal(x)
  <2>1. Rest(x)
    BY <1>1, <1>4, SendTakesOne, HoldersUntouched
    DEF Rest, Queued, Collected, Answered, Expired, Made
  <2> QED
    BY <2>1, RestIsLegal
<1>5. Dispatched!InOrder
  BY <1>1, LineStays DEF SInv, EInv, FInv, IInv, PlanType
<1> QED
  BY <1>3, <1>4, <1>5 DEF Promised

--------------------------------------------------------------------------------
\* What fetchFiles collects is what the worker has made; it loses only what it
\* cannot tell the input of.
LEMMA CollectingIsPromised ==
  ASSUME DInv, DInv', NEW c \in Containers, NEW id \in Requests, NEW outcome \in Outcomes,
         pc = "fetch", <<c, id, outcome>> \in todo,
         RemoveRequestFromWorker(c, id), DeleteInput(id, outcome),
         UNCHANGED <<client, finished, old, queue, popped, place, sick, redone>>
  PROVE  Promised
<1>1. SInv /\ c \in Holders(id)
  BY CollectingHolders DEF DInv
<1>2. Holders(id)' = {}
  <2>1. Holders(id)' = Holders(id) \ {c}
    BY <1>1, CollectingHolders
  <2>2. \A d \in Holders(id) : d = c
    BY <1>1 DEF DInv, OneOfEach
  <2> QED
    BY <2>1, <2>2
<1>3. Stage(id) = "working"
  BY <1>1 DEF DInv, StageFits
<1>4. ~Queued(id) /\ ~Taken(id) /\ Collected(id) = {} /\ finished[id] = "none"
      /\ Answered(id) /\ ~(Answered(id) /\ Expired(id))
  BY <1>3 DEF DInv, StageFits
<1>5. ~Queued(id)' /\ ~Taken(id)' /\ finished'[id] = "none"
      /\ Answered(id)' /\ ~(Answered(id)' /\ Expired(id)')
  BY <1>4 DEF Queued, Taken, Answered, Expired
<1>6. \/ batch' = batch \cup {<<id, outcome>>}
      \/ UNCHANGED batch /\ id \in WithoutFormat
  <2>1. Active(id) > 0
    <3>1. Cardinality(Holders(id)) # 0
      BY <1>1, CountsAreNat, FS_EmptySet DEF SInv, EInv
    <3>2. /\ Times(id, queue) \in Nat /\ Times(id, popped) \in Nat
          /\ Cardinality(Holders(id)) \in Nat
      BY <1>1, CountsAreNat DEF SInv, EInv
    <3> QED
      BY <3>1, <3>2 DEF Active
  <2>2. id \in input
    BY <1>1, <2>1, ActiveIsWithInput
  <2> QED
    BY <2>2 DEF DeleteInput
<1>7. Dispatched!Legal(id)
  <2>1. CASE batch' = batch \cup {<<id, outcome>>}
    <3>1. <<id, outcome>> \in Collected(id)'
      BY <2>1 DEF Collected
    <3>2. Stage(id)' = "collected"
      BY <3>1 DEF DInv, StageFits
    <3>3. outcome \in Results(id)'
      BY <2>1, ResultsAre
    <3>4. Made(c, id, outcome)
      <4>1. \E task \in workers[c] : task.id = id /\ task.known = outcome
        BY <1>1 DEF SInv, PhaseFits
      <4> QED
        BY <4>1 DEF DInv, KnownFits, Made, Outcomes
    <3>5. outcome \in Results(id)
      BY <1>1, <3>4, ResultsAre
    <3> QED
      BY <1>3, <3>2, <3>3, <3>5, ResultIsLegal DEF Dispatched!Moves
  <2>2. CASE UNCHANGED batch /\ id \in WithoutFormat
    <3>1. Collected(id)' = {}
      BY <1>4, <2>2 DEF Collected
    <3>2. Stage(id)' = "lost"
      BY <1>2, <1>5, <3>1 DEF DInv, StageFits
    <3>3. <<"working", "lost">> \in Dispatched!Losses(id)
      BY <2>2 DEF Dispatched!Losses
    <3> QED
      BY <1>3, <3>2, <3>3, MovingIsLegal
  <2> QED
    BY <1>6, <2>1, <2>2
<1>8. ASSUME NEW x \in Requests, x # id
      PROVE  Dispatched!Legal(x)
  <2>1. Holders(x)' = Holders(x) /\ Holders(x) \subseteq Containers
    BY <1>1, <1>8, CollectingHolders DEF Holders, Members
  <2>2. Collected(x)' = Collected(x)
    BY <1>6, <1>8 DEF Collected
  <2>3. /\ workers'[c] = {task \in workers[c] : task.id # id}
        /\ \A d \in Containers : d # c => workers'[d] = workers[d]
    BY <1>1 DEF RemoveRequestFromWorker, SInv, EInv, FInv, IInv, WorkersType
  <2>4. \A d \in Holders(x) : \A r \in Outcomes : Made(d, x, r)' <=> Made(d, x, r)
    BY <1>8, <2>1, <2>3 DEF Made
  <2>5. Rest(x)
    BY <2>1, <2>2, <2>4 DEF Rest, Queued, Taken, Answered, Expired
  <2> QED
    BY <2>5, RestIsLegal
<1>9. Dispatched!InOrder
  BY <1>1, LineStays DEF SInv, EInv, FInv, IInv, PlanType
<1> QED
  BY <1>7, <1>8, <1>9 DEF Promised

LEMMA StoreFinishedIsPromised ==
  ASSUME DInv, DInv', StoreFinished
  PROVE  Promised
<1>1. /\ \A id \in Requests : IF \E b \in batch : b[1] = id
                                THEN <<id, finished'[id]>> \in batch
                                ELSE finished'[id] = finished[id]
      /\ old' = {id \in old : \A b \in batch : b[1] # id}
      /\ batch' = {} /\ finished' \in [Requests -> {"none", "converted", "erroneous"}]
      /\ UNCHANGED <<client, queue, popped, place, workers, sick, redone>>
  BY DEF StoreFinished, handler, api, checking, sending
<1>2. batch \subseteq Requests \X Outcomes
  BY DEF DInv, SInv, EInv, FInv, RequestTypes, Outcomes
<1>3. ASSUME NEW id \in Requests
      PROVE  Dispatched!Legal(id)
  <2>1. CASE \E b \in batch : b[1] = id
    <3>1. <<id, finished'[id]>> \in batch /\ finished'[id] \in Outcomes
      BY <1>1, <1>2, <2>1
    <3>2. finished'[id] # "none" /\ Collected(id) # {}
      BY <2>1, <3>1 DEF Collected, Outcomes
    <3>3. Stage(id) = "collected" /\ Stage(id)' = "finished"
      BY <3>2 DEF DInv, StageFits
    <3>4. finished'[id] \in Results(id) /\ finished'[id] \in Results(id)'
      BY <3>1, ResultsAre
    <3>5. PICK r : r = finished'[id]
      OBVIOUS
    <3>6. r \in Results(id) /\ r \in Results(id)'
      BY <3>4, <3>5
    <3> QED
      BY <3>3, <3>6, ResultIsLegal DEF Dispatched!Moves
  <2>2. CASE ~ \E b \in batch : b[1] = id
    <3>1. finished'[id] = finished[id] /\ (id \in old' <=> id \in old)
      BY <1>1, <2>2
    <3>2. Rest(id)
      BY <1>1, <2>2, <3>1, HoldersUntouched
      DEF Rest, Queued, Taken, Collected, Answered, Expired, Made
    <3> QED
      BY <3>2, RestIsLegal
  <2> QED
    BY <2>1, <2>2
<1>4. queue \in Seq(Requests)
  BY DEF DInv, SInv, EInv, FInv, IInv, PlanType
<1> QED
  BY <1>1, <1>3, <1>4, LineStays DEF Promised

LEMMA CheckFileTtlIsPromised ==
  ASSUME DInv, DInv', CheckFileTtl
  PROVE  Promised
<1>1. /\ finished' = [id \in Requests |-> IF id \in Outdated THEN "none" ELSE finished[id]]
      /\ UNCHANGED <<client, old, batch, queue, popped, place, workers, sick, redone>>
  BY DEF CheckFileTtl, handler, api, checking, sending, fetching
<1>2. ASSUME NEW id \in Requests
      PROVE  Dispatched!Legal(id)
  <2>1. CASE id \in Outdated
    <3>1. id \in old /\ finished[id] # "none" /\ finished'[id] = "none"
      BY <1>1, <2>1 DEF Outdated
    <3>2. Stage(id) = "finished"
      BY <3>1 DEF DInv, StageFits
    <3>3. Answered(id)' /\ Expired(id)'
      <4>1. Answered(id)
        BY <3>2 DEF DInv, StageFits
      <4> QED
        BY <1>1, <3>1, <4>1 DEF Answered, Expired
    <3>4. Stage(id)' = "expired"
      BY <3>3 DEF DInv, StageFits
    <3> QED
      BY <3>2, <3>4, MovingIsLegal DEF Dispatched!Moves
  <2>2. CASE id \notin Outdated
    <3>1. Rest(id)
      BY <1>1, <2>2, HoldersUntouched
      DEF Rest, Queued, Taken, Collected, Answered, Expired, Made
    <3> QED
      BY <3>1, RestIsLegal
  <2> QED
    BY <2>1, <2>2
<1>3. queue \in Seq(Requests)
  BY DEF DInv, SInv, EInv, FInv, IInv, PlanType
<1> QED
  BY <1>1, <1>2, <1>3, LineStays DEF Promised
--------------------------------------------------------------------------------
(***************************************************************************)
(* The steps that move nobody.                                             *)
(***************************************************************************)
\* A status request changes what is known of a task, but not what it is.
LEMMA ProbeIsPromised ==
  ASSUME DInv, DInv', Probe
  PROVE  Promised
<1>1. UNCHANGED <<client, finished, old, batch, queue, popped, place, sick, redone>>
  BY DEF Probe, api, results, checking, sending
<1>2. PICK missed \in SUBSET Unanswered :
        workers' = [c \in Containers |->
                      {IF <<c, task>> \in missed THEN task ELSE Answer(task)
                         : task \in workers[c]}]
  BY DEF Probe
<1>3. ASSUME NEW c \in Containers, NEW task \in workers[c]
      PROVE  Answer(task).id = task.id /\ Answer(task).job = task.job
  <2>1. task \in Tasks
    BY DEF DInv, SInv, EInv, FInv, IInv, WorkersType
  <2> QED
    BY <2>1 DEF Answer, Tasks
<1>4. ASSUME NEW c \in Containers, NEW id
      PROVE  /\ (\E t \in workers'[c] : t.id = id) <=> \E t \in workers[c] : t.id = id
             /\ \A r : (\E t \in workers'[c] : t.id = id /\ t.job = r)
                         <=> \E t \in workers[c] : t.id = id /\ t.job = r
  <2>1. workers'[c] = {IF <<c, task>> \in missed THEN task ELSE Answer(task)
                         : task \in workers[c]}
    BY <1>2
  <2> DEFINE seen(task) == IF <<c, task>> \in missed THEN task ELSE Answer(task)
  <2>2. \A task \in workers[c] : seen(task).id = task.id /\ seen(task).job = task.job
    BY <1>3
  <2>3. workers'[c] = {seen(task) : task \in workers[c]}
    BY <2>1
  <2> HIDE DEF seen
  <2> QED
    BY <2>2, <2>3
<1>5. Members' = Members /\ Members \subseteq Containers
  BY <1>1 DEF Members
<1>6. ASSUME NEW id \in Requests
      PROVE  Dispatched!Legal(id)
  <2>1. Holders(id)' = Holders(id)
    <3>1. ASSUME NEW c \in Containers
          PROVE  HeldBy(c, id)' <=> HeldBy(c, id)
      BY <1>1, <1>4 DEF HeldBy
    <3> QED
      BY <1>5, <3>1 DEF Holders
  <2>2. Holders(id) \subseteq Containers
    BY <1>5 DEF Holders
  <2>3. \A c \in Holders(id), r \in Outcomes : Made(c, id, r)' <=> Made(c, id, r)
    BY <1>4, <2>2 DEF Made
  <2>4. Rest(id)
    BY <1>1, <2>1, <2>3 DEF Rest, Queued, Taken, Collected, Answered, Expired
  <2> QED
    BY <2>4, RestIsLegal
<1>7. Dispatched!InOrder
  BY <1>1, LineStays DEF DInv, SInv, EInv, FInv, IInv, PlanType
<1> QED
  BY <1>6, <1>7 DEF Promised

\* A worker makes a result of what it has not made one of.
LEMMA JobEndsIsPromised ==
  ASSUME DInv, DInv', NEW c \in Containers, NEW task \in Tasks, JobEnds(c, task)
  PROVE  Promised
<1>1. /\ UNCHANGED <<client, finished, old, batch, queue, popped, place, sick, redone>>
      /\ task \in workers[c] /\ task.job = "open"
  BY DEF JobEnds, internal, api, results, checking, sending, fetching
<1>2. PICK job \in Outcomes :
        workers' = [workers EXCEPT ![c] = (@ \ {task}) \cup {[task EXCEPT !.job = job]}]
  BY DEF JobEnds, Outcomes
<1> DEFINE ended == [task EXCEPT !.job = job]
<1>3. ended.id = task.id /\ task.id \in Requests
  BY DEF Tasks
<1> HIDE DEF ended
<1>4. /\ workers'[c] = (workers[c] \ {task}) \cup {ended}
      /\ \A d \in Containers : d # c => workers'[d] = workers[d]
  BY <1>2 DEF ended, DInv, SInv, EInv, FInv, IInv, WorkersType
<1>5. Members' = Members /\ Members \subseteq Containers
  BY <1>1 DEF Members
<1>6. ASSUME NEW id \in Requests
      PROVE  Holders(id)' = Holders(id) /\ Holders(id) \subseteq Containers
  <2>1. ASSUME NEW d \in Containers
        PROVE  (\E t \in workers'[d] : t.id = id) <=> \E t \in workers[d] : t.id = id
    BY <1>1, <1>3, <1>4
  <2>2. ASSUME NEW d \in Containers
        PROVE  HeldBy(d, id)' <=> HeldBy(d, id)
    BY <1>1, <2>1 DEF HeldBy
  <2> QED
    BY <1>5, <2>2 DEF Holders
<1>7. ASSUME NEW id \in Requests
      PROVE  Dispatched!Legal(id)
  <2>1. CASE id = task.id /\ c \in Holders(id)
    <3>1. Stage(id) = "working" /\ Collected(id) = {} /\ finished[id] = "none"
      BY <2>1 DEF DInv, StageFits
    <3>2. UNCHANGED <<Stage(id), Holders(id)>>
      BY <1>1, <1>6, <2>1, <3>1 DEF DInv, StageFits
    <3>3. ASSUME NEW r \in Outcomes, NEW d \in Holders(id)
          PROVE  ~Made(d, id, r)
      <4>1. d = c /\ c \in Members
        BY <2>1 DEF DInv, OneOfEach, Holders
      <4>2. \A t \in workers[c] : t.id = id => t = task
        BY <1>1, <2>1, <4>1 DEF DInv, SInv, PhaseFits
      <4> QED
        BY <1>1, <4>1, <4>2 DEF Made, Outcomes
    <3>4. \A r \in Outcomes : <<id, r>> \notin batch /\ finished[id] # r
      BY <3>1 DEF Collected, Outcomes
    <3>5. Results(id) = {}
      BY <3>3, <3>4, ResultsAre
    <3> QED
      BY <3>1, <3>2, <3>5 DEF Dispatched!Legal
  <2>2. CASE ~(id = task.id /\ c \in Holders(id))
    <3>1. ASSUME NEW d \in Holders(id), NEW r \in Outcomes
          PROVE  Made(d, id, r)' <=> Made(d, id, r)
      <4>1. CASE d # c
        BY <1>4, <1>6, <4>1 DEF Made
      <4>2. CASE d = c
        <5>1. id # task.id
          BY <2>2, <4>2
        <5> QED
          BY <1>3, <1>4, <4>2, <5>1 DEF Made
      <4> QED
        BY <4>1, <4>2
    <3>2. Rest(id)
      BY <1>1, <1>6, <3>1 DEF Rest, Queued, Taken, Collected, Answered, Expired
    <3> QED
      BY <3>2, RestIsLegal
  <2> QED
    BY <2>1, <2>2
<1>8. Dispatched!InOrder
  BY <1>1, LineStays DEF DInv, SInv, EInv, FInv, IInv, PlanType
<1> QED
  BY <1>7, <1>8 DEF Promised

LEMMA AtWorkerIsPromised ==
  ASSUME DInv, DInv', NEW c \in Containers, NEW id \in Requests, AtWorker(c, id)
  PROVE  Promised
<1>1. CASE Forward(c, id) \/ ForwardRefused(c, id)
  BY <1>1, DispatchIsPromised DEF Forward, ForwardRefused
<1>2. CASE FetchFile(c, id)
  <2>1. /\ pc = "fetch" /\ <<c, id, "converted">> \in todo
        /\ RemoveRequestFromWorker(c, id) /\ DeleteInput(id, "converted")
        /\ UNCHANGED <<client, finished, old, queue, popped, place, sick, redone>>
    BY <1>2 DEF FetchFile, api, results, checking, sending
  <2>2. "converted" \in Outcomes
    BY DEF Outcomes
  <2> QED
    BY <2>1, <2>2, CollectingIsPromised
<1>3. CASE CollectErroneous(c, id)
  <2>1. /\ pc = "fetch" /\ <<c, id, "erroneous">> \in todo
        /\ RemoveRequestFromWorker(c, id) /\ DeleteInput(id, "erroneous")
        /\ UNCHANGED <<client, finished, old, queue, popped, place, sick, redone>>
    BY <1>3 DEF CollectErroneous, api, results, checking, sending
  <2>2. "erroneous" \in Outcomes
    BY DEF Outcomes
  <2> QED
    BY <2>1, <2>2, CollectingIsPromised
<1>4. CASE FetchFileFails(c, id)
  <2>1. UNCHANGED <<client, queue, popped, batch, finished, old, workers, place, sick, redone>>
    BY <1>4 DEF FetchFileFails, api, sending, results, handler, checking
  <2> QED
    BY <2>1, HoldersUntouched, StepsAside
<1> QED
  BY <1>1, <1>2, <1>3, <1>4, ForwardFailsIsPromised DEF AtWorker

LEMMA StepsAreDispatched ==
  ASSUME ProbesEnd, DInv, DInv', [Next]_vars
  PROVE  Promised
<1>1. ASSUME UNCHANGED <<client, queue, popped, batch, finished, old, workers, place, sick, redone>>
      PROVE  Promised
  BY <1>1, HoldersUntouched, StepsAside
<1>2. CASE Tick \/ UpdateStatus \/ UNCHANGED vars
  BY <1>1, <1>2 DEF Tick, UpdateStatus, vars, handler, api, results, checking, sending, fetching
<1>3. ASSUME NEW c \in Containers, Boots(c) \/ Sickens(c)
      PROVE  Promised
  BY <1>1, <1>3 DEF Boots, Sickens, DockerChanges, internal, api, results, checking, sending,
     fetching
<1>4. SInv
  BY DEF DInv
<1>5. ASSUME CheckHealth
      PROVE  Promised
  <2>1. UNCHANGED <<client, queue, popped, batch, finished, old, workers>>
    BY <1>5 DEF CheckHealth, handler, api, results, sending, fetching
  <2> QED
    BY <1>4, <1>5, <2>1, CheckHealthHolders, StepsAside
<1>6. ASSUME RemoveUnhealthy
      PROVE  Promised
  <2>1. UNCHANGED <<client, queue, popped, batch, finished, old>>
    BY <1>6 DEF RemoveUnhealthy, api, results, sending, fetching
  <2> QED
    BY <1>4, <1>6, <2>1, RemoveUnhealthyHolders, StepsAside
<1>7. ASSUME NEW S \in SUBSET Fresh, StartContainers(S)
      PROVE  Promised
  <2>1. UNCHANGED <<client, queue, popped, batch, finished, old>>
    BY <1>7 DEF StartContainers, Applied, api, results, sending, fetching
  <2> QED
    BY <1>4, <1>7, <2>1, StartContainersHolders, StepsAside
<1>8. ASSUME RemoveIdle
      PROVE  Promised
  <2>1. UNCHANGED <<client, queue, popped, batch, finished, old>>
    BY <1>8 DEF RemoveIdle, Applied, api, results, sending, fetching
  <2> QED
    BY <1>4, <1>8, <2>1, RemoveIdleHolders, StepsAside
<1>9. CASE WorldGoesOn
  <2>1. ASSUME NEW id \in Requests, FileOpens(id)
        PROVE  Promised
    BY <1>1, <2>1 DEF FileOpens, handler, api, results, checking, sending, fetching
  <2> QED
    BY <1>9, <1>3, <2>1, ConvertFileIsPromised, GrowsOldIsPromised, JobEndsIsPromised DEF WorldGoesOn
<1>10. CASE ProbeGoesOn
  BY <1>10, <1>2, <1>5, <1>6, <1>7, <1>8, RedispatchIsPromised, PopRequestsIsPromised,
     AtWorkerIsPromised, ProbeIsPromised, StoreFinishedIsPromised, CheckFileTtlIsPromised
  DEF ProbeGoesOn
<1> QED
  BY <1>2, <1>4, <1>9, <1>10, NothingThrows DEF SInv

--------------------------------------------------------------------------------
(***************************************************************************)
(* The state behind a step, and the first one.                             *)
(***************************************************************************)
LEMMA StoryIsOne ==
  ASSUME DInv
  PROVE  Dispatched!OneStory
<1>1. queue \in Seq(Requests) /\ batch \subseteq Requests \X Outcomes
      /\ finished \in [Requests -> {"none"} \cup Outcomes]
  BY DEF DInv, SInv, EInv, FInv, IInv, PlanType, RequestTypes, Outcomes
<1>2. ASSUME NEW id \in Requests
      PROVE  /\ Stage(id) = "queued" <=> \E i \in DOMAIN queue : queue[i] = id
             /\ Stage(id) = "working" <=> Holders(id) # {}
             /\ Results(id) # {} => Stage(id) \in {"working", "collected", "finished"}
             /\ Stage(id) \in {"collected", "finished"} => Results(id) # {}
             /\ \A c, d \in Holders(id) : c = d
             /\ \A r, s \in Results(id) : r = s
  <2>1. StageFits(id) /\ OneOfEach(id)
    BY DEF DInv
  <2>2. ASSUME NEW r \in Results(id)
        PROVE  Stage(id) \in {"working", "collected", "finished"}
    <3>1. Holders(id) # {} \/ Collected(id) # {} \/ finished[id] # "none"
      BY DEF Results, Collected
    <3> QED
      BY <2>1, <3>1 DEF StageFits
  <2>3. CASE Stage(id) = "collected"
    <3>1. PICK b \in batch : b[1] = id
      BY <2>1, <2>3 DEF StageFits, Collected
    <3>2. b[2] \in Outcomes /\ b = <<id, b[2]>>
      BY <1>1, <3>1
    <3>3. b[2] \in Results(id)
      BY <3>1, <3>2, ResultsAre
    <3> QED
      BY <2>1, <2>2, <2>3, <3>3 DEF StageFits, OneOfEach, Queued
  <2>4. CASE Stage(id) = "finished"
    <3>1. finished[id] \in Outcomes
      BY <1>1, <2>1, <2>4 DEF StageFits
    <3>2. finished[id] \in Results(id)
      BY <3>1, ResultsAre
    <3> QED
      BY <2>1, <2>2, <2>4, <3>2 DEF StageFits, OneOfEach, Queued
  <2>5. CASE Stage(id) \notin {"collected", "finished"}
    BY <2>1, <2>2, <2>5 DEF StageFits, OneOfEach, Queued
  <2> QED
    BY <2>3, <2>4, <2>5
<1>3. ASSUME NEW i \in DOMAIN queue, NEW j \in DOMAIN queue, queue[i] = queue[j]
      PROVE  i = j
  <2>1. PICK id \in Requests : queue[i] = id
    BY <1>1
  <2> QED
    BY <1>3, <2>1 DEF DInv, OneOfEach
<1> QED
  BY <1>2, <1>3 DEF Dispatched!OneStory

LEMMA WorkersHaveRoom ==
  ASSUME SInv
  PROVE  Dispatched!WithinCapacity
<1> SUFFICES ASSUME NEW c \in Containers
             PROVE  Cardinality({id \in Requests : c \in Holders(id)}) <= TasksPerContainer
  <2>1. \A S : Dispatched!Cardinality(S) = Cardinality(S)
    BY Zenon DEF Dispatched!Cardinality, Cardinality
  <2>2. \A c : {id \in Requests : c \in [x \in Requests |-> Holders(x)][id]}
                = {id \in Requests : c \in Holders(id)}
    OBVIOUS
  <2> QED
    BY <2>1, <2>2 DEF Dispatched!WithinCapacity
<1> DEFINE held == {id \in Requests : c \in Holders(id)}
           name == [task \in Tasks |-> task.id]
           names == {name[task] : task \in workers[c]}
<1>1. IsFiniteSet(workers[c]) /\ workers[c] \subseteq Tasks /\ Load(c) <= TasksPerContainer
  BY DEF SInv, EInv, FInv, IInv, WorkersType, Capacity
<1>2. IsFiniteSet(names) /\ Cardinality(names) <= Cardinality(workers[c])
  BY <1>1, ImageIsSmaller
<1>3. held \subseteq names
  <2>1. ASSUME NEW id \in held
        PROVE  id \in names
    <3>1. PICK task \in workers[c] : task.id = id
      BY DEF Holders, HeldBy
    <3> QED
      BY <1>1, <3>1
  <2> QED
    BY <2>1
<1> HIDE DEF held, names
<1>4. /\ Cardinality(held) \in Nat /\ Cardinality(names) \in Nat
      /\ Cardinality(held) <= Cardinality(names)
  BY <1>2, <1>3, FS_Subset, FS_CardinalityType
<1>5. Cardinality(workers[c]) \in Nat
  BY <1>1, FS_CardinalityType
<1>6. Cardinality(held) <= TasksPerContainer
  BY <1>1, <1>2, <1>4, <1>5, LimitsAssumption DEF Load
<1> QED
  BY <1>6 DEF held

LEMMA FirstIsDispatched == Init => Dispatched!Init
<1> SUFFICES ASSUME Init
             PROVE  Dispatched!Init
  OBVIOUS
<1>1. ASSUME NEW id \in Requests
      PROVE  Stage(id) = "new" /\ Holders(id) = {} /\ Results(id) = {}
  <2>1. Members = {}
    BY DEF Init, Members
  <2>2. Holders(id) = {} /\ Collected(id) = {} /\ ~Answered(id) /\ finished[id] = "none"
    BY <2>1 DEF Init, Holders, Collected, Answered
  <2>3. ~(Times(id, queue) > 0) /\ ~(Times(id, popped) > 0)
    <3>1. Times(id, queue) = 0 /\ Times(id, popped) = 0
      BY TimesOfNothing DEF Init
    <3> QED
      BY <3>1
  <2>4. Stage(id) = "new"
    BY <2>2, <2>3, Zenon DEF Stage
  <2>5. Results(id) = {}
    BY <2>2 DEF Results, Collected
  <2> QED
    BY <2>2, <2>4, <2>5
<1>2. queue = <<>>
  BY DEF Init
<1> QED
  BY <1>1, <1>2 DEF Dispatched!Init

\* The service keeps the promise of RequestDispatch, as long as docker and redis
\* obey and nobody else removes containers: requests leave the line in the order
\* in which they joined it, each is with one worker at most, within the capacity
\* of that worker, and what the service publishes is what that worker made of it;
\* a request is lost only to a worker that misses it or for want of its format.
THEOREM RequestsAreDispatched == ProbesEnd => (Spec => ImplementsDispatch)
<1> SUFFICES ASSUME ProbesEnd
             PROVE  Spec => ImplementsDispatch
  OBVIOUS
<1>1. Init => Dispatched!Init
  BY FirstIsDispatched
<1>2. DInv => Dispatched!OneStory /\ Dispatched!WithinCapacity
  BY StoryIsOne, WorkersHaveRoom DEF DInv
<1>3. /\ DInv /\ DInv' /\ [Next]_vars
      /\ (Dispatched!OneStory /\ Dispatched!WithinCapacity)'
      => [Dispatched!Next]_(Dispatched!vars)
  BY StepsAreDispatched DEF Promised, Dispatched!Next
<1> QED
  BY <1>1, <1>2, <1>3, DInvariance, PTL DEF Spec, ImplementsDispatch, Dispatched!Spec
================================================================================
