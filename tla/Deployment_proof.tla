---------------------------- MODULE Deployment_proof ----------------------------
(***************************************************************************)
(* Proof of the properties of Deployment, for every environment that may   *)
(* be set, all reports of the tools and all bodies that may be posted.     *)
(***************************************************************************)
EXTENDS Deployment, RestApi_proof, FiniteSetTheorems, FunctionTheorems, WellFoundedInduction

(***************************************************************************)
(* Facts about numbers.                                                    *)
(***************************************************************************)
\* Natural numbers have a least one: what induction is in these proofs.
LEMMA LeastOfNaturals ==
  ASSUME NEW S \in SUBSET Nat, S # {}
  PROVE  \E i \in S : \A j \in S : i <= j
<1>1. PICK i \in S : \A j \in S : ~(<<j, i>> \in OpToRel(<, Nat))
  BY NatLessThanWellFounded, WFMin
<1>2. \A j \in S : <<j, i>> \in OpToRel(<, Nat) <=> j < i
  BY DEF OpToRel
<1>3. \A j \in S : ~(j < i)
  BY <1>1, <1>2, Zenon
<1> QED
  BY <1>3

\* Counting from one, a multiple of n is first met at n.
LEMMA FirstMultiple ==
  ASSUME NEW n \in Nat \ {0}, NEW p \in 1 .. n
  PROVE  p % n = 0 <=> p = n
<1> DEFINE q == p \div n
           r == p % n
<1>1. q \in Nat /\ r \in 0 .. n - 1 /\ p = n * q + r
  OBVIOUS
<1> HIDE DEF q, r
<1>2. ASSUME q >= 2
      PROVE  FALSE
  <2>1. n * q >= n * 2
    BY <1>1, <1>2
  <2> QED
    BY <1>1, <2>1
<1>3. CASE q = 0
  BY <1>1, <1>3 DEF r
<1>4. CASE q = 1
  BY <1>1, <1>4 DEF r
<1> QED
  BY <1>1, <1>2, <1>3, <1>4

\* Math.ceil(s / h) is the least number of steps of h that cover s.
LEMMA CeilingCovers ==
  ASSUME NEW s \in Nat \ {0}, NEW h \in Nat \ {0}
  PROVE  LET n == (s + h - 1) \div h
         IN  n \in Nat \ {0} /\ n * h >= s /\ \A k \in 0 .. n - 1 : k * h < s
<1> DEFINE a == s + h - 1
           n == a \div h
           r == a % h
<1>1. a \in Nat /\ a >= h
  OBVIOUS
<1>2. n \in Nat /\ r \in 0 .. h - 1 /\ a = h * n + r
  BY <1>1
<1> HIDE DEF n, r
<1>3. h * n = n * h
  BY <1>2
<1>4. n # 0
  BY <1>1, <1>2
<1>5. n * h >= s
  BY <1>2, <1>3
<1>6. ASSUME NEW k \in 0 .. n - 1
      PROVE  k * h < s
  <2>1. k + 1 <= n
    BY <1>2
  <2>2. (k + 1) * h <= n * h
    BY <1>2, <2>1
  <2>3. (k + 1) * h = k * h + h
    OBVIOUS
  <2>4. k * h \in Nat /\ n * h \in Nat
    BY <1>2
  <2> QED
    BY <1>2, <1>3, <2>2, <2>3, <2>4
<1> QED
  BY <1>2, <1>4, <1>5, <1>6 DEF n

--------------------------------------------------------------------------------
(***************************************************************************)
(* What a worker can use: every listed wrapper with a path, once.          *)
(***************************************************************************)
\* The positions AvailableWrappers keeps, and the n-th of them.
Kept(e) == {i \in DOMAIN Listed(e) : /\ \A j \in 1 .. i - 1 : Listed(e)[j] # Listed(e)[i]
                                     /\ HasPath(e, Listed(e)[i])}

Below(K, i) == Cardinality({j \in K : j < i})

Nth(K, n) == CHOOSE i \in K : Below(K, i) = n - 1

LEMMA AvailableAreKept ==
  ASSUME NEW e
  PROVE  AvailableWrappers(e) = [n \in 1 .. Cardinality(Kept(e)) |-> Listed(e)[Nth(Kept(e), n)]]
BY DEF AvailableWrappers, Kept, Nth, Below

\* Every position is the n-th for one n, and the other way round.
LEMMA NthIsUnique ==
  ASSUME NEW K \in SUBSET Nat, IsFiniteSet(K)
  PROVE  /\ Cardinality(K) \in Nat
         /\ \A i \in K : Below(K, i) \in 0 .. Cardinality(K) - 1
         /\ \A i, j \in K : Below(K, i) = Below(K, j) => i = j
<1>1. Cardinality(K) \in Nat
  BY FS_CardinalityType
<1>2. ASSUME NEW i \in K
      PROVE  Below(K, i) \in 0 .. Cardinality(K) - 1
  <2> DEFINE B == {j \in K : j < i}
  <2>1. IsFiniteSet(B) /\ Cardinality(B) <= Cardinality(K) /\ Cardinality(B) \in Nat
        /\ (Cardinality(K) = Cardinality(B) => K = B)
    <3>1. B \in SUBSET K
      OBVIOUS
    <3> QED
      BY <3>1, FS_Subset, FS_CardinalityType
  <2>2. i \notin B
    OBVIOUS
  <2> HIDE DEF B
  <2>3. Cardinality(B) \in 0 .. Cardinality(K) - 1
    BY <1>1, <2>1, <2>2
  <2> QED
    BY <2>3 DEF Below, B
<1>3. ASSUME NEW i \in K, NEW j \in K, i < j
      PROVE  Below(K, i) # Below(K, j)
  <2> DEFINE B == {k \in K : k < i}
             C == {k \in K : k < j}
  <2>1. B \in SUBSET C /\ i \in C /\ i \notin B
    <3>1. i \in Nat /\ j \in Nat
      OBVIOUS
    <3>2. \A k \in K : k < i => k < j
      BY <1>3, <3>1
    <3>3. i \in C /\ i \notin B
      BY <1>3, <3>1
    <3>4. \A k \in B : k \in C
      BY <3>2
    <3> QED
      BY <3>3, <3>4
  <2>2. C \in SUBSET K
    OBVIOUS
  <2>3. IsFiniteSet(C)
    BY <2>2, FS_Subset
  <2> HIDE DEF B, C
  <2>4. Cardinality(B) # Cardinality(C)
    BY <2>1, <2>3, FS_Subset
  <2> QED
    BY <2>4 DEF Below, B, C
<1>4. ASSUME NEW i \in K, NEW j \in K, Below(K, i) = Below(K, j)
      PROVE  i = j
  BY <1>3, <1>4
<1> QED
  BY <1>1, <1>2, <1>4

LEMMA NthIsThere ==
  ASSUME NEW K \in SUBSET Nat, IsFiniteSet(K), NEW n \in 1 .. Cardinality(K)
  PROVE  Nth(K, n) \in K
<1> DEFINE c == Cardinality(K)
           T == 0 .. c - 1
           f == [i \in K |-> Below(K, i)]
<1>1. c \in Nat
  BY FS_CardinalityType
<1>2. IsFiniteSet(T) /\ Cardinality(T) = c
  <2> HIDE DEF c
  <2>1. IsFiniteSet(0 .. c - 1) /\ Cardinality(0 .. c - 1) = IF 0 > c - 1 THEN 0 ELSE c - 1 - 0 + 1
    BY <1>1, FS_Interval
  <2> QED
    BY <1>1, <2>1
<1>3. f \in Injection(K, T)
  BY NthIsUnique DEF Injection, IsInjective
<1>4. f \in Surjection(K, T)
  BY <1>2, <1>3, FS_Injection
<1>5. n - 1 \in T
  BY <1>1
<1>6. PICK i \in K : f[i] = n - 1
  BY <1>4, <1>5 DEF Surjection
<1>7. Below(K, i) = n - 1
  BY <1>6
<1> QED
  BY <1>7 DEF Nth

LEMMA NthOfPosition ==
  ASSUME NEW K \in SUBSET Nat, IsFiniteSet(K), NEW i \in K
  PROVE  \E n \in 1 .. Cardinality(K) : Nth(K, n) = i
<1> DEFINE n == Below(K, i) + 1
<1>1. Cardinality(K) \in Nat /\ Below(K, i) \in 0 .. Cardinality(K) - 1
  BY NthIsUnique
<1>2. n \in 1 .. Cardinality(K) /\ n - 1 = Below(K, i)
  BY <1>1
<1>3. \A j \in K : Below(K, j) = n - 1 => j = i
  BY <1>2, NthIsUnique
<1>4. Nth(K, n) = i
  BY <1>2, <1>3 DEF Nth
<1> QED
  BY <1>2, <1>4

LEMMA AvailableAreListed ==
  ASSUME NEW e, Listed(e) \in Seq(Wrappers)
  PROVE  /\ \A i \in DOMAIN AvailableWrappers(e) : AvailableWrappers(e)[i] \in Wrappers
         /\ AvailableWrappers(e) # <<>> => 1 \in DOMAIN AvailableWrappers(e)
         /\ ConverterMap(e) \subseteq Wrappers
         /\ \A i \in DOMAIN Listed(e) : HasPath(e, Listed(e)[i]) => Listed(e)[i] \in ConverterMap(e)
<1> DEFINE L == Listed(e)
           K == Kept(e)
           c == Cardinality(K)
           A == AvailableWrappers(e)
<1>1. DOMAIN L = 1 .. Len(L) /\ Len(L) \in Nat /\ \A i \in DOMAIN L : L[i] \in Wrappers
  OBVIOUS
<1>2. K \in SUBSET (1 .. Len(L)) /\ K \in SUBSET Nat
  BY <1>1 DEF Kept
<1>3. IsFiniteSet(K) /\ c \in Nat
  <2>1. 1 \in Int /\ Len(L) \in Int
    BY <1>1
  <2>2. IsFiniteSet(1 .. Len(L))
    BY <2>1, FS_Interval
  <2> QED
    BY <1>2, <2>2, FS_Subset, FS_CardinalityType
<1>4. A = [n \in 1 .. c |-> L[Nth(K, n)]]
  BY AvailableAreKept
<1>5. \A n \in 1 .. c : Nth(K, n) \in K
  BY <1>2, <1>3, NthIsThere
<1>6. \A i \in K : \E n \in 1 .. c : Nth(K, n) = i
  BY <1>2, <1>3, NthOfPosition
<1>7. ASSUME NEW i \in DOMAIN L, HasPath(e, L[i])
      PROVE  \E n \in 1 .. c : A[n] = L[i]
  <2> DEFINE S == {j \in DOMAIN L : L[j] = L[i]}
  <2>1. S \in SUBSET Nat /\ i \in S
    BY <1>1
  <2>2. PICK k \in S : \A j \in S : k <= j
    BY <2>1, LeastOfNaturals
  <2>3. k \in DOMAIN L /\ L[k] = L[i] /\ \A j \in 1 .. k - 1 : L[j] # L[k]
    BY <1>1, <2>2
  <2>4. k \in K
    BY <1>7, <2>3 DEF Kept
  <2> QED
    BY <1>4, <1>6, <2>3, <2>4
<1> HIDE DEF L, K, c, A
<1>8. DOMAIN A = 1 .. c /\ \A n \in 1 .. c : A[n] \in Wrappers
  BY <1>1, <1>2, <1>4, <1>5
<1>9. A # <<>> => 1 \in DOMAIN A
  <2>1. CASE c = 0
    <3>1. 1 .. c = {}
      BY <2>1
    <3>2. A = <<>>
      BY <1>4, <3>1
    <3> QED
      BY <3>2
  <2>2. CASE c # 0
    BY <1>3, <1>8, <2>2
  <2> QED
    BY <2>1, <2>2
<1> QED
  BY <1>7, <1>8, <1>9 DEF ConverterMap, A, L
--------------------------------------------------------------------------------
(***************************************************************************)
(* What the redis-service hands on.                                        *)
(***************************************************************************)
Texts(e) == \A name \in DOMAIN e.vars : e.vars[name] \in Seq(STRING)

Lists == {"CONVERTER_DOCUMENT_PRIORITY", "CONVERTER_MEDIA_PRIORITY"}

\* Every variable a worker reads is set, as it is in the service but for the
\* port; and every rule is the service's.
LEMMA HandedOn ==
  ASSUME NEW e, Accepted(e)
  PROVE  /\ \A name \in WorkerVariables \ {"WEBSERVICE_PORT"} :
              Value(EnvVars(e), name) = Value(e, name) /\ ~Falsy(Value(e, name))
         /\ Value(EnvVars(e), "WEBSERVICE_PORT") = <<"3000">>
         /\ \A to : Rule(EnvVars(e), Mono(to)) = Rule(e, Mono(to))
         /\ \A from, to : Rule(EnvVars(e), Multi(from, to)) = Rule(e, Multi(from, to))
<1>1. /\ EnvVars(e).vars = [name \in WorkerVariables |->
                              IF name = "WEBSERVICE_PORT" THEN <<"3000">> ELSE Value(e, name)]
      /\ EnvVars(e).rules = [key \in ForwardedRules(e) |-> e.rules[key]]
  BY DEF EnvVars
<1>2. \A name \in WorkerVariables \ {"WEBSERVICE_PORT"} :
        Value(EnvVars(e), name) = Value(e, name) /\ ~Falsy(Value(e, name))
  BY <1>1 DEF Accepted, AutoScalerAccepted, WorkerVariablesSet, Value
<1>3. "WEBSERVICE_PORT" \in WorkerVariables
  BY DEF WorkerVariables
<1>4. Value(EnvVars(e), "WEBSERVICE_PORT") = <<"3000">>
  BY <1>1, <1>3 DEF Value
<1>5. ASSUME NEW key, key.shape \in {"mono", "multi"}
      PROVE  Rule(EnvVars(e), key) = Rule(e, key)
  BY <1>1, <1>5 DEF Rule, ForwardedRules
<1>6. \A to : Rule(EnvVars(e), Mono(to)) = Rule(e, Mono(to))
  <2>1. \A to : Mono(to).shape = "mono"
    BY DEF Mono
  <2> QED
    BY <1>5, <2>1
<1>7. \A from, to : Rule(EnvVars(e), Multi(from, to)) = Rule(e, Multi(from, to))
  <2>1. \A from, to : Multi(from, to).shape = "multi"
    BY DEF Multi
  <2> QED
    BY <1>5, <2>1
<1> QED
  BY <1>2, <1>4, <1>6, <1>7

\* A list that is set names a wrapper at least.
LEMMA ListsAreTexts ==
  ASSUME NEW e, Texts(e), NEW name, ~Falsy(Value(e, name))
  PROVE  /\ Value(e, name) \in Seq(STRING)
         /\ DOMAIN Value(e, name) = 1 .. Len(Value(e, name))
         /\ 1 \in DOMAIN Value(e, name)
<1>1. Value(e, name) \in Seq(STRING) /\ Value(e, name) # <<>>
  BY DEF Texts, Value, Falsy, Unset
<1> QED
  BY <1>1

\* What a worker listed wrappers come to, which it knows all of.
LEMMA ListedWrappers ==
  ASSUME NEW e, Texts(e), Accepted(e), \A name \in Lists : AllKnown(Value(e, name))
  PROVE  LET w == EnvVars(e)
         IN  /\ Listed(w) \in Seq(Wrappers)
             /\ \A i \in DOMAIN Listed(w) : HasPath(w, Listed(w)[i])
             /\ \E i \in DOMAIN Listed(w) :
                  /\ PrecedenceOrder(w).document[1] = Listed(w)[i]
                  /\ Listed(w)[i] = TrimmedLowerCase(Value(e, "CONVERTER_DOCUMENT_PRIORITY")[1])
             /\ \E i \in DOMAIN Listed(w) :
                  /\ PrecedenceOrder(w).media[1] = Listed(w)[i]
                  /\ Listed(w)[i] = TrimmedLowerCase(Value(e, "CONVERTER_MEDIA_PRIORITY")[1])
<1> DEFINE w == EnvVars(e)
           dl == Value(e, "CONVERTER_DOCUMENT_PRIORITY")
           ml == Value(e, "CONVERTER_MEDIA_PRIORITY")
           d == WrapperCollection(dl)
           m == WrapperCollection(ml)
<1>1. \A name \in Lists : name \in WorkerVariables \ {"WEBSERVICE_PORT"}
  BY DEF Lists, WorkerVariables
<1>2. \A name \in Lists : Value(w, name) = Value(e, name) /\ ~Falsy(Value(e, name))
  BY <1>1, HandedOn
<1>3. PrecedenceOrder(w).document = d /\ PrecedenceOrder(w).media = m /\ Listed(w) = d \o m
  BY <1>2 DEF PrecedenceOrder, Listed, Lists
<1>4. /\ dl \in Seq(STRING) /\ DOMAIN dl = 1 .. Len(dl) /\ 1 \in DOMAIN dl
      /\ ml \in Seq(STRING) /\ DOMAIN ml = 1 .. Len(ml) /\ 1 \in DOMAIN ml
  BY <1>2, ListsAreTexts DEF Lists
<1>5. /\ \A i \in DOMAIN dl : TrimmedLowerCase(dl[i]) \in Wrappers
      /\ \A i \in DOMAIN ml : TrimmedLowerCase(ml[i]) \in Wrappers
  BY DEF AllKnown, Lists
<1>6. /\ d = [i \in 1 .. Len(dl) |-> TrimmedLowerCase(dl[i])]
      /\ m = [i \in 1 .. Len(ml) |-> TrimmedLowerCase(ml[i])]
  BY <1>4 DEF WrapperCollection
<1>7. Len(dl) \in Nat /\ Len(ml) \in Nat
  BY <1>4
<1> HIDE DEF d, m, dl, ml, w
<1>8. /\ d \in Seq(Wrappers) /\ m \in Seq(Wrappers) /\ Len(d) = Len(dl) /\ Len(m) = Len(ml)
      /\ d[1] = TrimmedLowerCase(dl[1]) /\ m[1] = TrimmedLowerCase(ml[1])
  BY <1>4, <1>5, <1>6, <1>7
<1>9. /\ d \o m \in Seq(Wrappers) /\ DOMAIN (d \o m) = 1 .. Len(d) + Len(m)
      /\ 1 \in 1 .. Len(d) /\ (d \o m)[1] = d[1]
      /\ 1 \in 1 .. Len(m) /\ (d \o m)[Len(d) + 1] = m[1]
  BY <1>4, <1>7, <1>8
<1>10. \A wrapper \in Wrappers : HasPath(w, wrapper)
  <2>1. \A wrapper \in Wrappers : PathKey[wrapper] \in WorkerVariables \ {"WEBSERVICE_PORT"}
    BY DEF PathKey, Wrappers, WorkerVariables
  <2> QED
    BY <2>1, HandedOn DEF HasPath, w
<1>11. 1 \in DOMAIN (d \o m) /\ Len(d) + 1 \in DOMAIN (d \o m)
  BY <1>7, <1>8, <1>9
<1>12. \A i \in DOMAIN (d \o m) : (d \o m)[i] \in Wrappers
  BY <1>9
<1> QED
  BY <1>3, <1>8, <1>9, <1>10, <1>11, <1>12 DEF w, dl, ml

\* So a worker ends at start only for an unknown name.
LEMMA BootsWhenKnown ==
  ASSUME NEW e, Texts(e), Accepted(e)
  PROVE  Boots(EnvVars(e)) <=> \A name \in Lists : AllKnown(Value(e, name))
<1> DEFINE w == EnvVars(e)
<1>1. \A name \in Lists \cup {"MAX_CONVERSION_TIME", "MAX_CONVERSION_TRIES"} :
        Value(w, name) = Value(e, name) /\ ~Falsy(Value(e, name))
  <2>1. Lists \cup {"MAX_CONVERSION_TIME", "MAX_CONVERSION_TRIES"}
          \subseteq WorkerVariables \ {"WEBSERVICE_PORT"}
    BY DEF Lists, WorkerVariables
  <2> QED
    BY <2>1, HandedOn
<1>2. MaximaDefined(w)
  BY <1>1 DEF MaximaDefined, ValueOrDefault, Falsy
<1>3. PortDefined(w)
  <2>1. Value(w, "WEBSERVICE_PORT") = <<"3000">>
    BY HandedOn
  <2>2. <<"3000">> # <<>> /\ <<"3000">> # <<"">>
    OBVIOUS
  <2> QED
    BY <2>1, <2>2 DEF PortDefined, Falsy, Unset, Empty
<1>4. PrecedenceDefined(w) <=> \A name \in Lists : AllKnown(Value(e, name))
  BY <1>1 DEF PrecedenceDefined, Lists
<1>5. ASSUME \A name \in Lists : AllKnown(Value(e, name))
      PROVE  AvailableWrappers(w) # <<>>
  <2>1. PICK i \in DOMAIN Listed(w) : HasPath(w, Listed(w)[i])
    BY <1>5, ListedWrappers
  <2>2. Listed(w)[i] \in ConverterMap(w)
    BY <1>5, <2>1, ListedWrappers, AvailableAreListed
  <2> QED
    BY <2>2 DEF ConverterMap
<1> QED
  BY <1>2, <1>3, <1>4, <1>5 DEF Boots
--------------------------------------------------------------------------------
(***************************************************************************)
(* What becomes of a plain request.                                        *)
(***************************************************************************)
\* Both routes accept it, ...
LEMMA PlainIsQueued ==
  ASSUME NEW path \in Paths, NEW body, Plain(body)
  PROVE  PostAnswer(path, body) = Respond(Queued) /\ HasForm(body)
<1> DEFINE post == [method |-> "POST", path |-> path, v2 |-> "absent", fields |-> body.fields]
           outcome == IF RouteOf(post).handler = "convertFile" THEN ConvertFile(post, body)
                                                               ELSE ConvertFileLegacy(body)
<1>1. /\ post.method = "POST" /\ post.path = path /\ post.fields = body.fields
      /\ post.v2 = "absent"
  OBVIOUS
<1>2. {"file", "filename", "targetFormat"} \subseteq body.fields
  BY DEF Plain, RequiredFields, BodyFields
<1>3. FormAccepted(post) /\ HasExt(body) /\ HasForm(body)
  <2>1. HasExt(body)
    <3>1. CASE Given(body, "originalFormat")
      BY <3>1 DEF Plain, HasExt
    <3>2. CASE ~Given(body, "originalFormat")
      <4>1. Len(body.name) = 2
        BY <3>2 DEF Plain
      <4> QED
        BY <4>1 DEF HasExt
    <3> QED
      BY <3>1, <3>2
  <2> QED
    BY <1>1, <1>2, <2>1 DEF FormAccepted, HasForm, Given
<1> HIDE DEF post
<1>4. PICK n \in {1, 2} : Matching(post) = {n}
  BY <1>1, PostRoutes DEF Paths
<1>5. RouteOf(post) = Routes[n]
  BY <1>4, OnlyRoute, RouteTable
<1>6. Routes[n].arguments \in {{}, {"body"}}
  BY RouteTable DEF Route
<1>7. ArgumentsValid(post)
  BY <1>1, <1>5, <1>6 DEF ArgumentsValid, Plain
<1>8. outcome = Queued
  BY <1>3 DEF ConvertFile, ConvertFileLegacy
<1>9. ~Queued.thrown
  BY DEF Queued, Returns
<1>10. Serve(post, outcome) = Respond(Queued)
  BY <1>4, <1>7, <1>8, <1>9 DEF Serve
<1> QED
  BY <1>3, <1>10 DEF PostAnswer, post

\* ... and the worker is asked for what the client means.
LEMMA PlainIsMeant ==
  ASSUME NEW body \in Bodies, Plain(body)
  PROVE  Request(Form(body)) = Meant(body)
<1>1. CASE Given(body, "originalFormat")
  BY <1>1 DEF Plain, Request, Form, Meant
<1>2. CASE ~Given(body, "originalFormat")
  <2>1. Len(body.name) = 2 /\ body.name \in Seq(STRING)
    BY <1>2, BodiesAssumption DEF Plain
  <2>2. body.name[2] # ".png"
    BY <2>1, BodiesAssumption
  <2> QED
    BY <1>2, <2>1, <2>2 DEF Request, Form, Meant, Undotted
<1> QED
  BY <1>1, <1>2

\* When all tools answer, what one of them supports is supported.
LEMMA OfferedIsSupported ==
  ASSUME NEW t, \A w \in Wrappers : Answers(t, w) /\ ~Crashes(t, w),
         NEW v \in Wrappers, NEW from \in Supported(t, v), NEW to \in Supported(t, v)
  PROVE  SupportsConversion(t, from, to) = "supported"
<1>1. CanConvert(t, v, from, to) /\ v \in {"ffmpeg", "unoconv", "imagemagick"}
  BY DEF CanConvert, Wrappers
<1>2. Answers(t, "ffmpeg") /\ Answers(t, "unoconv") /\ ~Crashes(t, "unoconv")
  BY DEF Wrappers
<1> QED
  BY <1>1, <1>2 DEF SupportsConversion

LEMMA OfferedAreOfOne ==
  ASSUME NEW t, NEW ws, 1 \in DOMAIN ws, ws[1] \in Wrappers
  PROVE  OfferedFormats(t, ws) = {} \/ \E v \in Wrappers : OfferedFormats(t, ws) = Supported(t, v)
BY DEF OfferedFormats

LEMMA DecisionsAre ==
  ASSUME NEW t, NEW w, NEW request
  PROVE  LET decision == Decision(t, w, request)
             chosen   == DetermineConverter(w, request)
         IN  /\ decision.result \in {"crash", "error", "unsupported", "convert", "failed"}
             /\ decision.result \in {"crash", "error", "unsupported"}
                  => SupportsConversion(t, request.from, request.to) # "supported"
             /\ decision.result = "convert" => decision.wrapper = chosen /\ chosen \in ConverterMap(w)
             /\ decision.result = "failed" => chosen \notin ConverterMap(w)
<1>1. SupportsConversion(t, request.from, request.to)
        \in {"crash", "error", "supported", "unsupported"}
  BY DEF SupportsConversion
<1> QED
  BY <1>1 DEF Decision

\* A rule decides for a wrapper that it names exactly.
LEMMA EnumValueIsNamed ==
  ASSUME NEW value, NEW M \in SUBSET Wrappers
  PROVE  /\ EnumValue(value) \in M => <<EnumValue(value)>> = value
         /\ EnumValue(value) \notin M => value \notin {<<w>> : w \in M}
<1>1. NoWrapper \notin M
  BY DEF NoWrapper, Wrappers
<1>2. CASE value \in {<<w>> : w \in Wrappers}
  <2>1. PICK w \in Wrappers : value = <<w>>
    BY <1>2
  <2>2. EnumValue(value) = w
    BY <1>2, <2>1 DEF EnumValue
  <2>3. \A x \in M : <<x>> = <<w>> => x = w
    OBVIOUS
  <2> QED
    BY <2>1, <2>2, <2>3
<1>3. CASE value \notin {<<w>> : w \in Wrappers}
  BY <1>1, <1>3 DEF EnumValue
<1> QED
  BY <1>2, <1>3

\* What a worker decides, in the words of an operator.
LEMMA DecidedAsWanted ==
  ASSUME Texts(env), Accepted(env), Boots(EnvVars(env)), NEW request
  PROVE  LET chosen == DetermineConverter(EnvVars(env), request)
             map    == ConverterMap(EnvVars(env))
         IN  /\ chosen \in map => <<chosen>> = Wanted(request)
             /\ chosen \notin map =>
                  /\ Wanted(request) \notin {<<w>> : w \in map}
                  /\ \/ Rule(env, Mono(Upper[request.to])) # Unset
                     \/ Rule(env, Multi(Upper[request.from], Upper[request.to])) # Unset
<1> DEFINE w == EnvVars(env)
           map == ConverterMap(w)
           chosen == DetermineConverter(w, request)
           multi == Rule(env, Multi(Upper[request.from], Upper[request.to]))
           mono == Rule(env, Mono(Upper[request.to]))
           list == Value(env, IF request.from \in MediaFormats THEN "CONVERTER_MEDIA_PRIORITY"
                                                               ELSE "CONVERTER_DOCUMENT_PRIORITY")
           first == IF request.from \in MediaFormats THEN PrecedenceOrder(w).media[1]
                                                     ELSE PrecedenceOrder(w).document[1]
<1>1. \A name \in Lists : AllKnown(Value(env, name))
  BY BootsWhenKnown
<1>2. MultiRule(w, request) = multi /\ MonoRule(w, request) = mono
  BY HandedOn DEF MultiRule, MonoRule
<1>3. map \subseteq Wrappers /\ \A i \in DOMAIN Listed(w) : Listed(w)[i] \in map
  BY <1>1, ListedWrappers, AvailableAreListed
<1>4. first \in map /\ first = TrimmedLowerCase(list[1])
  <2>1. CASE request.from \in MediaFormats
    <3>1. PICK i \in DOMAIN Listed(w) :
            /\ PrecedenceOrder(w).media[1] = Listed(w)[i]
            /\ Listed(w)[i] = TrimmedLowerCase(Value(env, "CONVERTER_MEDIA_PRIORITY")[1])
      BY <1>1, ListedWrappers
    <3> QED
      BY <1>3, <2>1, <3>1
  <2>2. CASE request.from \notin MediaFormats
    <3>1. PICK i \in DOMAIN Listed(w) :
            /\ PrecedenceOrder(w).document[1] = Listed(w)[i]
            /\ Listed(w)[i] = TrimmedLowerCase(Value(env, "CONVERTER_DOCUMENT_PRIORITY")[1])
      BY <1>1, ListedWrappers
    <3> QED
      BY <1>3, <2>2, <3>1
  <2> QED
    BY <2>1, <2>2
<1>5. chosen = CASE multi # Unset -> EnumValue(multi)
                 [] multi = Unset /\ mono # Unset -> EnumValue(mono)
                 [] OTHER -> first
  BY <1>2 DEF DetermineConverter
<1>6. Wanted(request) = CASE multi # Unset -> multi
                          [] multi = Unset /\ mono # Unset -> mono
                          [] OTHER -> <<TrimmedLowerCase(list[1])>>
  BY DEF Wanted
<1> HIDE DEF w, map, chosen, multi, mono, list, first
<1>7. CASE multi # Unset
  <2>1. chosen = EnumValue(multi) /\ Wanted(request) = multi
    BY <1>5, <1>6, <1>7
  <2>2. /\ EnumValue(multi) \in map => <<EnumValue(multi)>> = multi
        /\ EnumValue(multi) \notin map => multi \notin {<<v>> : v \in map}
    BY <1>3, EnumValueIsNamed
  <2> QED
    BY <1>7, <2>1, <2>2 DEF w, map, chosen, multi, mono
<1>8. CASE multi = Unset /\ mono # Unset
  <2>1. chosen = EnumValue(mono) /\ Wanted(request) = mono
    BY <1>5, <1>6, <1>8
  <2>2. /\ EnumValue(mono) \in map => <<EnumValue(mono)>> = mono
        /\ EnumValue(mono) \notin map => mono \notin {<<v>> : v \in map}
    BY <1>3, EnumValueIsNamed
  <2> QED
    BY <1>8, <2>1, <2>2 DEF w, map, chosen, multi, mono
<1>9. CASE multi = Unset /\ mono = Unset
  <2>1. chosen = first /\ Wanted(request) = <<TrimmedLowerCase(list[1])>>
    BY <1>5, <1>6, <1>9
  <2> QED
    BY <1>4, <2>1 DEF w, map, chosen
<1> QED
  BY <1>7, <1>8, <1>9

--------------------------------------------------------------------------------
(***************************************************************************)
(* The inductive invariant.  A service that runs has accepted its          *)
(* environment, a worker has what it was handed, and of the latest request *)
(* there is what was decided.                                              *)
(***************************************************************************)
WorkerFits ==
  /\ worker \in {"none", "up", "exited", "crashed"}
  /\ worker # "none" => /\ service = "up"
                        /\ wenv = EnvVars(env)
                        /\ worker = "exited" <=> ~Boots(wenv)

ClockFits ==
  LET s == Config.stateApplicationInterval
      h == Config.healthCheckInterval
      n == ProbesPerStateApply(Config)
  IN service = "up" /\ s # 0 /\ h # 0 =>
       /\ late \in Nat /\ probeCount \in 1 .. n
       /\ stage \in {"none", "running", "applied"}
       /\ stage = "none" => since = probeCount - 1 + late
       /\ stage = "running" => since = probeCount + late
       /\ stage = "applied" => probeCount = n /\ since = late

AnswerFits ==
  LET decision == Decision(tools, wenv, Request(Form(answer.body)))
  IN /\ answer.result # "none" => answer.body \in Bodies /\ worker # "none" /\ Boots(wenv)
     /\ answer.result \in {"rejected", "lost"} => ~Plain(answer.body)
     /\ answer.result \notin {"none", "rejected", "lost"} =>
          answer.result = decision.result /\ answer.wrapper = decision.wrapper

DepInv ==
  /\ Texts(env)
  /\ service \in {"off", "exited", "up"}
  /\ service = "up" => Accepted(env)
  /\ service = "off" => stage = "none" /\ since = 0 /\ late = 0 /\ probeCount = 1
  /\ WorkerFits
  /\ formats.list = {} \/ \E w \in Wrappers : formats.list = Supported(tools, w)
  /\ ClockFits
  /\ AnswerFits
\* The intervals are numbers, and the state is applied after n probes.
LEMMA IntervalsAreNumbers ==
  ASSUME Accepted(env)
  PROVE  LET s == Config.stateApplicationInterval
             h == Config.healthCheckInterval
             n == ProbesPerStateApply(Config)
         IN  /\ s \in Nat /\ h \in Nat
             /\ s # 0 /\ h # 0 =>
                  n \in Nat \ {0} /\ n * h >= s /\ \A k \in 0 .. n - 1 : k * h < s
<1>1. ASSUME NEW name \in OptionalNumbers, NEW default \in Nat
      PROVE  NumberOr(Value(env, name), default) \in Nat
  <2>1. Falsy(Value(env, name)) \/ IsStringNumber(Value(env, name))
    BY DEF Accepted, OptionalAccepted
  <2> QED
    BY <2>1, NumbersAssumption DEF NumberOr, IsStringNumber, NumberOf
<1>2. "HEALTH_CHECK_INTERVAL" \in OptionalNumbers
      /\ "APPLY_DESIRED_STATE_INTERVAL" \in OptionalNumbers
  BY DEF OptionalNumbers
<1>3. Config.stateApplicationInterval \in Nat /\ Config.healthCheckInterval \in Nat
  BY <1>1, <1>2 DEF Config, SchedulerConfig
<1> QED
  BY <1>3, CeilingCovers DEF ProbesPerStateApply

LEMMA InitDepInv == Init => DepInv
<1> SUFFICES ASSUME Init
             PROVE  DepInv
  OBVIOUS
<1>1. PICK d \in Deployments : env = d.env
  BY DEF Init
<1>2. Texts(env)
  BY <1>1, DeploymentsAssumption DEF Texts
<1>3. WorkerFits /\ ClockFits
  BY DEF Init, WorkerFits, ClockFits
<1>4. AnswerFits
  BY DEF Init, AnswerFits, NoAnswer
<1> QED
  BY <1>2, <1>3, <1>4 DEF Init, DepInv

Ticks == StartProbe \/ SkipTick \/ ApplyState \/ EndProbe \/ FailDueProbe

\* The probe that is due is the last of its round.
LEMMA DueIsLast ==
  ASSUME DepInv, service = "up",
         Config.stateApplicationInterval # 0, Config.healthCheckInterval # 0
  PROVE  /\ ProbesPerStateApply(Config) \in Nat \ {0}
         /\ probeCount \in 1 .. ProbesPerStateApply(Config)
         /\ Due <=> probeCount = ProbesPerStateApply(Config)
<1> DEFINE h == Config.healthCheckInterval
           n == ProbesPerStateApply(Config)
<1>1. n \in Nat \ {0}
  BY IntervalsAreNumbers DEF DepInv
<1>2. probeCount \in 1 .. n
  BY DEF DepInv, ClockFits
<1>3. Due <=> h # 0 /\ n # 0 /\ probeCount % n = 0
  BY DEF Due, ShouldApplyState
<1> HIDE DEF n
<1>4. probeCount % n = 0 <=> probeCount = n
  BY <1>1, <1>2, FirstMultiple
<1>5. n # 0
  BY <1>1
<1>6. Due <=> probeCount = n
  BY <1>3, <1>4, <1>5
<1> QED
  BY <1>1, <1>2, <1>6 DEF n

\* The probes of a service with intervals.
LEMMA TicksKeepClock ==
  ASSUME DepInv, Ticks
  PROVE  ClockFits'
<1> DEFINE s == Config.stateApplicationInterval
           h == Config.healthCheckInterval
           n == ProbesPerStateApply(Config)
<1>1. UNCHANGED <<env, service>>
  BY DEF Ticks, StartProbe, SkipTick, ApplyState, EndProbe, FailDueProbe, others
<1>2. Config' = Config
  BY <1>1 DEF Config
<1> SUFFICES ASSUME service = "up", s # 0, h # 0
             PROVE  /\ late' \in Nat /\ probeCount' \in 1 .. n
                    /\ stage' \in {"none", "running", "applied"}
                    /\ stage' = "none" => since' = probeCount' - 1 + late'
                    /\ stage' = "running" => since' = probeCount' + late'
                    /\ stage' = "applied" => probeCount' = n /\ since' = late'
  BY <1>1, <1>2 DEF ClockFits
<1>3. n \in Nat \ {0} /\ (Due <=> probeCount = n)
  BY DueIsLast
<1>4. /\ late \in Nat /\ probeCount \in 1 .. n
      /\ stage \in {"none", "running", "applied"}
      /\ stage = "none" => since = probeCount - 1 + late
      /\ stage = "running" => since = probeCount + late
      /\ stage = "applied" => probeCount = n /\ since = late
  BY DEF DepInv, ClockFits
<1>5. FailDueProbe => late' = late + n
  BY DEF FailDueProbe
<1> HIDE DEF s, h, n
<1>6. CASE StartProbe
  BY <1>3, <1>4, <1>6 DEF StartProbe
<1>7. CASE SkipTick
  BY <1>3, <1>4, <1>7 DEF SkipTick
<1>8. CASE ApplyState
  BY <1>3, <1>4, <1>8 DEF ApplyState
<1>9. CASE EndProbe
  BY <1>3, <1>4, <1>9 DEF EndProbe, Finish
<1>10. CASE FailDueProbe
  BY <1>3, <1>4, <1>5, <1>10 DEF FailDueProbe, Finish
<1> QED
  BY <1>6, <1>7, <1>8, <1>9, <1>10 DEF Ticks

LEMMA FormatsAreOfOne ==
  ASSUME DepInv, GetFormats
  PROVE  formats'.list = {} \/ \E w \in Wrappers : formats'.list = Supported(tools, w)
<1>1. CASE UNCHANGED formats
  BY <1>1 DEF DepInv
<1>2. CASE formats' = [cached |-> TRUE, list |-> OfferedFormats(tools, AvailableWrappers(wenv))]
  <2>1. Texts(env) /\ Accepted(env) /\ wenv = EnvVars(env) /\ Boots(wenv)
    BY DEF GetFormats, DepInv, WorkerFits
  <2>2. \A name \in Lists : AllKnown(Value(env, name))
    BY <2>1, BootsWhenKnown
  <2>3. Listed(wenv) \in Seq(Wrappers)
    BY <2>1, <2>2, ListedWrappers
  <2>4. AvailableWrappers(wenv) # <<>>
    BY <2>1 DEF Boots
  <2>5. 1 \in DOMAIN AvailableWrappers(wenv) /\ AvailableWrappers(wenv)[1] \in Wrappers
    BY <2>3, <2>4, AvailableAreListed
  <2> QED
    BY <1>2, <2>5, OfferedAreOfOne
<1> QED
  BY <1>1, <1>2 DEF GetFormats

LEMMA AnswersFit ==
  ASSUME DepInv, NEW path \in Paths, NEW body \in Bodies,
         Reject(path, body) \/ Lose(path, body) \/ Forward(path, body)
  PROVE  AnswerFits' /\ WorkerFits'
<1>1. /\ worker = "up" /\ wenv = EnvVars(env) /\ Boots(wenv) /\ service = "up"
      /\ UNCHANGED <<env, tools, wenv, service>>
  BY DEF Reject, Lose, Forward, Posts, DepInv, WorkerFits
<1>2. CASE Reject(path, body) \/ Lose(path, body)
  <2>1. ~Plain(body)
    BY <1>2, PlainIsQueued DEF Reject, Lose
  <2>2. answer'.result \in {"rejected", "lost"} /\ answer'.body = body /\ UNCHANGED worker
    BY <1>2 DEF Reject, Lose
  <2>3. ~Plain(answer.body)'
    BY <2>1, <2>2 DEF Plain
  <2> QED
    BY <1>1, <2>2, <2>3 DEF AnswerFits, WorkerFits
<1>3. CASE Forward(path, body)
  <2> DEFINE decision == Decision(tools, wenv, Request(Form(body)))
  <2>1. /\ answer' = [result |-> decision.result, wrapper |-> decision.wrapper, body |-> body]
        /\ worker' = IF decision.result = "crash" THEN "crashed" ELSE "up"
    BY <1>3 DEF Forward
  <2>2. decision.result \in {"crash", "error", "unsupported", "convert", "failed"}
    BY DecisionsAre
  <2> QED
    BY <1>1, <2>1, <2>2 DEF AnswerFits, WorkerFits
<1> QED
  BY <1>2, <1>3

LEMMA KeepsDepInv ==
  ASSUME DepInv, [Next]_vars
  PROVE  DepInv'
<1>1. UNCHANGED <<env, tools>>
  BY DEF Next, vars, StartService, StartProbe, SkipTick, ApplyState, EndProbe, FailDueProbe, others,
         StartWorker, GetFormats, Reject, Lose, Forward
<1>2. Texts(env)'
  BY <1>1 DEF DepInv, Texts
<1>3. ASSUME StartService
      PROVE  DepInv'
  <2>1. /\ service = "off" /\ service' = IF Accepted(env) THEN "up" ELSE "exited"
        /\ UNCHANGED <<worker, wenv, formats, answer, clock>>
    BY <1>3 DEF StartService
  <2>2. ClockFits'
    <3>1. Config' = Config /\ ProbesPerStateApply(Config)' = ProbesPerStateApply(Config)
      BY <1>1 DEF Config
    <3>2. stage' = "none" /\ since' = 0 /\ late' = 0 /\ probeCount' = 1
      BY <2>1 DEF DepInv, clock
    <3>3. CASE Accepted(env)
      <4> DEFINE n == ProbesPerStateApply(Config)
      <4>1. Config.stateApplicationInterval # 0 /\ Config.healthCheckInterval # 0 => n \in Nat \ {0}
        BY <3>3, IntervalsAreNumbers
      <4>2. n \in Nat \ {0} => 1 \in 1 .. n
        <5> HIDE DEF n
        <5> QED
          OBVIOUS
      <4> QED
        BY <2>1, <3>1, <3>2, <4>1, <4>2 DEF ClockFits
    <3>4. CASE ~Accepted(env)
      BY <2>1, <3>4 DEF ClockFits
    <3> QED
      BY <3>3, <3>4
  <2>3. worker = "none"
    BY <2>1 DEF DepInv, WorkerFits
  <2>4. WorkerFits' /\ AnswerFits'
    BY <1>1, <2>1, <2>3 DEF DepInv, WorkerFits, AnswerFits
  <2>5. Accepted(env)' <=> Accepted(env)
    BY <1>1
  <2> QED
    BY <1>1, <1>2, <2>1, <2>2, <2>4, <2>5 DEF DepInv
<1>4. ASSUME Ticks
      PROVE  DepInv'
  <2>1. UNCHANGED <<service, worker, wenv, formats, answer>>
    BY <1>4 DEF Ticks, StartProbe, SkipTick, ApplyState, EndProbe, FailDueProbe, others
  <2>2. WorkerFits' /\ AnswerFits'
    BY <1>1, <2>1 DEF DepInv, WorkerFits, AnswerFits
  <2>3. ClockFits'
    BY <1>4, TicksKeepClock
  <2>4. Accepted(env)' <=> Accepted(env)
    BY <1>1
  <2>5. service # "off"
    BY <1>4 DEF DepInv, Ticks, StartProbe, SkipTick, ApplyState, EndProbe, FailDueProbe
  <2> QED
    BY <1>1, <1>2, <2>1, <2>2, <2>3, <2>4, <2>5 DEF DepInv
<1>5. ASSUME StartWorker \/ GetFormats \/ UNCHANGED vars
             \/ \E path \in Paths, body \in Bodies :
                  Reject(path, body) \/ Lose(path, body) \/ Forward(path, body)
      PROVE  DepInv'
  <2>1. UNCHANGED <<service, probeCount, stage, since, late>>
    BY <1>5 DEF StartWorker, GetFormats, Reject, Lose, Forward, vars, clock
  <2>2. ClockFits'
    BY <1>1, <2>1 DEF DepInv, ClockFits, Config
  <2>3. WorkerFits' /\ AnswerFits'
    <3>1. CASE StartWorker
      <4>1. /\ service = "up" /\ worker = "none" /\ UNCHANGED answer
            /\ wenv' = EnvVars(env) /\ worker' = IF Boots(EnvVars(env)) THEN "up" ELSE "exited"
        BY <3>1 DEF StartWorker
      <4>2. answer.result = "none"
        BY <4>1 DEF DepInv, AnswerFits
      <4> QED
        BY <1>1, <2>1, <4>1, <4>2 DEF WorkerFits, AnswerFits
    <3>2. CASE GetFormats
      <4>1. worker = "up" /\ worker' \in {"up", "crashed"} /\ UNCHANGED <<wenv, answer>>
        BY <3>2 DEF GetFormats
      <4> QED
        BY <1>1, <2>1, <4>1 DEF DepInv, WorkerFits, AnswerFits
    <3>3. CASE UNCHANGED vars
      BY <3>3 DEF vars, DepInv, WorkerFits, AnswerFits
    <3> QED
      BY <1>5, <3>1, <3>2, <3>3, AnswersFit
  <2>4. formats'.list = {} \/ \E w \in Wrappers : formats'.list = Supported(tools, w)
    <3>1. CASE UNCHANGED formats
      BY <3>1 DEF DepInv
    <3> QED
      BY <1>5, <3>1, FormatsAreOfOne DEF StartWorker, Reject, Lose, Forward, vars
  <2>5. Accepted(env)' <=> Accepted(env)
    BY <1>1
  <2> QED
    BY <1>1, <1>2, <2>1, <2>2, <2>3, <2>4, <2>5 DEF DepInv
<1> QED
  BY <1>3, <1>4, <1>5 DEF Next, Ticks

LEMMA DepInvariance == Spec => []DepInv
<1>1. DepInv /\ [Next]_vars => DepInv'
  BY KeepsDepInv
<1> QED
  BY InitDepInv, <1>1, PTL DEF Spec

--------------------------------------------------------------------------------
(***************************************************************************)
(* The properties.                                                         *)
(***************************************************************************)
\* A worker ends at start only for a list that names an unknown wrapper, whatever
\* the environment is that the redis-service has accepted: all that its
\* containers need has been looked at and is handed on.
THEOREM WorkersBootAlways == Spec => []WorkersBoot
<1>1. DepInv => WorkersBoot
  <2> SUFFICES ASSUME DepInv, worker # "none"
               PROVE  worker # "exited" <=> \A name \in Lists : AllKnown(Value(env, name))
    BY DEF WorkersBoot, Lists
  <2>1. Texts(env) /\ Accepted(env) /\ wenv = EnvVars(env) /\ (worker = "exited" <=> ~Boots(wenv))
    BY DEF DepInv, WorkerFits
  <2> QED
    BY <2>1, BootsWhenKnown
<1> QED
  BY <1>1, DepInvariance, PTL

\* Whatever rules and lists an operator writes down and whatever a client sends,
\* a plain request is converted by the wrapper that the rules or the list name
\* for it, or fails when a rule names one that the worker does not have.
THEOREM WrappersAreWanted == Spec => []ChosenAsWanted
<1>1. DepInv => ChosenAsWanted
  <2> SUFFICES ASSUME DepInv, answer.result \in {"convert", "failed"}, Plain(answer.body)
               PROVE  LET request == Meant(answer.body)
                      IN /\ answer.result = "convert" => <<answer.wrapper>> = Wanted(request)
                         /\ answer.result = "failed" =>
                              /\ Wanted(request) \notin {<<w>> : w \in ConverterMap(wenv)}
                              /\ \/ Rule(env, Mono(Upper[request.to])) # Unset
                                 \/ Rule(env, Multi(Upper[request.from], Upper[request.to])) # Unset
    BY DEF ChosenAsWanted
  <2> DEFINE request == Meant(answer.body)
  <2>1. /\ answer.body \in Bodies /\ service = "up" /\ Texts(env) /\ Accepted(env)
        /\ wenv = EnvVars(env) /\ Boots(wenv)
    BY DEF DepInv, WorkerFits, AnswerFits
  <2>2. Request(Form(answer.body)) = request
    BY <2>1, PlainIsMeant
  <2>3. /\ answer.result = Decision(tools, wenv, request).result
        /\ answer.wrapper = Decision(tools, wenv, request).wrapper
    BY <2>2 DEF DepInv, AnswerFits
  <2> HIDE DEF request
  <2>4. LET chosen == DetermineConverter(wenv, request)
        IN  /\ answer.result = "convert" => answer.wrapper = chosen /\ chosen \in ConverterMap(wenv)
            /\ answer.result = "failed" => chosen \notin ConverterMap(wenv)
    BY <2>3, DecisionsAre
  <2>5. LET chosen == DetermineConverter(wenv, request)
            map    == ConverterMap(wenv)
        IN  /\ chosen \in map => <<chosen>> = Wanted(request)
            /\ chosen \notin map =>
                 /\ Wanted(request) \notin {<<w>> : w \in map}
                 /\ \/ Rule(env, Mono(Upper[request.to])) # Unset
                    \/ Rule(env, Multi(Upper[request.from], Upper[request.to])) # Unset
    BY <2>1, DecidedAsWanted
  <2> QED
    BY <2>4, <2>5 DEF request
<1> QED
  BY <1>1, DepInvariance, PTL

\* Whatever the two intervals are, as long as neither is zero, however many ticks
\* long probes lose and however often a due probe fails: between two applications
\* of the state there are never fewer ticks than APPLY_DESIRED_STATE_INTERVAL needs,
\* and beside those that were lost never as many as one more.
THEOREM StateIsAppliedInTime == Spec => AppliedInTime
<1> DEFINE s == Config.stateApplicationInterval
           h == Config.healthCheckInterval
           n == ProbesPerStateApply(Config)
<1>1. ASSUME DepInv, DepInv', [Next]_vars
      PROVE  service = "up" /\ s # 0 /\ h # 0 =>
               /\ ApplyState => since * h >= s
               /\ (since' - late' - 1) * h < s
  <2> SUFFICES ASSUME service = "up", s # 0, h # 0
               PROVE  /\ ApplyState => since * h >= s
                      /\ (since' - late' - 1) * h < s
    OBVIOUS
  <2>1. /\ s \in Nat \ {0} /\ h \in Nat \ {0}
        /\ n \in Nat \ {0} /\ n * h >= s /\ \A k \in 0 .. n - 1 : k * h < s
    BY <1>1, IntervalsAreNumbers DEF DepInv
  <2>2. /\ late \in Nat
        /\ stage = "running" => since = probeCount + late
        /\ Due <=> probeCount = n
    BY <1>1, DueIsLast DEF DepInv, ClockFits
  <2>3. /\ late' \in Nat /\ probeCount' \in 1 .. n
        /\ \/ since' = probeCount' - 1 + late'
           \/ since' = probeCount' + late'
           \/ since' = late'
    <3>1. UNCHANGED env
      BY <1>1 DEF Next, vars, StartService, StartProbe, SkipTick, ApplyState, EndProbe, FailDueProbe,
             others, StartWorker, GetFormats, Reject, Lose, Forward
    <3>2. service' = "up"
      BY <1>1 DEF Next, vars, StartService, StartProbe, SkipTick, ApplyState, EndProbe, FailDueProbe,
             others, StartWorker, GetFormats, Reject, Lose, Forward
    <3>3. Config' = Config
      BY <3>1 DEF Config
    <3> QED
      BY <1>1, <3>2, <3>3 DEF DepInv, ClockFits
  <2> HIDE DEF s, h, n
  <2>4. ASSUME ApplyState
        PROVE  since * h >= s
    <3>1. since = n + late
      BY <2>2, <2>4 DEF ApplyState
    <3>2. (n + late) * h = n * h + late * h
      BY <2>1, <2>2
    <3>3. late * h \in Nat /\ n * h \in Nat
      BY <2>1, <2>2
    <3> QED
      BY <2>1, <3>1, <3>2, <3>3
  <2>5. (since' - late' - 1) * h < s
    <3> DEFINE k == since' - late' - 1
    <3>1. k = 0 - 1 \/ k \in 0 .. n - 1
      BY <2>1, <2>3
    <3> HIDE DEF k
    <3>2. (0 - 1) * h < s
      <4>1. (0 - 1) * h = 0 - h
        BY <2>1
      <4> QED
        BY <2>1, <4>1
    <3>3. k \in 0 .. n - 1 => k * h < s
      BY <2>1
    <3>4. k * h < s
      BY <3>1, <3>2, <3>3
    <3> QED
      BY <3>4 DEF k
  <2> QED
    BY <2>4, <2>5
<1>2. DepInv /\ DepInv' /\ [Next]_vars =>
        [service = "up" /\ s # 0 /\ h # 0 =>
           /\ ApplyState => since * h >= s
           /\ (since' - late' - 1) * h < s]_vars
  BY <1>1
<1> QED
  BY <1>2, DepInvariance, PTL DEF Spec, AppliedInTime

\* Formats that GET /formats of the redis-service has offered are accepted by both
\* routes and supported by every worker, in whatever way the client names the
\* format of its file: a plain request between them is refused nowhere, as long
\* as all tools answer.
THEOREM OfferedAreAccepted == Spec => []OfferedIsAccepted
<1>1. DepInv => OfferedIsAccepted
  <2> SUFFICES ASSUME DepInv, Plain(answer.body),
                      answer.result \in {"rejected", "lost", "error", "unsupported", "crash"},
                      \A w \in Wrappers : Answers(tools, w) /\ ~Crashes(tools, w),
                      {Meant(answer.body).from, Meant(answer.body).to} \subseteq formats.list
               PROVE  FALSE
    BY DEF OfferedIsAccepted
  <2> DEFINE request == Meant(answer.body)
  <2>1. answer.result \in {"error", "unsupported", "crash"} /\ answer.body \in Bodies
    BY DEF DepInv, AnswerFits
  <2>2. Request(Form(answer.body)) = request
    BY <2>1, PlainIsMeant
  <2>3. answer.result = Decision(tools, wenv, request).result
    BY <2>1, <2>2 DEF DepInv, AnswerFits
  <2>4. request.from \in formats.list /\ request.to \in formats.list
    OBVIOUS
  <2> HIDE DEF request
  <2>5. SupportsConversion(tools, request.from, request.to) # "supported"
    BY <2>1, <2>3, DecisionsAre
  <2>6. PICK w \in Wrappers : formats.list = Supported(tools, w)
    BY <2>4 DEF DepInv
  <2> QED
    BY <2>4, <2>5, <2>6, OfferedIsSupported
<1> QED
  BY <1>1, DepInvariance, PTL
================================================================================
