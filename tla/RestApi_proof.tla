------------------------------ MODULE RestApi_proof ------------------------------
(***************************************************************************)
(* Lemmas about the routes and the responses both programs share: which    *)
(* route takes a GET, and that its answer is the controller's.             *)
(***************************************************************************)
EXTENDS RestApi, TLAPS

\* What tells the routes apart, by their position in the table.
LEMMA RouteTable ==
  /\ DOMAIN Routes = 1 .. 12
  /\ Routes[1] = Route("POST", <<"conversion", "v2">>, "convertFile", {})
  /\ Routes[2] = Route("POST", <<"conversion">>, "convertFileLegacy", {"body"})
  /\ \A i \in {1, 2} : Routes[i].method = "POST"
  /\ Routes[3] = Route("GET", <<"conversion">>, "getConversionQueueStatus", {})
  /\ Routes[4] = Route("GET", <<"conversion", Id>>, "getConvertedFile", {"query"})
  /\ Routes[5] = Route("GET", <<"conversion", Id, "download">>, "getConvertedFileDownload", {})
  /\ \A i \in {6, 11, 12} : Len(Routes[i].path) = 1 /\ Routes[i].path[1] \notin {Id, "conversion"}
  /\ \A i \in {7, 8, 9, 10} : Len(Routes[i].path) = 2 /\ Routes[i].path[1] \notin {Id, "conversion"}
<1> USE DEF Routes, ConversionRoutes, CapabilityRoutes, IndexRoutes
<1>1. DOMAIN Routes = 1 .. 12
  OBVIOUS
<1>2. /\ Routes[1] = Route("POST", <<"conversion", "v2">>, "convertFile", {})
      /\ Routes[2] = Route("POST", <<"conversion">>, "convertFileLegacy", {"body"})
      /\ Routes[1].method = "POST" /\ Routes[2].method = "POST"
  BY DEF Route
<1>3. /\ Routes[3] = Route("GET", <<"conversion">>, "getConversionQueueStatus", {})
      /\ Routes[4] = Route("GET", <<"conversion", Id>>, "getConvertedFile", {"query"})
  OBVIOUS
<1>4. Routes[5] = Route("GET", <<"conversion", Id, "download">>, "getConvertedFileDownload", {})
  OBVIOUS
<1>5. Len(Routes[6].path) = 1 /\ Routes[6].path[1] = "capabilities"
  BY DEF Route
<1>6. Len(Routes[7].path) = 2 /\ Routes[7].path[1] = "capabilities"
  BY DEF Route
<1>7. Len(Routes[8].path) = 2 /\ Routes[8].path[1] = "capabilities"
  BY DEF Route
<1>8. Len(Routes[9].path) = 2 /\ Routes[9].path[1] = "capabilities"
  BY DEF Route
<1>9. Len(Routes[10].path) = 2 /\ Routes[10].path[1] = "capabilities"
  BY DEF Route
<1>10. Len(Routes[11].path) = 1 /\ Routes[11].path[1] = "ping"
  BY DEF Route
<1>11. Len(Routes[12].path) = 1 /\ Routes[12].path[1] = "formats"
  BY DEF Route
<1> HIDE DEF Routes
<1> QED
  BY <1>1, <1>2, <1>3, <1>4, <1>5, <1>6, <1>7, <1>8, <1>9, <1>10, <1>11 DEF Id

\* A request that one route takes is that route's.
LEMMA OnlyRoute ==
  ASSUME NEW request, NEW n \in DOMAIN Routes, Matching(request) = {n}
  PROVE  RouteOf(request) = Routes[n]
<1>1. n \in Nat
  BY RouteTable
<1>2. \A i \in {n} : (\A j \in {n} : i <= j) => i = n
  OBVIOUS
<1>3. (CHOOSE i \in {n} : \A j \in {n} : i <= j) = n
  BY <1>1
<1> QED
  BY <1>3 DEF RouteOf

--------------------------------------------------------------------------------
(***************************************************************************)
(* Every GET of the conversion controllers is taken by one route only: no  *)
(* id is mistaken for another path, whatever it is.                        *)
(***************************************************************************)
\* GET /conversion
LEMMA QueueRoute ==
  ASSUME NEW v2
  PROVE  Matching(Get(<<"conversion">>, v2)) = {3}
<1> DEFINE request == Get(<<"conversion">>, v2)
<1>1. /\ request.method = "GET" /\ Len(request.path) = 1 /\ DOMAIN request.path = {1}
      /\ request.path[1] = "conversion"
  BY DEF Get
<1> HIDE DEF request
<1>2. Matches(Routes[3], request)
  BY <1>1, RouteTable DEF Matches, Route
<1>3. \A i \in {4, 5} : Len(Routes[i].path) # 1
  BY RouteTable DEF Route
<1>4. \A i \in {1, 2} : ~Matches(Routes[i], request)
  BY <1>1, RouteTable DEF Matches
<1>5. \A i \in {4, 5} : ~Matches(Routes[i], request)
  BY <1>1, <1>3 DEF Matches
<1>6. \A i \in {6, 7, 8, 9, 10, 11, 12} : ~Matches(Routes[i], request)
  BY <1>1, RouteTable DEF Matches
<1>7. \A i \in 1 .. 12 : Matches(Routes[i], request) <=> i = 3
  BY <1>2, <1>4, <1>5, <1>6
<1> QED
  BY <1>7, RouteTable DEF Matching, request

\* GET /conversion/{id}
LEMMA ConversionRoute ==
  ASSUME NEW id, NEW v2
  PROVE  Matching(Get(<<"conversion", id>>, v2)) = {4}
<1> DEFINE request == Get(<<"conversion", id>>, v2)
<1>1. /\ request.method = "GET" /\ Len(request.path) = 2 /\ DOMAIN request.path = {1, 2}
      /\ request.path[1] = "conversion" /\ request.path[2] = id
  BY DEF Get
<1> HIDE DEF request
<1>2. Matches(Routes[4], request)
  BY <1>1, RouteTable DEF Matches, Route
<1>3. \A i \in {3, 5} : Len(Routes[i].path) # 2
  BY RouteTable DEF Route
<1>4. \A i \in {1, 2} : ~Matches(Routes[i], request)
  BY <1>1, RouteTable DEF Matches
<1>5. \A i \in {3, 5} : ~Matches(Routes[i], request)
  BY <1>1, <1>3 DEF Matches
<1>6. \A i \in {6, 7, 8, 9, 10, 11, 12} : ~Matches(Routes[i], request)
  BY <1>1, RouteTable DEF Matches
<1>7. \A i \in 1 .. 12 : Matches(Routes[i], request) <=> i = 4
  BY <1>2, <1>4, <1>5, <1>6
<1> QED
  BY <1>7, RouteTable DEF Matching, request

\* GET /conversion/{id}/download
LEMMA DownloadRoute ==
  ASSUME NEW id, NEW v2
  PROVE  Matching(Get(<<"conversion", id, "download">>, v2)) = {5}
<1> DEFINE request == Get(<<"conversion", id, "download">>, v2)
<1>1. /\ request.method = "GET" /\ Len(request.path) = 3 /\ DOMAIN request.path = {1, 2, 3}
      /\ request.path[1] = "conversion" /\ request.path[2] = id /\ request.path[3] = "download"
  BY DEF Get
<1> HIDE DEF request
<1>2. Matches(Routes[5], request)
  BY <1>1, RouteTable DEF Matches, Route
<1>3. \A i \in {3, 4} : Len(Routes[i].path) # 3
  BY RouteTable DEF Route
<1>4. \A i \in {1, 2} : ~Matches(Routes[i], request)
  BY <1>1, RouteTable DEF Matches
<1>5. \A i \in {3, 4} : ~Matches(Routes[i], request)
  BY <1>1, <1>3 DEF Matches
<1>6. \A i \in {6, 7, 8, 9, 10, 11, 12} : ~Matches(Routes[i], request)
  BY <1>1, RouteTable DEF Matches
<1>7. \A i \in 1 .. 12 : Matches(Routes[i], request) <=> i = 5
  BY <1>2, <1>4, <1>5, <1>6
<1> QED
  BY <1>7, RouteTable DEF Matching, request

--------------------------------------------------------------------------------
\* The two routes of a POST.
LEMMA PostRoutes ==
  ASSUME NEW request, request.method = "POST"
  PROVE  /\ request.path = <<"conversion", "v2">> => Matching(request) = {1}
         /\ request.path = <<"conversion">> => Matching(request) = {2}
<1>1. \A i \in {3, 4, 5} : ~Matches(Routes[i], request)
  BY RouteTable DEF Matches, Route
<1>2. ASSUME request.path = <<"conversion", "v2">>
      PROVE  Matching(request) = {1}
  <2>1. Len(request.path) = 2 /\ DOMAIN request.path = {1, 2} /\ request.path[1] = "conversion"
    BY <1>2
  <2>2. \A i \in {6, 7, 8, 9, 10, 11, 12} : ~Matches(Routes[i], request)
    BY <2>1, RouteTable DEF Matches
  <2>3. Routes[2].path = <<"conversion">> /\ Routes[1].path = <<"conversion", "v2">>
    BY RouteTable DEF Route
  <2>4. ~Matches(Routes[2], request)
    BY <2>1, <2>3 DEF Matches
  <2>5. Matches(Routes[1], request)
    BY <1>2, <2>3, RouteTable DEF Matches
  <2>6. \A i \in 1 .. 12 : Matches(Routes[i], request) <=> i = 1
    BY <1>1, <2>2, <2>4, <2>5
  <2> QED
    BY <2>6, RouteTable DEF Matching
<1>3. ASSUME request.path = <<"conversion">>
      PROVE  Matching(request) = {2}
  <2>1. Len(request.path) = 1 /\ DOMAIN request.path = {1} /\ request.path[1] = "conversion"
    BY <1>3
  <2>2. \A i \in {6, 7, 8, 9, 10, 11, 12} : ~Matches(Routes[i], request)
    BY <2>1, RouteTable DEF Matches
  <2>3. Routes[2].path = <<"conversion">> /\ Routes[1].path = <<"conversion", "v2">>
    BY RouteTable DEF Route
  <2>4. ~Matches(Routes[1], request)
    BY <2>1, <2>3 DEF Matches
  <2>5. Matches(Routes[2], request)
    BY <1>3, <2>3, RouteTable DEF Matches
  <2>6. \A i \in 1 .. 12 : Matches(Routes[i], request) <=> i = 2
    BY <1>1, <2>2, <2>4, <2>5
  <2> QED
    BY <2>6, RouteTable DEF Matching
<1> QED
  BY <1>2, <1>3

\* A GET is answered with what the controller leaves.
LEMMA GetIsAnswered ==
  ASSUME NEW path, NEW v2 \in {"absent", "true", "false"}, NEW outcome, ~outcome.thrown,
         NEW n \in {3, 4, 5}, Matching(Get(path, v2)) = {n}
  PROVE  Serve(Get(path, v2), outcome) = Respond(outcome)
<1>1. RouteOf(Get(path, v2)) = Routes[n]
  BY OnlyRoute, RouteTable
<1>2. Routes[n].arguments \in {{}, {"query"}}
  BY RouteTable DEF Route
<1>3. Get(path, v2).v2 = v2
  BY DEF Get
<1>4. ArgumentsValid(Get(path, v2))
  BY <1>1, <1>2, <1>3 DEF ArgumentsValid
<1>5. Matching(Get(path, v2)) # {}
  OBVIOUS
<1> QED
  BY <1>4, <1>5 DEF Serve

LEMMA HandlersOfGets ==
  ASSUME NEW id, NEW v2
  PROVE  /\ RouteOf(Get(<<"conversion">>, v2)).handler = "getConversionQueueStatus"
         /\ RouteOf(Get(<<"conversion", id>>, v2)).handler = "getConvertedFile"
         /\ RouteOf(Get(<<"conversion", id, "download">>, v2)).handler
              = "getConvertedFileDownload"
BY QueueRoute, ConversionRoute, DownloadRoute, OnlyRoute, RouteTable DEF Route

\* What becomes of the result of a controller method.
LEMMA JsonAnswered ==
  ASSUME NEW status, NEW content
  PROVE  /\ ~Returns(status, Json(content)).thrown
         /\ Respond(Returns(status, Json(content)))
              = [status |-> IF status = 0 THEN 200 ELSE status, data |-> Json(content)]
BY DEF Respond, Returns, Json

LEMMA StreamAnswered ==
  ASSUME NEW status, NEW file
  PROVE  /\ ~Returns(status, Stream(file)).thrown
         /\ Respond(Returns(status, Stream(file))) = [status |-> 200, data |-> Stream(file)]
BY DEF Respond, Returns, Stream
================================================================================
