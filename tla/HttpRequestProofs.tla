------------------------- MODULE HttpRequestProofs -------------------------
(***************************************************************************)
(* Proofs about HttpRequest, for every value of its constants: every set   *)
(* of requests, limit and chunking.                                        *)
(***************************************************************************)
EXTENDS HttpRequest, TLAPS

(* What routes with the same number of segments differ by.                 *)
Key(i) == <<Routes[i].method, Len(Routes[i].segments), Routes[i].segments[1]>>

LEMMA KeysDiffer ==
    /\ DOMAIN Routes = 1..12
    /\ \A i \in 1..12 : Len(Routes[i].segments) \in {1, 2}
    /\ \A i \in 1..12 : Routes[i].segments[1] \notin Parameters
    /\ \A i, j \in 1..12 : Key(i) = Key(j) => i = j
<1>1. DOMAIN Routes = 1..12
  BY DEF Routes
<1>2. \A i \in 1..12 : Len(Routes[i].segments) \in {1, 2}
  BY DEF Routes, Route
<1>3. \A i \in 1..12 : Routes[i].segments[1] \notin Parameters
  BY DEF Routes, Route, Parameters
<1>4. \A i, j \in 1..12 : Key(i) = Key(j) => i = j
  <2>1. /\ Key(1) = <<"GET", 1, "health">>     /\ Key(2) = <<"POST", 1, "subscriptions">>
        /\ Key(3) = <<"GET", 1, "subscriptions">>  /\ Key(4) = <<"GET", 2, "subscriptions">>
        /\ Key(5) = <<"PUT", 2, "subscriptions">>  /\ Key(6) = <<"DELETE", 2, "subscriptions">>
    BY DEF Routes, Route, Key
  <2>2. /\ Key(7) = <<"POST", 1, "events">>     /\ Key(8) = <<"GET", 2, "events">>
        /\ Key(9) = <<"GET", 1, "deliveries">>  /\ Key(10) = <<"GET", 2, "deliveries">>
        /\ Key(11) = <<"GET", 1, "openapi.yaml">> /\ Key(12) = <<"GET", 1, "docs">>
    BY DEF Routes, Route, Key
  <2> QED
    BY <2>1, <2>2
<1> QED
  BY <1>1, <1>2, <1>3, <1>4

(* router.match: no path and method fit two routes, so the order in which  *)
(* the routes are registered does not matter.                              *)
THEOREM RoutesAreDisjoint ==
    ASSUME NEW method, NEW segments,
           NEW i \in methodMatches(method, segments), NEW j \in methodMatches(method, segments)
    PROVE  i = j
<1>1. i \in 1..12 /\ j \in 1..12
  BY KeysDiffer DEF methodMatches, pathMatches
<1>2. Routes[i].method = method /\ Routes[j].method = method
  BY DEF methodMatches
<1>3. segmentsMatch(Routes[i].segments, segments) /\ segmentsMatch(Routes[j].segments, segments)
  BY DEF methodMatches, pathMatches
<1>4. Len(Routes[i].segments) = Len(Routes[j].segments)
  BY <1>3 DEF segmentsMatch
<1>5. Routes[i].segments[1] = segments[1] /\ Routes[j].segments[1] = segments[1]
  <2>1. 1 \in 1..Len(Routes[i].segments) /\ 1 \in 1..Len(Routes[j].segments)
    <3>1. Len(Routes[i].segments) \in {1, 2} /\ Len(Routes[j].segments) \in {1, 2}
      BY <1>1, KeysDiffer
    <3>2. \A n \in {1, 2} : 1 \in 1..n
      OBVIOUS
    <3> QED
      BY <3>1, <3>2, Zenon
  <2>2. Routes[i].segments[1] \notin Parameters /\ Routes[j].segments[1] \notin Parameters
    BY <1>1, KeysDiffer
  <2> QED
    BY <1>3, <2>1, <2>2 DEF segmentsMatch
<1>6. Key(i) = Key(j)
  BY <1>2, <1>4, <1>5 DEF Key
<1> QED
  BY <1>1, <1>6, KeysDiffer

(* find finds one of the routes that fit.                                  *)
LEMMA TargetMatches ==
    ASSUME NEW method, NEW segments, methodMatches(method, segments) # {}
    PROVE  methodMatch(method, segments) \in methodMatches(method, segments)
<1>1. PICK i \in methodMatches(method, segments) : TRUE
  OBVIOUS
<1>2. i \in 1..12
  BY KeysDiffer DEF methodMatches, pathMatches
<1>3. \A j \in methodMatches(method, segments) : i <= j
  BY <1>2, RoutesAreDisjoint
<1> QED
  BY <1>1, <1>3 DEF methodMatch

-----------------------------------------------------------------------------
(* While the body is not too large everything that arrived is buffered.    *)
ReadInv ==
    /\ sent \in Nat /\ size \in Nat /\ buffered \in Nat
    /\ buffered <= MaxBody
    /\ ~tooLarge => size = sent /\ buffered = sent
    /\ body = "whole" => stream = "ended" /\ ~tooLarge
    /\ handler # "none" => body = "whole" /\ seen = buffered

LEMMA ReadInvStep == ReadInv /\ [Next]_vars => ReadInv'
<1> SUFFICES ASSUME ReadInv, [Next]_vars PROVE ReadInv'
  OBVIOUS
<1> USE HttpAssumption
<1>1. ASSUME NEW n \in 1..MaxChunk, Data(n) PROVE ReadInv'
  <2>1. UNCHANGED <<request, stream, stage, handler, params, seen>>
    BY <1>1 DEF Data, calledVars
  <2>2. stream = "open" /\ n \in Nat /\ sent' = sent + n
    BY <1>1 DEF Data, Flows
  <2>3. CASE tooLarge
    BY <1>1, <2>1, <2>2, <2>3 DEF Data, ReadInv
  <2>4. CASE ~tooLarge
    <3>1. size = sent /\ buffered = sent /\ size' = sent' /\ body # "whole" /\ sent' \in Nat
      BY <1>1, <2>2, <2>4 DEF Data, ReadInv
    <3>2. CASE size' > MaxBody
      <4>1. tooLarge' /\ body' = "tooLarge" /\ buffered' = buffered
        BY <1>1, <2>4, <3>2 DEF Data
      <4> QED
        BY <2>1, <3>1, <4>1 DEF ReadInv
    <3>3. CASE ~(size' > MaxBody)
      <4>1. (tooLarge' <=> tooLarge) /\ body' = body /\ buffered' = buffered + n
        BY <1>1, <2>4, <3>3 DEF Data
      <4> QED
        BY <2>1, <2>2, <2>4, <3>1, <3>3, <4>1 DEF ReadInv
    <3> QED
      BY <3>2, <3>3
  <2> QED
    BY <2>3, <2>4
<1>2. CASE End
  BY <1>2 DEF End, Flows, ReadInv, calledVars
<1>3. CASE Lost
  BY <1>3 DEF Lost, Flows, ReadInv, calledVars
<1>4. CASE Begin
  BY <1>4 DEF Begin, ReadInv, readVars, calledVars
<1>5. CASE CallHandler
  BY <1>5 DEF CallHandler, HasBody, ReadInv, readVars
<1>6. ASSUME NEW code, NEW methods, NEW error, Answer(code, methods, error) PROVE ReadInv'
  BY <1>6 DEF Answer, ReadInv, readVars, calledVars
<1>7. CASE RefuseTooLarge \/ BodyLost \/ RefuseNotJson \/ RefuseUnknown \/ RefuseMethod
           \/ RefuseUndecodable \/ HandlerReturns \/ HandlerThrows
  BY <1>6, <1>7
  DEF RefuseTooLarge, BodyLost, RefuseNotJson, RefuseUnknown, RefuseMethod,
      RefuseUndecodable, HandlerReturns, HandlerThrows
<1>8. CASE UNCHANGED vars
  BY <1>8 DEF vars, ReadInv, readVars, calledVars
<1> QED
  BY <1>1, <1>2, <1>3, <1>4, <1>5, <1>7, <1>8 DEF Next

LEMMA ReadInvInit == Init => ReadInv
BY HttpAssumption DEF Init, ReadInv

(* A handler is given the whole body of a request that ended and fits the  *)
(* limit, in whatever chunks it came.                                      *)
THEOREM BodyIsWhole == Spec => []HandlerSeesWholeBody
<1>1. ReadInv => HandlerSeesWholeBody
  BY DEF ReadInv, HandlerSeesWholeBody
<1> QED
  BY <1>1, ReadInvInit, ReadInvStep, PTL DEF Spec

(* readBody never holds more than the limit.                               *)
THEOREM BufferIsCapped == Spec => []BufferIsBounded
<1>1. ReadInv => BufferIsBounded
  BY DEF ReadInv, BufferIsBounded
<1> QED
  BY <1>1, ReadInvInit, ReadInvStep, PTL DEF Spec

-----------------------------------------------------------------------------
LEMMA RoutesCapture ==
    \A i \in 1..12 :
        Routes[i].handler \in NeedsId => 2 \in Captured(Routes[i].segments)
                                         /\ Routes[i].segments[2] = ":id"
BY DEF Routes, Route, NeedsId, Captured, Parameters

(* No handler misses its id, and what is caught is accounted for.          *)
FaultInv ==
    /\ handler \in NeedsId => HasParam
    /\ status = 500 => thrown \in {"Error", "ConnectionLost"}

LEMMA HandlerGetsParam == CallHandler /\ handler' \in NeedsId => HasParam'
<1> SUFFICES ASSUME CallHandler, handler' \in NeedsId PROVE HasParam'
  OBVIOUS
<1> DEFINE route == Routes[Target].segments
<1>1. Target \in 1..12 /\ segmentsMatch(route, Segments) /\ handler' = Routes[Target].handler
  <2>1. Target \in methodMatches(request.method, Segments)
    BY TargetMatches DEF CallHandler, Target
  <2> QED
    BY <2>1, KeysDiffer DEF methodMatches, pathMatches, CallHandler
<1>2. 2 \in Captured(route) /\ route[2] = ":id"
  BY <1>1, RoutesCapture
<1> DEFINE at == CHOOSE i \in Captured(route) : route[i] = ":id"
<1>3. at \in Captured(route) /\ route[at] = ":id"
  BY <1>2
<1> HIDE DEF at
<1>4. Segments[at] # ""
  BY <1>1, <1>3 DEF Captured, segmentsMatch
<1>5. decodeURIComponent(Segments[at]) # ""
  BY <1>4, RouterAssumption DEF decodeURIComponent
<1>6. params' = extractParams(route, Segments)
  BY DEF CallHandler
<1>7. ":id" \in DOMAIN params' /\ params'[":id"] = decodeURIComponent(Segments[at])
  BY <1>2, <1>6 DEF extractParams, at
<1> QED
  BY <1>5, <1>7 DEF HasParam

LEMMA FaultInvStep == Undecodable = {} /\ FaultInv /\ [Next]_vars => FaultInv'
<1> SUFFICES ASSUME Undecodable = {}, FaultInv, [Next]_vars PROVE FaultInv'
  OBVIOUS
<1>1. CASE CallHandler
  BY <1>1, HandlerGetsParam DEF CallHandler, FaultInv, answerVars
<1>2. ASSUME NEW code, NEW methods, NEW error, Answer(code, methods, error),
             code = 500 => error \in {"Error", "ConnectionLost"}
      PROVE  FaultInv'
  BY <1>2 DEF Answer, FaultInv, HasParam, calledVars
<1>3. CASE HandlerReturns
  <2>1. PICK code \in Returns(handler) : Answer(code, {}, "none")
    BY <1>3 DEF HandlerReturns
  <2>2. code # 500
    BY DEF Returns
  <2> QED
    BY <1>2, <2>1, <2>2
<1>4. CASE HandlerThrows
  <2>1. ~MissesParam
    BY DEF MissesParam, FaultInv
  <2>2. PICK error \in Throws(handler) : Answer(toErrorResponse(error), {}, error)
    BY <1>4, <2>1 DEF HandlerThrows
  <2>3. toErrorResponse(error) = 500 => error = "Error"
    BY DEF toErrorResponse, Throws
  <2> QED
    BY <1>2, <2>2, <2>3
<1>5. CASE RefuseTooLarge \/ RefuseNotJson \/ RefuseUnknown \/ RefuseMethod
  BY <1>2, <1>5 DEF RefuseTooLarge, RefuseNotJson, RefuseUnknown, RefuseMethod
<1>6. CASE BodyLost
  BY <1>2, <1>6 DEF BodyLost
<1>7. ~RefuseUndecodable
  BY DEF RefuseUndecodable, extractParamsThrows
<1>8. CASE Begin \/ End \/ Lost \/ (\E n \in 1..MaxChunk : Data(n)) \/ UNCHANGED vars
  BY <1>8 DEF Begin, End, Lost, Data, vars, calledVars, answerVars, FaultInv, HasParam
<1> QED
  BY <1>1, <1>3, <1>4, <1>5, <1>6, <1>7, <1>8 DEF Next

(* With parameters that can be decoded, a 500 is never the answer to bad   *)
(* input: not even requiredParam throws.                                   *)
THEOREM InputIsNoFault ==
    ASSUME Undecodable = {}
    PROVE  Spec => []FaultsAreInternal
<1>1. Init => FaultInv
  BY DEF Init, FaultInv, NeedsId
<1>2. FaultInv /\ [Next]_vars => FaultInv'
  BY FaultInvStep
<1>3. FaultInv => FaultsAreInternal
  BY DEF FaultInv, FaultsAreInternal
<1> QED
  BY <1>1, <1>2, <1>3, PTL DEF Spec

-----------------------------------------------------------------------------
(* The routes of the handlers that need an id end in it.                   *)
LEMMA RoutesCaptureTheLast ==
    \A i \in 1..12 :
        Routes[i].handler \in NeedsId =>
            /\ Len(Routes[i].segments) = 2
            /\ Captured(Routes[i].segments) = {2}
            /\ Routes[i].segments[2] = ":id"
<1> SUFFICES ASSUME NEW i \in 1..12, Routes[i].handler \in NeedsId
             PROVE  /\ Len(Routes[i].segments) = 2
                    /\ Captured(Routes[i].segments) = {2}
                    /\ Routes[i].segments[2] = ":id"
  OBVIOUS
<1>1. i \in {4, 5, 6, 8, 10}
  BY DEF Routes, Route, NeedsId
<1>2. \E s : Routes[i].segments = <<s, ":id">> /\ s # ":id"
  BY <1>1 DEF Routes, Route
<1>3. PICK s : Routes[i].segments = <<s, ":id">> /\ s # ":id"
  BY <1>2
<1>4. Len(<<s, ":id">>) = 2 /\ <<s, ":id">>[1] = s /\ <<s, ":id">>[2] = ":id"
  OBVIOUS
<1>5. Captured(<<s, ":id">>) = {2}
  BY <1>3, <1>4 DEF Captured, Parameters
<1> QED
  BY <1>3, <1>4, <1>5

(* A handler that needs an id is called with the last segment of the path, *)
(* decoded, whatever slashes are in the path (router.ts 81-119).           *)
LEMMA HandlerGetsTheId == CallHandler /\ handler' \in NeedsId => IdIsFromThePath'
<1> SUFFICES ASSUME CallHandler, handler' \in NeedsId PROVE IdIsFromThePath'
  OBVIOUS
<1> DEFINE route == Routes[Target].segments
<1>1. Target \in 1..12 /\ segmentsMatch(route, Segments) /\ handler' = Routes[Target].handler
  <2>1. Target \in methodMatches(request.method, Segments)
    BY TargetMatches DEF CallHandler, Target
  <2> QED
    BY <2>1, KeysDiffer DEF methodMatches, pathMatches, CallHandler
<1>2. Len(route) = 2 /\ Captured(route) = {2} /\ route[2] = ":id"
  BY <1>1, RoutesCaptureTheLast
<1>3. Len(Segments) = 2
  BY <1>1, <1>2 DEF segmentsMatch
<1>4. (CHOOSE i \in Captured(route) : route[i] = ":id") = 2
  BY <1>2
<1>5. params'[":id"] = decodeURIComponent(Segments[2])
  <2>1. params' = extractParams(route, Segments)
    BY DEF CallHandler
  <2>2. ":id" \in {route[i] : i \in Captured(route)}
    BY <1>2
  <2> QED
    BY <1>4, <2>1, <2>2 DEF extractParams
<1>6. request' = request /\ NonEmpty(request.path) = Segments
  BY DEF CallHandler, NonEmpty, Segments, splitPath
<1> QED
  BY <1>3, <1>5, <1>6, HandlerGetsParam DEF IdIsFromThePath

(* No request is handled under an id other than the one in its path.       *)
THEOREM IdsComeFromThePath == Spec => []IdIsFromThePath
<1>1. Init => IdIsFromThePath
  BY DEF Init, IdIsFromThePath, NeedsId
<1>2. IdIsFromThePath /\ [Next]_vars => IdIsFromThePath'
  <2> SUFFICES ASSUME IdIsFromThePath, [Next]_vars PROVE IdIsFromThePath'
    OBVIOUS
  <2>1. CASE CallHandler
    BY <2>1, HandlerGetsTheId DEF IdIsFromThePath
  <2>2. ASSUME UNCHANGED <<request, handler, params>> PROVE IdIsFromThePath'
    BY <2>2 DEF IdIsFromThePath, HasParam
  <2>3. ASSUME NEW code, NEW methods, NEW error, Answer(code, methods, error)
        PROVE  IdIsFromThePath'
    BY <2>2, <2>3 DEF Answer, calledVars
  <2>4. CASE RefuseTooLarge \/ BodyLost \/ RefuseNotJson \/ RefuseUnknown \/ RefuseMethod
             \/ RefuseUndecodable \/ HandlerReturns \/ HandlerThrows
    BY <2>3, <2>4
    DEF RefuseTooLarge, BodyLost, RefuseNotJson, RefuseUnknown, RefuseMethod,
        RefuseUndecodable, HandlerReturns, HandlerThrows
  <2>5. CASE Begin \/ End \/ Lost \/ (\E n \in 1..MaxChunk : Data(n)) \/ UNCHANGED vars
    BY <2>2, <2>5 DEF Begin, End, Lost, Data, vars, calledVars
  <2> QED
    BY <2>1, <2>4, <2>5 DEF Next
<1> QED
  BY <1>1, <1>2, PTL DEF Spec

-----------------------------------------------------------------------------
(* The type of what an answer writes, and of what a handler is given; the  *)
(* list of errors has no MissingParam: no route leads a handler to it.     *)
HttpTypeInv ==
    /\ TypeOK
    /\ ReadInv
    /\ handler \in NeedsId => HasParam

LEMMA AnswerTyped ==
    ASSUME HttpTypeInv, NEW code, NEW methods, NEW error, Answer(code, methods, error),
           code \in {200, 201, 202, 204, 400, 404, 405, 413, 500, 503},
           methods \subseteq {Routes[i].method : i \in DOMAIN Routes},
           error \in {"none", "ValidationError", "ResourceNotFoundError", "Error", "URIError",
                     "ConnectionLost"}
    PROVE  TypeOK' /\ (handler \in NeedsId => HasParam)'
<1>1. UNCHANGED <<request, stream, sent, size, buffered, tooLarge, body, handler, params, seen>>
  BY DEF Answer, readVars, calledVars
<1>2. stage' = "answered" /\ status' = code /\ allow' = methods /\ thrown' = error
  BY DEF Answer
<1>3. (handler \in NeedsId => HasParam)'
  BY <1>1 DEF HttpTypeInv, HasParam
<1>4. status' \in {0, 200, 201, 202, 204, 400, 404, 405, 413, 500, 503}
  BY <1>2
<1>5. /\ allow' \subseteq {Routes[i].method : i \in DOMAIN Routes}
      /\ thrown' \in {"none", "ValidationError", "ResourceNotFoundError", "Error", "URIError",
                     "ConnectionLost"}
  BY <1>2
<1>6. stage' \in {"new", "rejected", "reading", "handling", "answered"}
  BY <1>2
<1> QED
  BY <1>1, <1>3, <1>4, <1>5, <1>6 DEF HttpTypeInv, TypeOK

LEMMA DataTyped == ASSUME HttpTypeInv, NEW n \in 1..MaxChunk, Data(n) PROVE TypeOK'
<1> USE HttpAssumption
<1>1. UNCHANGED <<request, stream, stage, handler, params, seen, status, allow, thrown>>
  BY DEF Data, calledVars, answerVars
<1>2. n \in Nat /\ sent \in Nat /\ sent' = sent + n /\ sent' \in 0..MaxSent
  BY DEF Data, HttpTypeInv, TypeOK
<1>3. /\ size' \in 0..MaxSent /\ buffered' \in 0..MaxSent
      /\ tooLarge' \in BOOLEAN /\ body' \in {"pending", "whole", "tooLarge", "lost"}
  <2>1. CASE tooLarge
    BY <2>1 DEF Data, HttpTypeInv, TypeOK
  <2>2. CASE ~tooLarge
    <3>1. size = sent /\ buffered = sent
      BY <2>2 DEF HttpTypeInv, ReadInv
    <3>2. size' = sent' /\ buffered' \in {buffered, sent'}
      BY <1>2, <2>2, <3>1 DEF Data
    <3>3. buffered \in 0..MaxSent
      BY DEF HttpTypeInv, TypeOK
    <3>4. tooLarge' \in BOOLEAN /\ body' \in {"pending", "whole", "tooLarge", "lost"}
      BY <2>2 DEF Data, HttpTypeInv, TypeOK
    <3> QED
      BY <1>2, <3>2, <3>3, <3>4
  <2> QED
    BY <2>1, <2>2
<1> QED
  BY <1>1, <1>2, <1>3 DEF HttpTypeInv, TypeOK

LEMMA CallTyped == HttpTypeInv /\ CallHandler => TypeOK'
<1> SUFFICES ASSUME HttpTypeInv, CallHandler PROVE TypeOK'
  OBVIOUS
<1> DEFINE route == Routes[Target].segments
<1>1. handler' \in Handlers
  <2>1. Target \in methodMatches(request.method, Segments)
    BY TargetMatches DEF CallHandler, Target
  <2> QED
    BY <2>1 DEF methodMatches, pathMatches, CallHandler, Handlers
<1>2. DOMAIN params' \subseteq Parameters
  <2>1. DOMAIN params' = {route[i] : i \in Captured(route)}
    BY DEF CallHandler, extractParams
  <2>2. {route[i] : i \in Captured(route)} \subseteq Parameters
    BY DEF Captured
  <2> QED
    BY <2>1, <2>2
<1>3. /\ UNCHANGED <<request, stream, sent, size, buffered, tooLarge, body, status, allow, thrown>>
      /\ seen' = buffered /\ stage' = "handling"
  BY DEF CallHandler, readVars, answerVars
<1> QED
  BY <1>1, <1>2, <1>3 DEF HttpTypeInv, TypeOK

LEMMA HttpTypeInvStep == HttpTypeInv /\ [Next]_vars => HttpTypeInv'
<1> SUFFICES ASSUME HttpTypeInv, [Next]_vars PROVE HttpTypeInv'
  OBVIOUS
<1>1. ReadInv'
  BY ReadInvStep DEF HttpTypeInv
<1>2. ASSUME TypeOK', UNCHANGED <<handler, params>> PROVE HttpTypeInv'
  BY <1>1, <1>2 DEF HttpTypeInv, HasParam
<1>3. ASSUME TypeOK', (handler \in NeedsId => HasParam)' PROVE HttpTypeInv'
  BY <1>1, <1>3 DEF HttpTypeInv
<1>4. CASE Begin
  BY <1>2, <1>4 DEF Begin, HttpTypeInv, TypeOK, readVars, calledVars, answerVars
<1>5. CASE \E n \in 1..MaxChunk : Data(n)
  BY <1>2, <1>5, DataTyped DEF Data, calledVars
<1>6. CASE End
  BY <1>2, <1>6 DEF End, HttpTypeInv, TypeOK, calledVars, answerVars
<1>7. CASE Lost
  BY <1>2, <1>7 DEF Lost, HttpTypeInv, TypeOK, calledVars, answerVars
<1>8. CASE RefuseTooLarge \/ BodyLost \/ RefuseNotJson \/ RefuseUnknown \/ RefuseUndecodable
  <2>1. toErrorResponse("ConnectionLost") = 500 /\ toErrorResponse("URIError") = 500
    BY DEF toErrorResponse
  <2>2. \E code \in {400, 404, 413, 500}, error \in {"none", "ConnectionLost", "URIError"} :
            Answer(code, {}, error)
    BY <1>8, <2>1
    DEF RefuseTooLarge, BodyLost, RefuseNotJson, RefuseUnknown, RefuseUndecodable
  <2> QED
    BY <1>3, <2>2, AnswerTyped
<1>9. CASE RefuseMethod
  <2>1. allowed(Segments) \subseteq {Routes[i].method : i \in DOMAIN Routes}
    BY DEF allowed, pathMatches
  <2> QED
    BY <1>3, <1>9, <2>1, AnswerTyped DEF RefuseMethod
<1>10. CASE CallHandler
  BY <1>3, <1>10, CallTyped, HandlerGetsParam
<1>11. CASE HandlerReturns
  <2>1. PICK code \in Returns(handler) : Answer(code, {}, "none")
    BY <1>11 DEF HandlerReturns
  <2>2. code \in {200, 201, 202, 204, 503}
    BY DEF Returns
  <2> QED
    BY <1>3, <2>1, <2>2, AnswerTyped
<1>12. CASE HandlerThrows
  <2>1. ~MissesParam
    BY DEF MissesParam, HttpTypeInv
  <2>2. PICK error \in Throws(handler) : Answer(toErrorResponse(error), {}, error)
    BY <1>12, <2>1 DEF HandlerThrows
  <2>3. error \in {"Error", "ResourceNotFoundError", "ValidationError"}
    BY DEF Throws
  <2>4. toErrorResponse(error) \in {400, 404, 500}
    BY DEF toErrorResponse
  <2> QED
    BY <1>3, <2>2, <2>3, <2>4, AnswerTyped
<1>13. CASE UNCHANGED vars
  BY <1>2, <1>13 DEF vars, HttpTypeInv, TypeOK, readVars, calledVars, answerVars
<1> QED
  BY <1>4, <1>5, <1>6, <1>7, <1>8, <1>9, <1>10, <1>11, <1>12, <1>13 DEF Next

(* A request is only ever answered with the statuses, methods and errors   *)
(* the server knows; requiredParam's own error is not one of them: "a      *)
(* missing value here is a routing bug", and there is none.                *)
THEOREM HttpTypes == Spec => []TypeOK
<1>1. Init => HttpTypeInv
  <2>1. Init => TypeOK
    <3> SUFFICES ASSUME Init PROVE TypeOK
      OBVIOUS
    <3>1. DOMAIN params \subseteq Parameters
      BY DEF Init, NoParams
    <3>2. allow \subseteq {Routes[i].method : i \in DOMAIN Routes}
      BY DEF Init
    <3>3. 0 \in 0..MaxSent
      BY HttpAssumption
    <3> QED
      BY <3>1, <3>2, <3>3 DEF Init, TypeOK
  <2> QED
    BY <2>1, ReadInvInit DEF Init, HttpTypeInv, NeedsId
<1>2. HttpTypeInv => TypeOK
  BY DEF HttpTypeInv
<1> QED
  BY <1>1, <1>2, HttpTypeInvStep, PTL DEF Spec
=============================================================================
