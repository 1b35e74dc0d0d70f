---------------------------- MODULE HttpRequest ----------------------------
(***************************************************************************)
(* The life of one HTTP request in src/http/server.ts: its body arrives in *)
(* events of the stream, in any chunking, while handleRequest reads it,    *)
(* routes it, calls a handler and answers.                                 *)
(*                                                                         *)
(* Requests share no state in the server, so there is one.  What a handler *)
(* does is Dispatcher's and SubscriptionRegistry's concern: here it        *)
(* returns or throws.                                                      *)
(***************************************************************************)
EXTENDS Router

CONSTANTS
    Requests,   \* of [method, path, target, content]
    MaxBody,    \* MAX_REQUEST_BODY_BYTES
    MaxSent,    \* bound: the longest body a client sends
    MaxChunk    \* bound: the longest chunk of it

ASSUME HttpAssumption == MaxBody \in Nat /\ MaxSent \in Nat /\ MaxChunk \in Nat

VARIABLES
    request,   \* the request that is under way
    stream,    \* "open", "ended" or, if the connection is lost, "lost"
    sent,      \* bytes of the body that have arrived
    size,      \* readBody: the bytes counted
    buffered,  \* readBody: the bytes in chunks
    tooLarge,  \* readBody
    body,      \* readBody's promise: "pending", "whole", "tooLarge" or "lost"
    stage,     \* of handleRequest
    handler,   \* the handler that was called,
    params,    \*   the parameters it was given,
    seen,      \*   and the bytes of the body it was given
    status,    \* the status answered, 0 before
    allow,     \* the methods of the Allow header
    thrown     \* what handleRequest's catch block caught

readVars   == <<sent, size, buffered, tooLarge, body>>
calledVars == <<handler, params, seen>>
answerVars == <<status, allow, thrown>>
vars == <<request, stream, readVars, stage, calledVars, answerVars>>

NoParams == [name \in {} |-> ""]
Segments == splitPath(request.path)

(* What a handler answers, and what its service may throw.                 *)
Returns(h) ==
    CASE h = "subscriptions.create" -> {201}
      [] h = "subscriptions.delete" -> {204}
      [] h = "events.ingest"        -> {202}
      [] h = "openapi"              -> {200, 503}
      [] OTHER                      -> {200}
Throws(h) ==
    (IF h \in {"health", "openapi", "docs"} THEN {} ELSE {"Error"})
    \cup (IF h \in NeedsId THEN {"ResourceNotFoundError"} ELSE {})
    \cup (IF h \in {"subscriptions.create", "subscriptions.replace", "events.ingest",
                    "deliveries.list"}
          THEN {"ValidationError"} ELSE {})

toErrorResponse(error) ==
    CASE error = "ValidationError"       -> 400
      [] error = "ResourceNotFoundError" -> 404
      [] OTHER                           -> 500

-----------------------------------------------------------------------------
Init ==
    /\ request \in Requests
    /\ stream = "open"
    /\ sent = 0 /\ size = 0 /\ buffered = 0
    /\ tooLarge = FALSE
    /\ body = "pending"
    /\ stage = "new"
    /\ handler = "none" /\ params = NoParams /\ seen = 0
    /\ status = 0 /\ allow = {} /\ thrown = "none"

(* handleRequest begins: new URL throws for a target it cannot parse,      *)
(* outside of the try block, and the promise nobody awaits rejects.        *)
Begin ==
    /\ stage = "new"
    /\ stage' = IF request.target = "parsable" THEN "reading" ELSE "rejected"
    /\ UNCHANGED <<request, stream, readVars, calledVars, answerVars>>

(* The stream flows once readBody has its listeners on it.                 *)
Flows == stream = "open" /\ stage \notin {"new", "rejected"}

(* Mutants: a chunk is buffered before the count is looked at; the promise *)
(* of a body that is too large does not resolve.                           *)
Data_BufferFirst(n) ==
    /\ Flows /\ sent + n <= MaxSent
    /\ sent' = sent + n
    /\ IF tooLarge THEN UNCHANGED <<size, buffered, tooLarge, body>>
       ELSE /\ size' = size + n
            /\ buffered' = buffered + n
            /\ IF size' > MaxBody THEN tooLarge' = TRUE /\ body' = "tooLarge"
               ELSE UNCHANGED <<tooLarge, body>>
    /\ UNCHANGED <<request, stream, stage, calledVars, answerVars>>

Data_NoResolve(n) ==
    /\ Flows /\ sent + n <= MaxSent
    /\ sent' = sent + n
    /\ IF tooLarge THEN UNCHANGED <<size, buffered, tooLarge>>
       ELSE /\ size' = size + n
            /\ IF size' > MaxBody THEN tooLarge' = TRUE /\ UNCHANGED buffered
               ELSE buffered' = buffered + n /\ UNCHANGED tooLarge
    /\ UNCHANGED <<request, stream, body, stage, calledVars, answerVars>>

(* The body is too large: nothing more of it is buffered, and the promise  *)
(* resolves, but the socket is drained.                                    *)
Data(n) ==
    /\ Flows /\ sent + n <= MaxSent
    /\ sent' = sent + n
    /\ IF tooLarge THEN UNCHANGED <<size, buffered, tooLarge, body>>
       ELSE /\ size' = size + n
            /\ IF size' > MaxBody
               THEN tooLarge' = TRUE /\ body' = "tooLarge" /\ UNCHANGED buffered
               ELSE buffered' = buffered + n /\ UNCHANGED <<tooLarge, body>>
    /\ UNCHANGED <<request, stream, stage, calledVars, answerVars>>

End ==
    /\ Flows
    /\ stream' = "ended"
    /\ body' = IF tooLarge THEN body ELSE "whole"
    /\ UNCHANGED <<request, sent, size, buffered, tooLarge, stage, calledVars, answerVars>>

(* Mutant: a lost connection ends the body.                                *)
Lost_Resolves ==
    /\ Flows
    /\ stream' = "lost"
    /\ body' = IF body = "pending" THEN "whole" ELSE body
    /\ UNCHANGED <<request, sent, size, buffered, tooLarge, stage, calledVars, answerVars>>
Lost ==
    /\ Flows
    /\ stream' = "lost"
    /\ body' = IF body = "pending" THEN "lost" ELSE body
    /\ UNCHANGED <<request, sent, size, buffered, tooLarge, stage, calledVars, answerVars>>

-----------------------------------------------------------------------------
(* route: the continuation of readBody, in the order of its returns.       *)

Answer(code, methods, error) ==
    /\ stage' = "answered"
    /\ status' = code /\ allow' = methods /\ thrown' = error
    /\ UNCHANGED <<request, stream, readVars, calledVars>>

RefuseTooLarge == stage = "reading" /\ body = "tooLarge" /\ Answer(413, {}, "none")

BodyLost ==
    /\ stage = "reading" /\ body = "lost"
    /\ Answer(toErrorResponse("ConnectionLost"), {}, "ConnectionLost")

HasBody == stage = "reading" /\ body = "whole"
IsJson  == buffered = 0 \/ request.content = "json"
Target  == methodMatch(request.method, Segments)

(* Mutant: the SyntaxError of JSON.parse is not caught by route.           *)
RefuseNotJson_Uncaught ==
    HasBody /\ ~IsJson /\ Answer(toErrorResponse("SyntaxError"), {}, "SyntaxError")
RefuseNotJson == HasBody /\ ~IsJson /\ Answer(400, {}, "none")

RefuseUnknown == HasBody /\ IsJson /\ pathMatches(Segments) = {} /\ Answer(404, {}, "none")

RefuseMethod ==
    /\ HasBody /\ IsJson
    /\ pathMatches(Segments) # {} /\ methodMatches(request.method, Segments) = {}
    /\ Answer(405, allowed(Segments), "none")

RefuseUndecodable ==
    /\ HasBody /\ IsJson
    /\ methodMatches(request.method, Segments) # {}
    /\ extractParamsThrows(Routes[Target].segments, Segments)
    /\ Answer(toErrorResponse("URIError"), {}, "URIError")

CallHandler ==
    /\ HasBody /\ IsJson
    /\ methodMatches(request.method, Segments) # {}
    /\ ~extractParamsThrows(Routes[Target].segments, Segments)
    /\ handler' = Routes[Target].handler
    /\ params' = extractParams(Routes[Target].segments, Segments)
    /\ seen' = buffered
    /\ stage' = "handling"
    /\ UNCHANGED <<request, stream, readVars, answerVars>>

(* requiredParam throws an Error for a parameter that was not captured.    *)
HasParam == ":id" \in DOMAIN params /\ params[":id"] # ""
MissesParam == handler \in NeedsId /\ ~HasParam

HandlerReturns ==
    /\ stage = "handling" /\ ~MissesParam
    /\ \E code \in Returns(handler) : Answer(code, {}, "none")

HandlerThrows ==
    /\ stage = "handling"
    /\ \E error \in IF MissesParam THEN {"MissingParam"} ELSE Throws(handler) :
           Answer(toErrorResponse(error), {}, error)

Next ==
    \/ Begin
    \/ \E n \in 1..MaxChunk : Data(n)
    \/ End
    \/ Lost
    \/ RefuseTooLarge
    \/ BodyLost
    \/ RefuseNotJson
    \/ RefuseUnknown
    \/ RefuseMethod
    \/ RefuseUndecodable
    \/ CallHandler
    \/ HandlerReturns
    \/ HandlerThrows

(* The server's own steps happen, handlers come to an end, and a request   *)
(* does not stay open forever: Node cuts it off after its requestTimeout.  *)
Fairness ==
    /\ WF_vars(Begin)
    /\ WF_vars(End \/ Lost)
    /\ WF_vars(RefuseTooLarge \/ BodyLost \/ RefuseNotJson \/ RefuseUnknown \/ RefuseMethod
               \/ RefuseUndecodable \/ CallHandler)
    /\ WF_vars(HandlerReturns \/ HandlerThrows)

Spec     == Init /\ [][Next]_vars
FairSpec == Spec /\ Fairness

-----------------------------------------------------------------------------
TypeOK ==
    /\ request \in Requests
    /\ stream \in {"open", "ended", "lost"}
    /\ sent \in 0..MaxSent /\ size \in 0..MaxSent /\ buffered \in 0..MaxSent
    /\ tooLarge \in BOOLEAN
    /\ body \in {"pending", "whole", "tooLarge", "lost"}
    /\ stage \in {"new", "rejected", "reading", "handling", "answered"}
    /\ handler \in Handlers \cup {"none"}
    /\ DOMAIN params \subseteq Parameters
    /\ seen \in 0..MaxSent
    /\ status \in {0, 200, 201, 202, 204, 400, 404, 405, 413, 500, 503}
    /\ allow \subseteq {Routes[i].method : i \in DOMAIN Routes}
    /\ thrown \in {"none", "ValidationError", "ResourceNotFoundError", "Error", "URIError",
                   "ConnectionLost"}

(* readBody: whatever the chunks, a handler is only ever given the whole   *)
(* body of a request that ended and fits the limit, never a part of one.   *)
HandlerSeesWholeBody ==
    handler # "none" => stream = "ended" /\ seen = sent /\ sent <= MaxBody

(* readBody stops buffering at the limit: it never holds more than that.   *)
BufferIsBounded == buffered <= MaxBody

(* What a reader of the API takes for the segments of a path.              *)
NonEmpty(path) == SelectSeq(path, LAMBDA segment : segment # "")

(* requiredParam: "a missing value here is a routing bug": a handler that  *)
(* needs an id is only called with one, and it is the last of the path.    *)
IdIsFromThePath ==
    handler \in NeedsId =>
        /\ HasParam
        /\ params[":id"] = decodeURIComponent(NonEmpty(request.path)[Len(NonEmpty(request.path))])

(* docs/10: "every input error is a validated 4xx": a 500 tells of a fault *)
(* of the service or of a connection that was lost, never of bad input.    *)
FaultsAreInternal == status = 500 => thrown \in {"Error", "ConnectionLost"}

(* handleRequest answers every request whose target new URL can parse,     *)
(* however its body comes and whatever its handler throws (server.ts       *)
(* 41-55); what rejects outside of its try block it does not answer.       *)
EveryRequestAnswered == stage = "new" ~> stage = "answered"
=============================================================================
