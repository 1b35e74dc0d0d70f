------------------------------- MODULE Router -------------------------------
(***************************************************************************)
(* The router of the HTTP API (src/http/router.ts) and the routes that     *)
(* buildApplication registers in it (src/http/handlers).  A path is the sequence  *)
(* of what stands between its slashes, "" where two slashes meet.          *)
(***************************************************************************)
EXTENDS Naturals, Sequences

CONSTANTS
    Decoded,     \* percent-encoded segment -> what decodeURIComponent makes of it
    Undecodable  \* the segments decodeURIComponent throws URIError for

ASSUME RouterAssumption ==
    /\ "" \notin {Decoded[segment] : segment \in DOMAIN Decoded}
    /\ "" \notin Undecodable /\ Undecodable \cap DOMAIN Decoded = {}

Parameters == {":id"}

Route(method, segments, handler) ==
    [method |-> method, segments |-> segments, handler |-> handler]

(* In the order of registration, which find respects.                      *)
Routes == <<
    Route("GET",    <<"health">>,               "health"),
    Route("POST",   <<"subscriptions">>,        "subscriptions.create"),
    Route("GET",    <<"subscriptions">>,        "subscriptions.list"),
    Route("GET",    <<"subscriptions", ":id">>, "subscriptions.get"),
    Route("PUT",    <<"subscriptions", ":id">>, "subscriptions.replace"),
    Route("DELETE", <<"subscriptions", ":id">>, "subscriptions.delete"),
    Route("POST",   <<"events">>,               "events.ingest"),
    Route("GET",    <<"events", ":id">>,        "events.getById"),
    Route("GET",    <<"deliveries">>,           "deliveries.list"),
    Route("GET",    <<"deliveries", ":id">>,    "deliveries.get"),
    Route("GET",    <<"openapi.yaml">>,         "openapi"),
    Route("GET",    <<"docs">>,                 "docs") >>

Handlers == {Routes[i].handler : i \in DOMAIN Routes}

(* The handlers that call requiredParam(context, 'id').                    *)
NeedsId == {"subscriptions.get", "subscriptions.replace", "subscriptions.delete",
            "events.getById", "deliveries.get"}

splitPath(path) == SelectSeq(path, LAMBDA segment : segment # "")

segmentsMatch(route, segments) ==
    /\ Len(route) = Len(segments)
    /\ \A i \in 1..Len(route) :
           IF route[i] \in Parameters THEN segments[i] # "" ELSE route[i] = segments[i]

pathMatches(segments) ==
    {i \in DOMAIN Routes : segmentsMatch(Routes[i].segments, segments)}

allowed(segments) == {Routes[i].method : i \in pathMatches(segments)}

methodMatches(method, segments) == {i \in pathMatches(segments) : Routes[i].method = method}

(* find: the first of them.                                                *)
methodMatch(method, segments) ==
    CHOOSE i \in methodMatches(method, segments) :
        \A j \in methodMatches(method, segments) : i <= j

(* The positions of the parameters, and their values in the path.          *)
Captured(route) == {i \in 1..Len(route) : route[i] \in Parameters}

decodeURIComponent(segment) ==
    IF segment \in DOMAIN Decoded THEN Decoded[segment] ELSE segment

extractParamsThrows(route, segments) == \E i \in Captured(route) : segments[i] \in Undecodable

(* Mutant: the value of a parameter is taken one segment too early.        *)
extractParams_OffByOne(route, segments) ==
    [name \in {route[i] : i \in Captured(route)} |->
        decodeURIComponent(segments[(CHOOSE i \in Captured(route) : route[i] = name) - 1])]

extractParams(route, segments) ==
    [name \in {route[i] : i \in Captured(route)} |->
        decodeURIComponent(segments[CHOOSE i \in Captured(route) : route[i] = name])]
=============================================================================
