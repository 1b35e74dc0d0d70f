---------------------------- MODULE TableSchema -----------------------------
(***************************************************************************)
(* The shapes of the DynamoDB tables, table-schema.ts, and what a          *)
(* secondary index holds of a table.  Every table has the key "id".        *)
(***************************************************************************)
EXTENDS Integers

-----------------------------------------------------------------------------
(* The time of creation is the sort key because every delivery has one.    *)
timeSortedGsi(name, hash) ==
    [name |-> name, hash |-> hash, range |-> "createdAt"]

SubscriptionIndexes ==
    {[name |-> "eventType-index", hash |-> "eventType", range |-> "id"]}

DeliveryIndexes ==
    {timeSortedGsi("eventId-index", "eventId"),
     timeSortedGsi("subscriptionId-index", "subscriptionId"),
     timeSortedGsi("status-index", "status")}

(* The tables in the order in which they are created.                      *)
tableDefinitions(config) ==
    <<[name    |-> config.DYNAMODB_SUBSCRIPTIONS_TABLE,
       indexes |-> SubscriptionIndexes],
      [name    |-> config.DYNAMODB_EVENTS_TABLE,
       indexes |-> {}],
      [name    |-> config.DYNAMODB_DELIVERIES_TABLE,
       indexes |-> DeliveryIndexes]>>

(* The indexes that the repository of each table queries, by the attribute *)
(* that the query gives.                                                   *)
QueriedIndexes ==
    <<{<<"eventType-index", "eventType">>},
      {},
      {<<"eventId-index", "eventId">>,
       <<"subscriptionId-index", "subscriptionId">>,
       <<"status-index", "status">>}>>

(* A table can serve the queries made to it.                               *)
Serves(indexes, queries) ==
    \A query \in queries :
        \E index \in indexes : index.name = query[1] /\ index.hash = query[2]
=============================================================================
