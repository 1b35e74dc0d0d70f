-------------------------- MODULE DeliveryQueries ---------------------------
(***************************************************************************)
(* The lists of deliveries: GET /deliveries with its filter, and the two   *)
(* lists of the recovery sweep, as InMemoryDeliveryRepository computes     *)
(* them and as DynamoDeliveryRepository does, through indexes that leave   *)
(* out an item without their sort key.  A table is a set of rows; time is  *)
(* a number.  The indexes are taken as up to date; Recovery has the lag.   *)
(***************************************************************************)
EXTENDS TableSchema, TLAPS

CONSTANTS Null, DeliveryIds, EventIds, SubscriptionIds

Statuses == {"pending", "delivering", "delivered", "failed"}

(* Null is no value of a field.                                            *)
NullIsApart ==
    Null \notin Int \cup EventIds \cup SubscriptionIds \cup Statuses

(* createDelivery gives every row an event, a subscription, a status and a *)
(* time of creation; the other two times are null in some statuses.        *)
Deliveries ==
    [id             : DeliveryIds,
     eventId        : EventIds,
     subscriptionId : SubscriptionIds,
     status         : Statuses,
     createdAt      : Int,
     nextAttemptAt  : Int \cup {Null},
     lastAttemptAt  : Int \cup {Null}]

(* A filter gives a value or Null (undefined) for each of its fields.      *)
Filters ==
    [eventId        : EventIds \cup {Null},
     subscriptionId : SubscriptionIds \cup {Null},
     status         : Statuses \cup {Null}]

-----------------------------------------------------------------------------
(* What an index holds of a table, and what a query of it answers.         *)
Projection(index, table) ==
    {row \in table : row[index.hash] # Null /\ row[index.range] # Null}

queryIndex(index, value, table) ==
    {row \in Projection(index, table) : row[index.hash] = value}

Satisfies(row, filter) ==
    /\ filter.eventId = Null \/ row.eventId = filter.eventId
    /\ filter.subscriptionId = Null \/ row.subscriptionId = filter.subscriptionId
    /\ filter.status = Null \/ row.status = filter.status

EventIdIndex == timeSortedGsi("eventId-index", "eventId")
SubscriptionIdIndex == timeSortedGsi("subscriptionId-index", "subscriptionId")
StatusIndex == timeSortedGsi("status-index", "status")

(* One index is queried, or the table scanned, by the first field given.   *)
queryByBestIndex(filter, table) ==
    IF filter.eventId # Null
    THEN queryIndex(EventIdIndex, filter.eventId, table)
    ELSE IF filter.subscriptionId # Null
    THEN queryIndex(SubscriptionIdIndex, filter.subscriptionId, table)
    ELSE IF filter.status # Null
    THEN queryIndex(StatusIndex, filter.status, table)
    ELSE table

(* Over DynamoDB the fields that are left are compared afterwards.         *)
listOverDynamo(filter, table) ==
    {row \in queryByBestIndex(filter, table) : Satisfies(row, filter)}

listInMemory(filter, table) == {row \in table : Satisfies(row, filter)}

dueOverDynamo(now, table) ==
    {row \in queryIndex(StatusIndex, "pending", table) :
        row.nextAttemptAt # Null /\ row.nextAttemptAt <= now}

dueInMemory(now, table) ==
    {row \in table :
        row.status = "pending" /\ row.nextAttemptAt # Null /\ row.nextAttemptAt <= now}

stuckOverDynamo(before, table) ==
    {row \in queryIndex(StatusIndex, "delivering", table) :
        row.lastAttemptAt # Null /\ row.lastAttemptAt <= before}

stuckInMemory(before, table) ==
    {row \in table :
        /\ row.status = "delivering"
        /\ row.lastAttemptAt # Null /\ row.lastAttemptAt <= before}

-----------------------------------------------------------------------------
(* Sorted by createdAt, an index leaves no row out, whatever its status    *)
(* (dynamodb-repositories.ts 14-19).                                       *)
LEMMA NothingIsHidden ==
    ASSUME NullIsApart, NEW table \in SUBSET Deliveries, NEW index \in DeliveryIndexes
    PROVE  Projection(index, table) = table
<1> SUFFICES ASSUME NEW row \in table
             PROVE  row[index.hash] # Null /\ row[index.range] # Null
    BY DEF Projection
<1>1. /\ row.eventId # Null /\ row.subscriptionId # Null
      /\ row.status # Null /\ row.createdAt # Null
    BY DEF NullIsApart, Deliveries
<1>2. index.range = "createdAt"
    BY DEF DeliveryIndexes, timeSortedGsi
<1>3. index.hash \in {"eventId", "subscriptionId", "status"}
    BY DEF DeliveryIndexes, timeSortedGsi
<1> QED  BY <1>1, <1>2, <1>3

(* A query of an index answers the rows that have the value, all of them.  *)
LEMMA QueryIsAFilter ==
    ASSUME NullIsApart, NEW table \in SUBSET Deliveries, NEW value
    PROVE  /\ queryIndex(EventIdIndex, value, table)
                 = {row \in table : row.eventId = value}
           /\ queryIndex(SubscriptionIdIndex, value, table)
                 = {row \in table : row.subscriptionId = value}
           /\ queryIndex(StatusIndex, value, table)
                 = {row \in table : row.status = value}
<1>1. \A index \in {EventIdIndex, SubscriptionIdIndex, StatusIndex} :
          Projection(index, table) = table
    BY NothingIsHidden
    DEF DeliveryIndexes, EventIdIndex, SubscriptionIdIndex, StatusIndex
<1>2. /\ EventIdIndex.hash = "eventId"
      /\ SubscriptionIdIndex.hash = "subscriptionId"
      /\ StatusIndex.hash = "status"
    BY DEF EventIdIndex, SubscriptionIdIndex, StatusIndex, timeSortedGsi
<1> QED  BY <1>1, <1>2 DEF queryIndex

(* The answer to GET /deliveries does not depend on where the rows are, nor*)
(* on which index the filter made the query take (163-184 and 71-80).      *)
THEOREM ListsAgree ==
    ASSUME NullIsApart, NEW table \in SUBSET Deliveries, NEW filter \in Filters
    PROVE  listOverDynamo(filter, table) = listInMemory(filter, table)
<1>1. CASE filter.eventId # Null
    BY <1>1, QueryIsAFilter
    DEF listOverDynamo, listInMemory, queryByBestIndex, Satisfies
<1>2. CASE filter.eventId = Null /\ filter.subscriptionId # Null
    BY <1>2, QueryIsAFilter
    DEF listOverDynamo, listInMemory, queryByBestIndex, Satisfies
<1>3. CASE /\ filter.eventId = Null /\ filter.subscriptionId = Null
           /\ filter.status # Null
    BY <1>3, QueryIsAFilter
    DEF listOverDynamo, listInMemory, queryByBestIndex, Satisfies
<1>4. CASE /\ filter.eventId = Null /\ filter.subscriptionId = Null
           /\ filter.status = Null
    BY <1>4 DEF listOverDynamo, listInMemory, queryByBestIndex
<1> QED  BY <1>1, <1>2, <1>3, <1>4

(* The sweep finds the same rows over both stores: none that is stuck or   *)
(* due is missing from the status index (142-161 and 90-114).              *)
THEOREM SweepFindsTheSameRows ==
    ASSUME NullIsApart, NEW table \in SUBSET Deliveries, NEW now \in Int
    PROVE  /\ dueOverDynamo(now, table) = dueInMemory(now, table)
           /\ stuckOverDynamo(now, table) = stuckInMemory(now, table)
<1>1. dueOverDynamo(now, table) = dueInMemory(now, table)
    BY QueryIsAFilter DEF dueOverDynamo, dueInMemory
<1>2. stuckOverDynamo(now, table) = stuckInMemory(now, table)
    BY QueryIsAFilter DEF stuckOverDynamo, stuckInMemory
<1> QED  BY <1>1, <1>2
=============================================================================
