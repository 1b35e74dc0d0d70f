------------------------ MODULE SubscriptionRegistry ------------------------
(***************************************************************************)
(* The subscriptions: the requests of SubscriptionService                  *)
(* (src/application/subscription-service.ts) racing each other and the     *)
(* matching scan that every published event runs (matching.ts).            *)
(*                                                                         *)
(* A request is a coroutine: it runs without interruption up to its next   *)
(* await, a store call or the DNS lookup of the target guard.  Its pc      *)
(* names the await it is suspended at.  The id of a subscription is the    *)
(* POST that created it: the id generator never repeats one.  An event     *)
(* type is the sequence of its dot-separated pieces.                       *)
(***************************************************************************)
EXTENDS Naturals, Sequences

CONSTANTS
    Null,            \* the code's undefined, and an input that is not valid
    Pieces,          \* what clients write between the dots of a type
    Wildcard,        \* the piece "*"
    Types,           \* the event types clients write, valid or not
    Urls,            \* the target URLs clients write
    Creates,         \* POST /subscriptions
    Replaces,        \* PUT /subscriptions/:id
    Deletes,         \* DELETE /subscriptions/:id
    Publishes,       \* POST /events, down to the list of matching subscriptions
    LaggingScan,     \* a Scan may read old versions: DynamoDB, not the in-memory store
    MaxFaults,       \* bound: how many store calls reject
    MaxTime          \* bound: the last instant of the clock

(* A type is a sequence of pieces; no request is both a POST and a PUT.    *)
ASSUME RegistryAssumption ==
    /\ Types \subseteq Seq(Pieces)
    /\ Null \notin Types
    /\ Creates \cap Replaces = {}
    /\ MaxFaults \in Nat /\ MaxTime \in Nat
    /\ LaggingScan \in BOOLEAN

Ids     == Creates
Writers == Creates \cup Replaces

VARIABLES
    table,      \* the subscriptions table: id -> row or Null
    replica,    \* what a lagging Scan reads
    requests,   \* Writers -> the state of the request
    deleted,    \* Deletes -> its answer, Null before it
    gone,       \* the ids some DELETE has answered 204 for
    scans,      \* Publishes -> the state of its scan
    owed,       \* Publishes -> the ids that have matched at every instant of its scan
    now, faults

vars == <<table, replica, requests, deleted, gone, scans, owed, now, faults>>

Inputs == [type : Types, url : Urls]
Rows   == [id : Ids, eventType : Types, targetUrl : Urls, createdAt : 0..MaxTime,
           updatedAt : 0..MaxTime]

(* `read': what the request knew of the row it read, a row that a DELETE   *)
(* had already been answered for or one that was live.                     *)
RequestRecords ==
    [pc : {"idle", "guard", "save", "done"}, id : Ids \cup {Null},
     input : Inputs \cup {Null}, existing : Rows \cup {Null}, row : Rows \cup {Null},
     read : {"nothing", "live", "deleted"}, answer : {200, 201, 400, 404, 500, Null}]
ScanRecords ==
    [type : Types \cup {Null}, unread : SUBSET Ids, found : SUBSET Rows, gone : SUBSET Ids]

(* The code's undefined is not a row.                                      *)
ASSUME NullIsNoRow == Null \notin Rows

Idle   == [pc |-> "idle", id |-> Null, input |-> Null, existing |-> Null, row |-> Null,
           read |-> "nothing", answer |-> Null]
Unpublished == [type |-> Null, unread |-> {}, found |-> {}, gone |-> {}]

-----------------------------------------------------------------------------
(* Validation, and the two ways a row is made.                             *)

(* EVENT_TYPE_PATTERN: alphanumeric pieces only, so never a wildcard.      *)
validateEventType(type) == type # <<>> /\ \A i \in DOMAIN type : type[i] # Wildcard

(* The body, or Null when it does not validate.                            *)
parseSubscriptionInput(body) ==
    IF body # Null /\ validateEventType(body.type) THEN body ELSE Null

createSubscription(input, id) ==
    [id |-> id, eventType |-> input.type, targetUrl |-> input.url,
     createdAt |-> now, updatedAt |-> now]

(* Mutants: PUT stamps the creation time again; it keeps the old type; it  *)
(* drops the fields the body does not have.                                *)
replaceSubscription_Restamp(existing, input) ==
    [existing EXCEPT !.eventType = input.type, !.targetUrl = input.url,
                     !.createdAt = now, !.updatedAt = now]
replaceSubscription_Merge(existing, input) ==
    [existing EXCEPT !.targetUrl = input.url, !.updatedAt = now]
replaceSubscription_NoSpread(existing, input) ==
    [eventType |-> input.type, targetUrl |-> input.url, updatedAt |-> now]

replaceSubscription(existing, input) ==
    [existing EXCEPT !.eventType = input.type, !.targetUrl = input.url, !.updatedAt = now]

-----------------------------------------------------------------------------
(* Matching: as many pieces, each of them equal or a wildcard.             *)

Matches(eventType, type) ==
    /\ Len(eventType) = Len(type)
    /\ \A i \in DOMAIN type : eventType[i] \in {type[i], Wildcard}

(* The stored rows of type `type', as a set of ids.                        *)
MatchingIds(type) == {i \in Ids : table[i] # Null /\ Matches(table[i].eventType, type)}

-----------------------------------------------------------------------------
(* The store.  A write keeps track of the scans still owed the row.        *)

Write(id, row) ==
    /\ table' = [table EXCEPT ![id] = row]
    /\ owed' = [e \in Publishes |->
                   {i \in owed[e] : \/ i # id
                                    \/ row # Null /\ Matches(row.eventType, scans[e].type)}]

NoWrite == UNCHANGED <<table, owed>>

(* A store call that rejects; the row may have been written all the same.  *)
Fault == faults < MaxFaults /\ faults' = faults + 1

Answer(r, code) ==
    requests' = [requests EXCEPT ![r] = [@ EXCEPT !.pc = "done", !.answer = code]]

-----------------------------------------------------------------------------
Init ==
    /\ table    = [i \in Ids |-> Null]
    /\ replica  = [i \in Ids |-> Null]
    /\ requests = [r \in Writers |-> Idle]
    /\ deleted  = [d \in Deletes |-> Null]
    /\ gone     = {}
    /\ scans    = [e \in Publishes |-> Unpublished]
    /\ owed     = [e \in Publishes |-> {}]
    /\ now = 0
    /\ faults = 0

(* parseAndGuard up to the DNS lookup: 400, or wait for the guard.         *)
Parse(r, id, body, existing) ==
    LET input == parseSubscriptionInput(body)
    IN  requests' = [requests EXCEPT ![r] =
            [pc |-> IF input = Null THEN "done" ELSE "guard", id |-> id, input |-> input,
             existing |-> existing, row |-> Null,
             read   |-> IF id \in gone THEN "deleted" ELSE "live",
             answer |-> IF input = Null THEN 400 ELSE Null]]

Create(r, body) ==
    /\ requests[r].pc = "idle"
    /\ Parse(r, r, body, Null)
    /\ NoWrite
    /\ UNCHANGED <<replica, deleted, gone, scans, now, faults>>

(* PUT reads the row first: an unknown id is a 404 whatever the body.      *)
ReplaceGet(r, id, body) ==
    /\ requests[r].pc = "idle"
    /\ IF table[id] = Null THEN Answer(r, 404) ELSE Parse(r, id, body, table[id])
    /\ NoWrite
    /\ UNCHANGED <<replica, deleted, gone, scans, now, faults>>

ReplaceGetFails(r) ==
    /\ requests[r].pc = "idle"
    /\ Fault
    /\ Answer(r, 500)
    /\ NoWrite
    /\ UNCHANGED <<replica, deleted, gone, scans, now>>

(* The guard's verdict depends on DNS: it may differ from call to call.    *)
GuardBlocks(r) ==
    /\ requests[r].pc = "guard"
    /\ Answer(r, 400)
    /\ NoWrite
    /\ UNCHANGED <<replica, deleted, gone, scans, now, faults>>

(* The row is stamped here and sent: the store applies it later.           *)
GuardAllows(r) ==
    /\ requests[r].pc = "guard"
    /\ requests' = [requests EXCEPT ![r] =
           [@ EXCEPT !.pc  = "save",
                     !.row = IF r \in Creates
                             THEN createSubscription(requests[r].input, requests[r].id)
                             ELSE replaceSubscription(requests[r].existing, requests[r].input)]]
    /\ NoWrite
    /\ UNCHANGED <<replica, deleted, gone, scans, now, faults>>

(* An unconditional put of the whole row, 201 or 200.                      *)
Save(r) ==
    /\ requests[r].pc = "save"
    /\ Write(requests[r].id, requests[r].row)
    /\ Answer(r, IF r \in Creates THEN 201 ELSE 200)
    /\ UNCHANGED <<replica, deleted, gone, scans, now, faults>>

SaveFails(r) ==
    /\ requests[r].pc = "save"
    /\ Fault
    /\ Write(requests[r].id, requests[r].row) \/ NoWrite
    /\ Answer(r, 500)
    /\ UNCHANGED <<replica, deleted, gone, scans, now>>

(* Mutant: the answer is 204 whether or not the row existed.               *)
Delete_Blind(d, id) ==
    /\ deleted[d] = Null
    /\ deleted' = [deleted EXCEPT ![d] = [id |-> id, answer |-> 204]]
    /\ gone' = gone \cup {id}
    /\ Write(id, Null)
    /\ UNCHANGED <<replica, requests, scans, now, faults>>

(* Mutant: the answer does not wait for the store.                         *)
Delete_NotAwaited(d, id) ==
    /\ deleted[d] = Null
    /\ deleted' = [deleted EXCEPT ![d] =
                      [id |-> id, answer |-> IF table[id] = Null THEN 404 ELSE 204]]
    /\ gone' = IF table[id] = Null THEN gone ELSE gone \cup {id}
    /\ NoWrite
    /\ UNCHANGED <<replica, requests, scans, now, faults>>

(* One atomic call: DeleteItem answers whether the row existed.            *)
Delete(d, id) ==
    /\ deleted[d] = Null
    /\ deleted' = [deleted EXCEPT ![d] =
                      [id |-> id, answer |-> IF table[id] = Null THEN 404 ELSE 204]]
    /\ gone' = IF table[id] = Null THEN gone ELSE gone \cup {id}
    /\ Write(id, Null)
    /\ UNCHANGED <<replica, requests, scans, now, faults>>

DeleteFails(d, id) ==
    /\ deleted[d] = Null
    /\ Fault
    /\ deleted' = [deleted EXCEPT ![d] = [id |-> id, answer |-> 500]]
    /\ Write(id, Null) \/ NoWrite
    /\ UNCHANGED <<replica, requests, gone, scans, now>>

-----------------------------------------------------------------------------
(* A published event has passed parseEventInput, and lists the whole table. *)
Publish(e, type) ==
    /\ scans[e].type = Null
    /\ validateEventType(type)
    /\ scans' = [scans EXCEPT ![e] =
                    [type |-> type, unread |-> Ids, found |-> {}, gone |-> gone]]
    /\ owed' = [owed EXCEPT ![e] = MatchingIds(type)]
    /\ UNCHANGED <<table, replica, requests, deleted, gone, now, faults>>

(* Mutant: the scan does not ask for the next page.                        *)
ScanRow_FirstPage(e, id) ==
    /\ id \in scans[e].unread
    /\ table[id] # Null
    /\ scans' = [scans EXCEPT ![e] =
           [@ EXCEPT !.unread = {},
                     !.found  = IF Matches(table[id].eventType, scans[e].type)
                                THEN {table[id]} ELSE {}]]
    /\ UNCHANGED <<table, replica, requests, deleted, gone, owed, now, faults>>

(* The pages of a Scan are read one after the other, each at an instant of *)
(* its own; DynamoDB may serve an old version of a row (no ConsistentRead).*)
ScanRow(e, id) ==
    LET row == IF LaggingScan THEN replica[id] ELSE table[id]
    IN  /\ id \in scans[e].unread
        /\ scans' = [scans EXCEPT ![e] =
               [@ EXCEPT !.unread = scans[e].unread \ {id},
                         !.found  = IF row # Null /\ Matches(row.eventType, scans[e].type)
                                    THEN scans[e].found \cup {row} ELSE scans[e].found]]
        /\ UNCHANGED <<table, replica, requests, deleted, gone, owed, now, faults>>

Replicate(id) ==
    /\ LaggingScan
    /\ replica' = [replica EXCEPT ![id] = table[id]]
    /\ UNCHANGED <<table, requests, deleted, gone, scans, owed, now, faults>>

Tick ==
    /\ now < MaxTime
    /\ now' = now + 1
    /\ UNCHANGED <<table, replica, requests, deleted, gone, scans, owed, faults>>

Next ==
    \/ \E r \in Creates, body \in Inputs \cup {Null} : Create(r, body)
    \/ \E r \in Replaces, id \in Ids, body \in Inputs \cup {Null} : ReplaceGet(r, id, body)
    \/ \E r \in Replaces : ReplaceGetFails(r)
    \/ \E r \in Writers : GuardBlocks(r)
    \/ \E r \in Writers : GuardAllows(r)
    \/ \E r \in Writers : Save(r)
    \/ \E r \in Writers : SaveFails(r)
    \/ \E d \in Deletes, id \in Ids : Delete(d, id)
    \/ \E d \in Deletes, id \in Ids : DeleteFails(d, id)
    \/ \E e \in Publishes, type \in Types : Publish(e, type)
    \/ \E e \in Publishes, id \in Ids : ScanRow(e, id)
    \/ \E id \in Ids : Replicate(id)
    \/ Tick

Spec == Init /\ [][Next]_vars

-----------------------------------------------------------------------------
TypeOK ==
    /\ table   \in [Ids -> Rows \cup {Null}]
    /\ replica \in [Ids -> Rows \cup {Null}]
    /\ requests \in [Writers -> RequestRecords]
    /\ deleted \in [Deletes -> [id : Ids, answer : {204, 404, 500}] \cup {Null}]
    /\ gone \subseteq Ids
    /\ scans \in [Publishes -> ScanRecords]
    /\ owed \in [Publishes -> SUBSET Ids]
    /\ now \in 0..MaxTime
    /\ faults \in 0..MaxFaults

(* PUT keeps the creation time (subscription.ts:64): a row that exists has *)
(* the one its POST gave it, even when racing PUTs and DELETEs took it out *)
(* of the table and put it back.                                           *)
CreatedAtIsKept ==
    \A i \in Ids : table[i] # Null =>
        /\ requests[i].row # Null
        /\ table[i].createdAt = requests[i].row.createdAt

(* A row holds the type and the URL of one request, addressed to its own   *)
(* id, whose URL the guard let through: races never mix the fields of two  *)
(* requests nor store a target nobody vetted.                              *)
RowsAreWhole ==
    \A i \in Ids : table[i] # Null =>
        \E r \in Writers :
            /\ requests[r].pc \in {"save", "done"}
            /\ requests[r].row # Null
            /\ requests[r].id = i
            /\ requests[r].input = [type |-> table[i].eventType, url |-> table[i].targetUrl]

(* A deleted subscription is back in the table only when a PUT that read   *)
(* its row before the DELETE saved it after: a PUT that comes later than   *)
(* the 204 never brings it back on its own ("nothing to upsert").          *)
ResurrectionNeedsRace ==
    \A i \in gone : table[i] # Null =>
        \E r \in Replaces :
            requests[r].id = i /\ requests[r].read = "live" /\ requests[r].row # Null

(* Two DELETEs of one subscription are not both answered 204.              *)
DeletedOnce ==
    \A d1, d2 \in Deletes :
        /\ d1 # d2 /\ deleted[d1] # Null /\ deleted[d2] # Null
        /\ deleted[d1].answer = 204 /\ deleted[d2].answer = 204
        => deleted[d1].id # deleted[d2].id

(* docs/1 - spec.md:106: a deleted subscription is not among those found   *)
(* by an event published after the answer to the DELETE.                   *)
NoDeliveryAfterDelete ==
    \A e \in Publishes : \A row \in scans[e].found : row.id \notin scans[e].gone

(* A subscription that matches from the publish to the end of the scan is  *)
(* found, whatever is created, replaced or deleted meanwhile.              *)
NoMatchMissed ==
    \A e \in Publishes :
        scans[e].type # Null /\ scans[e].unread = {} =>
            \A i \in owed[e] : \E row \in scans[e].found : row.id = i

(* Without PUTs and on a store whose Scan is consistent the races cannot be *)
(* told from single instants: a subscription opens once and is closed for  *)
(* good, also by a DELETE whose call rejected after it was applied, which  *)
(* answers 500.                                                            *)
Closed == {i \in Ids : table[i] = Null /\ requests[i].pc = "done"}

Removed ==
    [d \in Deletes |->
        IF deleted[d] # Null /\ deleted[d].answer = 204 THEN deleted[d].id ELSE Null]

FoundRows == [e \in Publishes |-> scans[e].found]

Lifecycle == INSTANCE SubscriptionLifecycle WITH
    over <- Closed, removed <- Removed, found <- FoundRows

ImplementsLifecycle == Lifecycle!Spec

-----------------------------------------------------------------------------
(* Why they hold.  Each part is a fact about the two sides of an await.    *)

Working(r) == requests[r].pc \in {"guard", "save"}

(* A request past its validation addresses a subscription, and a POST      *)
(* addresses its own.                                                      *)
Addressed(r) ==
    /\ Working(r) \/ requests[r].row # Null =>
           /\ requests[r].id \in Ids
           /\ requests[r].input \in Inputs
           /\ validateEventType(requests[r].input.type)
    /\ r \in Creates /\ requests[r].pc # "idle" => requests[r].id = r

(* The row it will save is made of its own input, and of the creation time *)
(* the POST stamped.                                                       *)
RowMade(r) ==
    /\ requests[r].pc = "save" => requests[r].row # Null
    /\ requests[r].row # Null =>
           /\ requests[r].pc \in {"save", "done"}
           /\ requests[r].row.id = requests[r].id
           /\ requests[r].row.eventType = requests[r].input.type
           /\ requests[r].row.targetUrl = requests[r].input.url
           /\ requests[requests[r].id].row # Null
           /\ requests[r].row.createdAt = requests[requests[r].id].row.createdAt

(* A PUT got past its read because the POST of the row was over; a late    *)
(* one because some other PUT had already raced the DELETE.                *)
RacedBack(i) ==
    \E r \in Replaces :
        requests[r].id = i /\ requests[r].read = "live" /\ requests[r].row # Null

ReadOfRow(r) ==
    Working(r) =>
        /\ requests[requests[r].id].pc = "done"
        /\ requests[r].existing # Null
        /\ requests[r].existing.id = requests[r].id
        /\ requests[requests[r].id].row # Null
        /\ requests[r].existing.createdAt = requests[requests[r].id].row.createdAt
        /\ \/ requests[r].read = "live"
           \/ RacedBack(requests[r].id)

RequestsSound ==
    /\ \A r \in Writers : Addressed(r) /\ RowMade(r)
    /\ \A r \in Replaces : ReadOfRow(r)

(* The POST of a stored or deleted row is over; stored types are valid.    *)
StoredRows ==
    /\ \A i \in Ids : table[i] # Null => requests[i].pc = "done"
    /\ \A i \in gone : requests[i].pc = "done"
    /\ \A i \in Ids : table[i] # Null =>
           table[i].id = i /\ validateEventType(table[i].eventType)
    /\ \A i \in Ids : replica[i] # Null => validateEventType(replica[i].eventType)

ScansTyped ==
    \A e \in Publishes : scans[e].type = Null => scans[e].unread = {} /\ scans[e].found = {}

(* No subscription is ever found by its wildcard.  matching.ts honours it  *)
(* and matching.test.ts 135-205 requires "order.*" to match, on rows put   *)
(* straight into the store; but validation.ts refuses the type to every    *)
(* client, so what is found has the very type of the event.                *)
WildcardIsUnused ==
    \A e \in Publishes : \A row \in scans[e].found : row.eventType = scans[e].type

(* The inductive invariant of the proofs: what the requests in progress,   *)
(* the table, its copy and the scans know of each other.                   *)
RInv ==
    /\ TypeOK
    /\ RequestsSound
    /\ StoredRows
    /\ ScansTyped
    /\ WildcardIsUnused
    /\ CreatedAtIsKept
    /\ RowsAreWhole
    /\ ResurrectionNeedsRace
=============================================================================
