-------------------- MODULE SubscriptionRegistryProofs ----------------------
(***************************************************************************)
(* Proofs about SubscriptionRegistry, for every value of its constants:    *)
(* RInv is inductive, so its parts hold in every reachable state.          *)
(***************************************************************************)
EXTENDS SubscriptionRegistry, TLAPS

(* A type without a wildcard matches only itself.                          *)
LEMMA ExactWithoutWildcard ==
    ASSUME NEW t \in Types, NEW u \in Types, validateEventType(t), Matches(t, u)
    PROVE  t = u
<1>1. t \in Seq(Pieces) /\ u \in Seq(Pieces)
  BY RegistryAssumption
<1>2. Len(t) = Len(u) /\ DOMAIN t = DOMAIN u
  BY <1>1 DEF Matches
<1>3. \A i \in DOMAIN u : t[i] = u[i]
  BY <1>2 DEF Matches, validateEventType
<1> QED
  BY <1>1, <1>2, <1>3

LEMMA RInvInit == Init => RInv
<1> SUFFICES ASSUME Init PROVE RInv
  OBVIOUS
<1> USE DEF Init
<1>1. TypeOK
  BY RegistryAssumption
  DEF TypeOK, Idle, Unpublished, RequestRecords, ScanRecords
<1>2. RequestsSound
  BY RegistryAssumption
  DEF RequestsSound, Addressed, RowMade, ReadOfRow, Working, Idle, Writers, Ids
<1>3. StoredRows /\ ScansTyped /\ WildcardIsUnused
  BY DEF StoredRows, ScansTyped, WildcardIsUnused, Unpublished
<1>4. CreatedAtIsKept /\ RowsAreWhole /\ ResurrectionNeedsRace
  BY DEF CreatedAtIsKept, RowsAreWhole, ResurrectionNeedsRace
<1> QED
  BY <1>1, <1>2, <1>3, <1>4 DEF RInv

-----------------------------------------------------------------------------
(* Types.                                                                  *)

LEMMA WriteTyped ==
    ASSUME TypeOK, NEW id \in Ids, NEW row \in Rows \cup {Null}, Write(id, row)
    PROVE  /\ table' \in [Ids -> Rows \cup {Null}]
           /\ owed' \in [Publishes -> SUBSET Ids]
BY DEF TypeOK, Write

LEMMA AnswerTyped ==
    ASSUME TypeOK, NEW r \in Writers, NEW code \in {200, 201, 400, 404, 500}, Answer(r, code)
    PROVE  requests' \in [Writers -> RequestRecords]
<1>1. requests[r] \in RequestRecords
  BY DEF TypeOK
<1> DEFINE q == [requests[r] EXCEPT !.pc = "done"]
<1>2. q \in RequestRecords
  BY <1>1 DEF RequestRecords
<1>3. requests' = [requests EXCEPT ![r] = [q EXCEPT !.answer = code]]
  BY DEF Answer
<1> HIDE DEF q
<1>4. [q EXCEPT !.answer = code] \in RequestRecords
  BY <1>2 DEF RequestRecords
<1> QED
  BY <1>3, <1>4 DEF TypeOK

LEMMA ParseTyped ==
    ASSUME TypeOK, NEW r \in Writers, NEW id \in Ids, NEW body \in Inputs \cup {Null},
           NEW existing \in Rows \cup {Null}, Parse(r, id, body, existing)
    PROVE  requests' \in [Writers -> RequestRecords]
<1> DEFINE input == parseSubscriptionInput(body)
           new == [pc |-> IF input = Null THEN "done" ELSE "guard", id |-> id,
                   input |-> input, existing |-> existing, row |-> Null,
                   read |-> IF id \in gone THEN "deleted" ELSE "live",
                   answer |-> IF input = Null THEN 400 ELSE Null]
<1>1. input \in Inputs \cup {Null}
  BY DEF parseSubscriptionInput
<1>2. new \in RequestRecords
  <2> HIDE DEF input
  <2> QED
    BY <1>1 DEF RequestRecords
<1>3. requests' = [requests EXCEPT ![r] = new]
  BY DEF Parse
<1> HIDE DEF new
<1> QED
  BY <1>2, <1>3 DEF TypeOK

LEMMA TypeStep == RInv /\ [Next]_vars => TypeOK'
<1> SUFFICES ASSUME RInv, [Next]_vars PROVE TypeOK'
  OBVIOUS
<1> USE DEF RInv
<1>1. ASSUME NEW r \in Creates, NEW body \in Inputs \cup {Null}, Create(r, body)
      PROVE  TypeOK'
  <2>1. requests' \in [Writers -> RequestRecords]
    BY <1>1, ParseTyped DEF Create, Ids, Writers
  <2> QED
    BY <1>1, <2>1 DEF TypeOK, Create, NoWrite
<1>2. ASSUME NEW r \in Replaces, NEW id \in Ids, NEW body \in Inputs \cup {Null},
             ReplaceGet(r, id, body)
      PROVE  TypeOK'
  <2>1. requests' \in [Writers -> RequestRecords]
    <3>1. CASE table[id] = Null
      <4>1. Answer(r, 404)
        BY <1>2, <3>1 DEF ReplaceGet
      <4> QED
        BY <4>1, AnswerTyped DEF Writers
    <3>2. CASE table[id] # Null
      <4>1. table[id] \in Rows \cup {Null}
        BY DEF TypeOK
      <4> QED
        BY <1>2, <3>2, <4>1, ParseTyped DEF ReplaceGet, Writers
    <3> QED
      BY <3>1, <3>2
  <2> QED
    BY <1>2, <2>1 DEF TypeOK, ReplaceGet, NoWrite
<1>3. ASSUME NEW r \in Replaces, ReplaceGetFails(r) PROVE TypeOK'
  <2>1. requests' \in [Writers -> RequestRecords]
    BY <1>3, AnswerTyped DEF ReplaceGetFails, Writers
  <2> QED
    BY <1>3, <2>1, RegistryAssumption DEF TypeOK, ReplaceGetFails, Fault, NoWrite
<1>4. ASSUME NEW r \in Writers, GuardBlocks(r) PROVE TypeOK'
  <2>1. requests' \in [Writers -> RequestRecords]
    BY <1>4, AnswerTyped DEF GuardBlocks
  <2> QED
    BY <1>4, <2>1 DEF TypeOK, GuardBlocks, NoWrite
<1>5. ASSUME NEW r \in Writers, GuardAllows(r) PROVE TypeOK'
  <2> DEFINE row == IF r \in Creates
                    THEN createSubscription(requests[r].input, requests[r].id)
                    ELSE replaceSubscription(requests[r].existing, requests[r].input)
  <2>1. row \in Rows
    <3>1. requests[r].id \in Ids /\ requests[r].input \in Inputs
      BY <1>5 DEF RequestsSound, Addressed, Working, GuardAllows
    <3>2. CASE r \in Creates
      BY <3>1, <3>2, RegistryAssumption DEF TypeOK, createSubscription, Rows, Inputs
    <3>3. CASE r \notin Creates
      <4>1. requests[r].existing \in Rows
        BY <1>5, <3>3 DEF TypeOK, RequestsSound, ReadOfRow, Working, GuardAllows, Writers, RequestRecords
      <4> QED
        BY <3>1, <3>3, <4>1 DEF TypeOK, replaceSubscription, Rows, Inputs
    <3> QED
      BY <3>2, <3>3
  <2>2. requests' = [requests EXCEPT ![r] = [requests[r] EXCEPT !.pc = "save", !.row = row]]
    BY <1>5 DEF GuardAllows
  <2> HIDE DEF row
  <2> DEFINE q == [requests[r] EXCEPT !.pc = "save"]
  <2>3. q \in RequestRecords
    BY DEF TypeOK, RequestRecords
  <2>4. requests' = [requests EXCEPT ![r] = [q EXCEPT !.row = row]]
    BY <2>2
  <2> HIDE DEF q
  <2>5. [q EXCEPT !.row = row] \in RequestRecords
    BY <2>1, <2>3 DEF RequestRecords
  <2>6. requests' \in [Writers -> RequestRecords]
    BY <2>4, <2>5 DEF TypeOK
  <2> QED
    BY <1>5, <2>6 DEF TypeOK, GuardAllows, NoWrite
<1>6. ASSUME NEW r \in Writers, Save(r) PROVE TypeOK'
  <2>1. requests[r].id \in Ids /\ requests[r].row \in Rows \cup {Null}
    BY <1>6 DEF RequestsSound, Addressed, Working, Save, TypeOK, RequestRecords
  <2>2. table' \in [Ids -> Rows \cup {Null}] /\ owed' \in [Publishes -> SUBSET Ids]
    BY <1>6, <2>1, WriteTyped DEF Save
  <2>3. requests' \in [Writers -> RequestRecords]
    BY <1>6, AnswerTyped DEF Save
  <2> QED
    BY <1>6, <2>2, <2>3 DEF TypeOK, Save
<1>7. ASSUME NEW r \in Writers, SaveFails(r) PROVE TypeOK'
  <2>1. requests[r].id \in Ids /\ requests[r].row \in Rows \cup {Null}
    BY <1>7 DEF RequestsSound, Addressed, Working, SaveFails, TypeOK, RequestRecords
  <2>2. table' \in [Ids -> Rows \cup {Null}] /\ owed' \in [Publishes -> SUBSET Ids]
    BY <1>7, <2>1, WriteTyped DEF SaveFails, NoWrite, TypeOK
  <2>3. requests' \in [Writers -> RequestRecords]
    BY <1>7, AnswerTyped DEF SaveFails
  <2> QED
    BY <1>7, <2>2, <2>3, RegistryAssumption DEF TypeOK, SaveFails, Fault
<1>8. ASSUME NEW d \in Deletes, NEW id \in Ids, Delete(d, id) PROVE TypeOK'
  <2>1. table' \in [Ids -> Rows \cup {Null}] /\ owed' \in [Publishes -> SUBSET Ids]
    BY <1>8, WriteTyped DEF Delete
  <2> QED
    BY <1>8, <2>1 DEF TypeOK, Delete
<1>9. ASSUME NEW d \in Deletes, NEW id \in Ids, DeleteFails(d, id) PROVE TypeOK'
  <2>1. table' \in [Ids -> Rows \cup {Null}] /\ owed' \in [Publishes -> SUBSET Ids]
    BY <1>9, WriteTyped DEF DeleteFails, NoWrite, TypeOK
  <2> QED
    BY <1>9, <2>1, RegistryAssumption DEF TypeOK, DeleteFails, Fault
<1>10. ASSUME NEW e \in Publishes, NEW type \in Types, Publish(e, type) PROVE TypeOK'
  <2>1. [type |-> type, unread |-> Ids, found |-> {}, gone |-> gone] \in ScanRecords
    BY DEF TypeOK, ScanRecords
  <2>2. MatchingIds(type) \subseteq Ids
    BY DEF MatchingIds
  <2> QED
    BY <1>10, <2>1, <2>2 DEF TypeOK, Publish
<1>11. ASSUME NEW e \in Publishes, NEW id \in Ids, ScanRow(e, id) PROVE TypeOK'
  <2> DEFINE row == IF LaggingScan THEN replica[id] ELSE table[id]
             found == IF row # Null /\ Matches(row.eventType, scans[e].type)
                      THEN scans[e].found \cup {row} ELSE scans[e].found
             new == [scans[e] EXCEPT !.unread = scans[e].unread \ {id}, !.found = found]
             rest == [scans[e] EXCEPT !.unread = scans[e].unread \ {id}]
  <2>1. found \subseteq Rows
    BY DEF TypeOK, ScanRecords
  <2>2. scans' = [scans EXCEPT ![e] = new]
    BY <1>11 DEF ScanRow
  <2> HIDE DEF found
  <2>3. rest \in ScanRecords
    BY DEF TypeOK, ScanRecords
  <2>4. new = [rest EXCEPT !.found = found]
    OBVIOUS
  <2> HIDE DEF rest
  <2>5. new \in ScanRecords
    BY <2>1, <2>3, <2>4 DEF ScanRecords
  <2> HIDE DEF new
  <2> QED
    BY <1>11, <2>2, <2>5 DEF TypeOK, ScanRow
<1>12. ASSUME NEW id \in Ids, Replicate(id) PROVE TypeOK'
  BY <1>12 DEF TypeOK, Replicate
<1>13. CASE Tick
  BY <1>13, RegistryAssumption DEF TypeOK, Tick
<1>14. CASE UNCHANGED vars
  BY <1>14 DEF TypeOK, vars
<1> QED
  BY <1>1, <1>2, <1>3, <1>4, <1>5, <1>6, <1>7, <1>8, <1>9, <1>10, <1>11, <1>12, <1>13, <1>14
     DEF Next

-----------------------------------------------------------------------------
(* What a step leaves alone.                                               *)

(* A row a request has made, and an answer it has given, stay.             *)
Kept(r) ==
    /\ requests[r].row # Null =>
           /\ requests[r].row = requests'[r].row
           /\ requests[r].id = requests'[r].id
           /\ requests[r].input = requests'[r].input
           /\ requests[r].read = requests'[r].read
           /\ requests[r].pc \in {"save", "done"} => requests'[r].pc \in {"save", "done"}
    /\ requests[r].pc = "done" => requests'[r].pc = "done"

(* Answering a request changes its pc and nothing the invariant reads.     *)
Answered(r) ==
    /\ requests'[r].pc = "done"
    /\ requests'[r].row = requests[r].row
    /\ requests'[r].id = requests[r].id
    /\ requests'[r].input = requests[r].input
    /\ requests'[r].read = requests[r].read

LEMMA AnswerEffect ==
    ASSUME TypeOK, NEW r \in Writers, NEW code, Answer(r, code)
    PROVE  /\ Answered(r)
           /\ \A q \in Writers : q # r => requests'[q] = requests[q]
BY DEF TypeOK, RequestRecords, Answer, Answered

LEMMA ParseEffect ==
    ASSUME TypeOK, NEW r \in Writers, NEW id, NEW body \in Inputs \cup {Null}, NEW existing,
           Parse(r, id, body, existing)
    PROVE  /\ \A q \in Writers : q # r => requests'[q] = requests[q]
           /\ requests'[r].row = Null
           /\ requests'[r].id = id
           /\ requests'[r].existing = existing
           /\ requests'[r].read = IF id \in gone THEN "deleted" ELSE "live"
           /\ \/ requests'[r].pc = "done"
              \/ /\ requests'[r].pc = "guard"
                 /\ requests'[r].input \in Inputs
                 /\ validateEventType(requests'[r].input.type)
BY DEF TypeOK, Parse, parseSubscriptionInput

(* A PUT that raced a DELETE did so for good.                              *)
LEMMA RacedStays ==
    ASSUME \A q \in Writers : Kept(q), NEW i, RacedBack(i)
    PROVE  RacedBack(i)'
<1>1. PICK r \in Replaces :
         requests[r].id = i /\ requests[r].read = "live" /\ requests[r].row # Null
  BY DEF RacedBack
<1>2. requests'[r].id = i /\ requests'[r].read = "live" /\ requests'[r].row # Null
  BY <1>1 DEF Kept, Writers
<1> QED
  BY <1>2 DEF RacedBack

(* A request that did not move, or was answered, is as sound as before.    *)
LEMMA SoundKept ==
    ASSUME RInv, \A q \in Writers : Kept(q), NEW r \in Writers,
           \/ requests'[r] = requests[r]
           \/ Answered(r) /\ (r \in Replaces \/ requests[r].pc # "idle")
    PROVE  /\ Addressed(r)' /\ RowMade(r)'
           /\ r \in Replaces => ReadOfRow(r)'
<1>1. Addressed(r) /\ RowMade(r) /\ (r \in Replaces => ReadOfRow(r))
  BY DEF RInv, RequestsSound
<1>2. Addressed(r)'
  <2>1. CASE requests'[r] = requests[r]
    BY <1>1, <2>1 DEF Addressed, Working
  <2>2. CASE Answered(r)
    BY <1>1, <2>2, RegistryAssumption DEF Addressed, Working, Answered
  <2> QED
    BY <2>1, <2>2
<1>3. RowMade(r)'
  <2>1. SUFFICES ASSUME requests'[r].row # Null
                 PROVE  RowMade(r)'
    BY <1>1 DEF RowMade, Answered
  <2>2. requests[r].row = requests'[r].row /\ requests[r].id = requests'[r].id
        /\ requests[r].input = requests'[r].input /\ requests'[r].pc \in {"save", "done"}
    BY <1>1, <2>1 DEF RowMade, Answered
  <2>3. requests[r].id \in Writers
    BY <1>1, <2>1, <2>2 DEF Addressed, Ids, Writers
  <2> QED
    BY <1>1, <2>1, <2>2, <2>3 DEF RowMade, Kept
<1>4. ASSUME r \in Replaces PROVE ReadOfRow(r)'
  <2>1. SUFFICES ASSUME Working(r)' PROVE ReadOfRow(r)'
    BY DEF ReadOfRow
  <2>2. requests'[r] = requests[r] /\ Working(r)
    BY <2>1 DEF Working, Answered
  <2>3. requests[r].id \in Writers
    BY <1>1, <2>2 DEF Addressed, Ids, Writers
  <2>4. \A i \in Ids : RacedBack(i) => RacedBack(i)'
    BY RacedStays
  <2>5. requests[r].id \in Ids
    BY <1>1, <2>2 DEF Addressed
  <2>6. requests[r].read = "live" \/ RacedBack(requests[r].id)'
    BY <1>1, <1>4, <2>2, <2>4, <2>5 DEF ReadOfRow, RacedBack
  <2> QED
    BY <1>1, <1>4, <2>2, <2>3, <2>6 DEF ReadOfRow, Kept, RacedBack
<1> QED
  BY <1>2, <1>3, <1>4

-----------------------------------------------------------------------------
(* The requests.                                                           *)

(* A request that takes a step keeps what it has made, and so do the rest. *)
LEMMA KeptStep == RInv /\ [Next]_vars => \A q \in Writers : Kept(q)
<1> SUFFICES ASSUME RInv, [Next]_vars, NEW q \in Writers PROVE Kept(q)
  OBVIOUS
<1>1. TypeOK /\ RowMade(q)
  BY DEF RInv, RequestsSound
<1>2. ASSUME requests'[q] = requests[q] PROVE Kept(q)
  BY <1>2 DEF Kept
<1>3. ASSUME Answered(q) PROVE Kept(q)
  BY <1>3 DEF Kept, Answered
<1>4. ASSUME requests[q].pc \in {"idle", "guard"} PROVE Kept(q)
  BY <1>1, <1>4 DEF Kept, RowMade
<1>5. ASSUME NEW r \in Creates, NEW body \in Inputs \cup {Null}, Create(r, body)
      PROVE  Kept(q)
  BY <1>1, <1>2, <1>4, <1>5, ParseEffect DEF Create, Writers
<1>6. ASSUME NEW r \in Replaces, NEW id \in Ids, NEW body \in Inputs \cup {Null},
             ReplaceGet(r, id, body)
      PROVE  Kept(q)
  <2>1. CASE q = r
    BY <1>4, <1>6, <2>1 DEF ReplaceGet
  <2>2. CASE q # r
    <3>1. CASE table[id] = Null
      <4>1. Answer(r, 404)
        BY <1>6, <3>1 DEF ReplaceGet
      <4> QED
        BY <1>1, <1>2, <2>2, <4>1, AnswerEffect DEF Writers
    <3>2. CASE table[id] # Null
      <4>1. Parse(r, id, body, table[id])
        BY <1>6, <3>2 DEF ReplaceGet
      <4> QED
        BY <1>1, <1>2, <2>2, <4>1, ParseEffect DEF Writers
    <3> QED
      BY <3>1, <3>2
  <2> QED
    BY <2>1, <2>2
<1>7. ASSUME NEW r \in Replaces, ReplaceGetFails(r) PROVE Kept(q)
  BY <1>1, <1>2, <1>3, <1>7, AnswerEffect DEF ReplaceGetFails, Writers
<1>8. ASSUME NEW r \in Writers, GuardBlocks(r) PROVE Kept(q)
  BY <1>1, <1>2, <1>3, <1>8, AnswerEffect DEF GuardBlocks
<1>9. ASSUME NEW r \in Writers, GuardAllows(r) PROVE Kept(q)
  <2>1. CASE q = r
    BY <1>4, <1>9, <2>1 DEF GuardAllows
  <2>2. CASE q # r
    BY <1>1, <1>2, <1>9, <2>2 DEF GuardAllows, TypeOK
  <2> QED
    BY <2>1, <2>2
<1>10. ASSUME NEW r \in Writers, Save(r) PROVE Kept(q)
  <2>1. Answered(r) /\ \A w \in Writers : w # r => requests'[w] = requests[w]
    BY <1>1, <1>10, AnswerEffect DEF Save
  <2> QED
    BY <1>2, <1>3, <2>1
<1>11. ASSUME NEW r \in Writers, SaveFails(r) PROVE Kept(q)
  BY <1>1, <1>2, <1>3, <1>11, AnswerEffect DEF SaveFails
<1>12. ASSUME requests' = requests PROVE Kept(q)
  BY <1>2, <1>12
<1> QED
  BY <1>5, <1>6, <1>7, <1>8, <1>9, <1>10, <1>11, <1>12
     DEF Next, Delete, DeleteFails, Publish, ScanRow, Replicate, Tick, vars

(* What one request did is sound, and the others stand still.              *)
LEMMA OneMoved ==
    ASSUME RInv, \A q \in Writers : Kept(q), NEW r \in Writers,
           \A q \in Writers : q # r => requests'[q] = requests[q],
           Addressed(r)', RowMade(r)', r \in Replaces => ReadOfRow(r)'
    PROVE  RequestsSound'
BY SoundKept DEF RequestsSound, Writers

(* The same when all it did was to answer.                                 *)
LEMMA OneAnswered ==
    ASSUME RInv, \A q \in Writers : Kept(q), NEW r \in Writers, NEW code, Answer(r, code),
           r \in Replaces \/ requests[r].pc # "idle"
    PROVE  RequestsSound'
<1>1. Answered(r) /\ \A q \in Writers : q # r => requests'[q] = requests[q]
  BY AnswerEffect DEF RInv
<1>2. Addressed(r)' /\ RowMade(r)' /\ (r \in Replaces => ReadOfRow(r)')
  BY <1>1, SoundKept
<1> QED
  BY <1>1, <1>2, OneMoved

LEMMA RequestsStep == RInv /\ [Next]_vars => RequestsSound'
<1> SUFFICES ASSUME RInv, [Next]_vars PROVE RequestsSound'
  OBVIOUS
<1>1. TypeOK /\ RequestsSound /\ StoredRows /\ CreatedAtIsKept /\ ResurrectionNeedsRace
  BY DEF RInv
<1>2. \A q \in Writers : Kept(q)
  BY KeptStep
<1>3. ASSUME NEW r \in Creates, NEW body \in Inputs \cup {Null}, Create(r, body)
      PROVE  RequestsSound'
  <2>1. Parse(r, r, body, Null) /\ r \in Writers /\ r \in Ids /\ r \notin Replaces
    BY <1>3, RegistryAssumption DEF Create, Writers, Ids
  <2>2. /\ \A q \in Writers : q # r => requests'[q] = requests[q]
        /\ requests'[r].row = Null /\ requests'[r].id = r
        /\ \/ requests'[r].pc = "done"
           \/ /\ requests'[r].pc = "guard"
              /\ requests'[r].input \in Inputs
              /\ validateEventType(requests'[r].input.type)
    BY <1>1, <2>1, ParseEffect
  <2>3. Addressed(r)' /\ RowMade(r)'
    BY <2>1, <2>2 DEF Addressed, RowMade, Working
  <2> QED
    BY <1>2, <2>1, <2>2, <2>3, OneMoved
<1>4. ASSUME NEW r \in Replaces, NEW id \in Ids, NEW body \in Inputs \cup {Null},
             ReplaceGet(r, id, body)
      PROVE  RequestsSound'
  <2>1. r \in Writers /\ r \notin Creates /\ id \in Writers /\ id # r
    BY RegistryAssumption DEF Writers, Ids
  <2>2. CASE table[id] = Null
    <3>1. Answer(r, 404)
      BY <1>4, <2>2 DEF ReplaceGet
    <3> QED
      BY <1>2, <2>1, <3>1, OneAnswered
  <2>3. CASE table[id] # Null
    <3>1. Parse(r, id, body, table[id])
      BY <1>4, <2>3 DEF ReplaceGet
    <3>2. /\ \A q \in Writers : q # r => requests'[q] = requests[q]
          /\ requests'[r].row = Null /\ requests'[r].id = id
          /\ requests'[r].existing = table[id]
          /\ requests'[r].read = IF id \in gone THEN "deleted" ELSE "live"
          /\ \/ requests'[r].pc = "done"
             \/ /\ requests'[r].pc = "guard"
                /\ requests'[r].input \in Inputs
                /\ validateEventType(requests'[r].input.type)
      <4>1. PICK existing : existing = table[id]
        OBVIOUS
      <4>2. Parse(r, id, body, existing)
        BY <3>1, <4>1
      <4>3. /\ \A q \in Writers : q # r => requests'[q] = requests[q]
            /\ requests'[r].row = Null /\ requests'[r].id = id
            /\ requests'[r].existing = existing
        BY <1>1, <2>1, <4>2, ParseEffect
      <4>4. /\ requests'[r].read = IF id \in gone THEN "deleted" ELSE "live"
            /\ \/ requests'[r].pc = "done"
               \/ /\ requests'[r].pc = "guard"
                  /\ requests'[r].input \in Inputs
                  /\ validateEventType(requests'[r].input.type)
        BY <1>1, <2>1, <4>2, ParseEffect
      <4> QED
        BY <4>1, <4>3, <4>4
    <3>3. Addressed(r)' /\ RowMade(r)'
      BY <2>1, <3>2 DEF Addressed, RowMade, Working
    <3>4. requests'[id] = requests[id]
      BY <2>1, <3>2
    <3>5. /\ requests'[id].pc = "done" /\ requests'[id].row # Null
          /\ table[id].createdAt = requests'[id].row.createdAt
      BY <1>1, <2>3, <3>4 DEF StoredRows, CreatedAtIsKept
    <3>6. requests'[r].read = "live" \/ RacedBack(id)'
      <4>1. CASE id \notin gone
        BY <3>2, <4>1
      <4>2. CASE id \in gone
        <5>1. RacedBack(id)
          BY <1>1, <2>3, <4>2 DEF ResurrectionNeedsRace, RacedBack
        <5> QED
          BY <1>2, <5>1, RacedStays
      <4> QED
        BY <4>1, <4>2
    <3>7. table[id].id = id
      BY <1>1, <2>3 DEF StoredRows
    <3>8. ReadOfRow(r)'
      BY <2>3, <3>2, <3>5, <3>6, <3>7 DEF ReadOfRow, RacedBack
    <3> QED
      BY <1>2, <2>1, <3>2, <3>3, <3>8, OneMoved
  <2> QED
    BY <2>2, <2>3
<1>5. ASSUME NEW r \in Replaces, ReplaceGetFails(r) PROVE RequestsSound'
  BY <1>2, <1>5, OneAnswered DEF ReplaceGetFails, Writers
<1>6. ASSUME NEW r \in Writers, GuardBlocks(r) PROVE RequestsSound'
  BY <1>2, <1>6, OneAnswered DEF GuardBlocks
<1>7. ASSUME NEW r \in Writers, GuardAllows(r) PROVE RequestsSound'
  <2>1. /\ requests[r].pc = "guard" /\ Addressed(r) /\ Working(r)
        /\ requests[r].id \in Ids /\ requests[r].id \in Writers
        /\ requests[r].input \in Inputs
    BY <1>1, <1>7 DEF GuardAllows, RequestsSound, Addressed, Working, Ids, Writers
  <2> DEFINE row == IF r \in Creates
                    THEN createSubscription(requests[r].input, requests[r].id)
                    ELSE replaceSubscription(requests[r].existing, requests[r].input)
  <2>2. requests' = [requests EXCEPT ![r] = [requests[r] EXCEPT !.pc = "save", !.row = row]]
    BY <1>7 DEF GuardAllows
  <2>3. /\ row \in Rows
        /\ row.id = requests[r].id
        /\ row.eventType = requests[r].input.type
        /\ row.targetUrl = requests[r].input.url
        /\ r \notin Creates => row.createdAt = requests[r].existing.createdAt
    <3>1. CASE r \in Creates
      BY <1>1, <2>1, <3>1, RegistryAssumption
      DEF createSubscription, TypeOK, Rows, Inputs
    <3>2. CASE r \notin Creates
      <4>1. requests[r].existing \in Rows /\ requests[r].existing.id = requests[r].id
        BY <1>1, <2>1, <3>2 DEF TypeOK, RequestRecords, RequestsSound, ReadOfRow, Writers
      <4> QED
        BY <1>1, <2>1, <3>2, <4>1 DEF replaceSubscription, TypeOK, Rows, Inputs
    <3> QED
      BY <3>1, <3>2
  <2> HIDE DEF row
  <2>4. /\ requests'[r].pc = "save" /\ requests'[r].row = row
        /\ requests'[r].id = requests[r].id /\ requests'[r].input = requests[r].input
        /\ requests'[r].existing = requests[r].existing
        /\ requests'[r].read = requests[r].read
        /\ \A q \in Writers : q # r => requests'[q] = requests[q]
    BY <1>1, <2>2 DEF TypeOK, RequestRecords
  <2>5. row # Null
    BY <2>3, NullIsNoRow
  <2>6. Addressed(r)'
    BY <2>1, <2>4 DEF Addressed, Working
  <2>7. RowMade(r)'
    <3>1. CASE r \in Creates
      BY <2>1, <2>3, <2>4, <2>5, <3>1 DEF RowMade, Addressed
    <3>2. CASE r \in Replaces
      <4>1. requests[r].id # r /\ r \notin Creates
        BY <2>1, <3>2, RegistryAssumption DEF Ids
      <4>2. /\ requests[requests[r].id].row # Null
            /\ requests[r].existing.createdAt = requests[requests[r].id].row.createdAt
        BY <1>1, <2>1, <3>2 DEF RequestsSound, ReadOfRow
      <4> QED
        BY <2>1, <2>3, <2>4, <2>5, <4>1, <4>2 DEF RowMade
    <3> QED
      BY <3>1, <3>2 DEF Writers
  <2>8. ASSUME r \in Replaces PROVE ReadOfRow(r)'
    <3>1. requests[r].id # r /\ ReadOfRow(r)
      BY <1>1, <2>1, <2>8, RegistryAssumption DEF Ids, RequestsSound
    <3>2. \A i \in Ids : RacedBack(i) => RacedBack(i)'
      BY <1>2, RacedStays
    <3>3. requests[r].read = "live" \/ RacedBack(requests[r].id)'
      <4>1. PICK i \in Ids : i = requests[r].id
        BY <2>1
      <4>2. requests[r].read = "live" \/ RacedBack(i)
        BY <2>1, <3>1, <4>1 DEF ReadOfRow
      <4>3. requests[r].read = "live" \/ RacedBack(i)'
        BY <3>2, <4>2
      <4>4. requests'[r].id = i
        BY <2>4, <4>1
      <4> QED
        BY <4>1, <4>3, <4>4 DEF RacedBack
    <3> QED
      BY <2>1, <2>4, <3>1, <3>3 DEF ReadOfRow, RacedBack
  <2> QED
    BY <1>2, <2>4, <2>6, <2>7, <2>8, OneMoved
<1>8. ASSUME NEW r \in Writers, Save(r) PROVE RequestsSound'
  <2>1. \E code : Answer(r, code) /\ requests[r].pc # "idle"
    BY <1>8 DEF Save
  <2> QED
    BY <1>2, <2>1, OneAnswered
<1>9. ASSUME NEW r \in Writers, SaveFails(r) PROVE RequestsSound'
  BY <1>2, <1>9, OneAnswered DEF SaveFails
<1>10. ASSUME requests' = requests PROVE RequestsSound'
  BY <1>2, <1>10, SoundKept DEF RequestsSound, Writers
<1> QED
  BY <1>3, <1>4, <1>5, <1>6, <1>7, <1>8, <1>9, <1>10
     DEF Next, Delete, DeleteFails, Publish, ScanRow, Replicate, Tick, vars

-----------------------------------------------------------------------------
(* The table.                                                              *)

(* Who wrote a row: the witness of RowsAreWhole.                           *)
Wrote(r, i, row) ==
    /\ requests[r].pc \in {"save", "done"}
    /\ requests[r].row # Null
    /\ requests[r].id = i
    /\ requests[r].input = [type |-> row.eventType, url |-> row.targetUrl]

(* All that the invariant says of one stored row.                          *)
RowSound(i, row) ==
    /\ requests[i].pc = "done"
    /\ requests[i].row # Null
    /\ row.createdAt = requests[i].row.createdAt
    /\ row.id = i
    /\ validateEventType(row.eventType)
    /\ \E r \in Writers : Wrote(r, i, row)

(* A sound row stays sound.                                                *)
LEMMA RowStaysSound ==
    ASSUME \A q \in Writers : Kept(q), NEW i \in Ids, NEW row, RowSound(i, row)
    PROVE  RowSound(i, row)'
<1>1. PICK r \in Writers : Wrote(r, i, row)
  BY DEF RowSound
<1>2. Wrote(r, i, row)'
  BY <1>1 DEF Wrote, Kept
<1> QED
  BY <1>2 DEF RowSound, Kept, Ids, Writers

(* The row a request is about to save is sound once it is answered.        *)
LEMMA SavedIsSound ==
    ASSUME RInv, RequestsSound', NEW r \in Writers, NEW i \in Ids, NEW row,
           requests[r].pc = "save", Answered(r), \A q \in Writers : Kept(q),
           requests[r].id = i, requests[r].row = row
    PROVE  RowSound(i, row)'
<1>1. Addressed(r) /\ RowMade(r) /\ (r \in Replaces => ReadOfRow(r)) /\ Working(r)
  BY DEF RInv, RequestsSound, Working
<1>2. row # Null /\ row.id = i /\ row.eventType = requests[r].input.type
      /\ row.targetUrl = requests[r].input.url
      /\ requests[r].input \in Inputs /\ validateEventType(requests[r].input.type)
  BY <1>1 DEF Addressed, RowMade, Working
<1>3. requests[r].input = [type |-> row.eventType, url |-> row.targetUrl]
  BY <1>2 DEF Inputs
<1>4. Wrote(r, i, row)'
  BY <1>2, <1>3 DEF Wrote, Answered
<1>5. requests'[i].pc = "done"
  <2>1. CASE r \in Creates
    BY <1>1, <2>1 DEF Addressed, Answered
  <2>2. CASE r \in Replaces
    BY <1>1, <2>2 DEF ReadOfRow, Kept, Ids, Writers
  <2> QED
    BY <2>1, <2>2 DEF Writers
<1>6. requests'[i].row # Null /\ row.createdAt = requests'[i].row.createdAt
  BY <1>1, <1>2 DEF RowMade, Kept, Ids, Writers
<1> QED
  BY <1>2, <1>4, <1>5, <1>6 DEF RowSound

LEMMA RowsAreSound ==
    ASSUME RInv, NEW i \in Ids, table[i] # Null
    PROVE  RowSound(i, table[i])
BY DEF RInv, StoredRows, CreatedAtIsKept, RowsAreWhole, RowSound, Wrote

(* Every step leaves the table with sound rows.                            *)
LEMMA RowsStep ==
    ASSUME RInv, [Next]_vars, NEW i \in Ids, table'[i] # Null
    PROVE  RowSound(i, table[i])'
<1>1. TypeOK /\ RequestsSound /\ RequestsSound' /\ \A q \in Writers : Kept(q)
  BY RequestsStep, KeptStep DEF RInv
<1>2. ASSUME table'[i] = table[i] PROVE RowSound(i, table[i])'
  <2>1. PICK row : row = table[i]
    OBVIOUS
  <2>2. RowSound(i, row)
    BY <1>2, <2>1, RowsAreSound
  <2>3. RowSound(i, row)'
    BY <1>1, <2>2, RowStaysSound
  <2> QED
    BY <1>2, <2>1, <2>3
<1>3. ASSUME NEW r \in Writers, requests[r].pc = "save", Answered(r),
             Write(requests[r].id, requests[r].row)
      PROVE  RowSound(i, table[i])'
  <2>1. CASE i # requests[r].id
    BY <1>1, <1>2, <1>3, <2>1 DEF Write, TypeOK
  <2>2. CASE i = requests[r].id
    <3>1. PICK row : row = requests[r].row
      OBVIOUS
    <3>2. table'[i] = row
      BY <1>1, <1>3, <2>2, <3>1 DEF Write, TypeOK
    <3>3. RowSound(i, row)'
      BY <1>1, <1>3, <2>2, <3>1, SavedIsSound
    <3> QED
      BY <3>2, <3>3
  <2> QED
    BY <2>1, <2>2
<1>4. ASSUME NEW r \in Writers, Save(r) PROVE RowSound(i, table[i])'
  BY <1>1, <1>3, <1>4, AnswerEffect DEF Save
<1>5. ASSUME NEW r \in Writers, SaveFails(r) PROVE RowSound(i, table[i])'
  BY <1>1, <1>2, <1>3, <1>5, AnswerEffect DEF SaveFails, NoWrite
<1>6. ASSUME NEW d \in Deletes, NEW id \in Ids, Delete(d, id) \/ DeleteFails(d, id)
      PROVE  RowSound(i, table[i])'
  <2>1. table'[i] = table[i]
    BY <1>1, <1>6 DEF Delete, DeleteFails, Write, NoWrite, TypeOK
  <2> QED
    BY <1>2, <2>1
<1>7. ASSUME table' = table PROVE RowSound(i, table[i])'
  BY <1>2, <1>7
<1> QED
  BY <1>4, <1>5, <1>6, <1>7
     DEF Next, Create, ReplaceGet, ReplaceGetFails, GuardBlocks, GuardAllows, NoWrite,
         Publish, ScanRow, Replicate, Tick, vars

(* A deleted id that has a row has it from a PUT that raced the DELETE.    *)
LEMMA ResurrectionStep == RInv /\ [Next]_vars => ResurrectionNeedsRace'
<1> SUFFICES ASSUME RInv, [Next]_vars, NEW i \in Ids, i \in gone', table'[i] # Null
             PROVE  RacedBack(i)'
  BY TypeStep DEF ResurrectionNeedsRace, RacedBack, TypeOK
<1>1. TypeOK /\ RequestsSound /\ StoredRows /\ \A q \in Writers : Kept(q)
  BY KeptStep DEF RInv
<1>2. ASSUME table[i] # Null, i \in gone PROVE RacedBack(i)'
  BY <1>1, <1>2, RacedStays DEF RInv, ResurrectionNeedsRace, RacedBack
<1>3. ASSUME NEW r \in Writers, requests[r].pc = "save", Answered(r), gone' = gone,
             Write(requests[r].id, requests[r].row)
      PROVE  RacedBack(i)'
  <2>1. CASE i # requests[r].id
    BY <1>1, <1>2, <1>3, <2>1 DEF Write, TypeOK
  <2>2. CASE i = requests[r].id
    <3>1. Addressed(r) /\ RowMade(r) /\ Working(r)
      BY <1>1, <1>3 DEF RequestsSound, Working
    <3>2. r \in Replaces
      BY <1>1, <1>3, <2>2, <3>1 DEF StoredRows, Addressed, Writers
    <3>3. requests[r].read = "live" \/ RacedBack(i)
      BY <1>1, <2>2, <3>1, <3>2 DEF RequestsSound, ReadOfRow
    <3>4. CASE requests[r].read = "live"
      BY <1>3, <2>2, <3>1, <3>2, <3>4 DEF RacedBack, RowMade, Answered
    <3>5. CASE RacedBack(i)
      BY <1>1, <3>5, RacedStays
    <3> QED
      BY <3>3, <3>4, <3>5
  <2> QED
    BY <2>1, <2>2
<1>4. ASSUME NEW r \in Writers, Save(r) PROVE RacedBack(i)'
  BY <1>1, <1>3, <1>4, AnswerEffect DEF Save
<1>5. ASSUME NEW r \in Writers, SaveFails(r) PROVE RacedBack(i)'
  BY <1>1, <1>2, <1>3, <1>5, AnswerEffect DEF SaveFails, NoWrite
<1>6. ASSUME NEW d \in Deletes, NEW id \in Ids, Delete(d, id) PROVE RacedBack(i)'
  <2>1. i # id /\ table[i] # Null /\ i \in gone
    BY <1>1, <1>6 DEF Delete, Write, TypeOK
  <2> QED
    BY <1>2, <2>1
<1>7. ASSUME NEW d \in Deletes, NEW id \in Ids, DeleteFails(d, id) PROVE RacedBack(i)'
  <2>1. table[i] # Null /\ i \in gone
    BY <1>1, <1>7 DEF DeleteFails, Write, NoWrite, TypeOK
  <2> QED
    BY <1>2, <2>1
<1>8. ASSUME table' = table, gone' = gone PROVE RacedBack(i)'
  BY <1>2, <1>8
<1> QED
  BY <1>4, <1>5, <1>6, <1>7, <1>8
     DEF Next, Create, ReplaceGet, ReplaceGetFails, GuardBlocks, GuardAllows, NoWrite,
         Publish, ScanRow, Replicate, Tick, vars

(* A deleted id had a row, so its POST is over; the replica holds old rows. *)
LEMMA StoredStep == RInv /\ [Next]_vars => StoredRows'
<1> SUFFICES ASSUME RInv, [Next]_vars PROVE StoredRows'
  OBVIOUS
<1>1. TypeOK /\ StoredRows /\ \A q \in Writers : Kept(q)
  BY KeptStep DEF RInv
<1>2. \A i \in Ids : table'[i] # Null =>
          /\ requests'[i].pc = "done"
          /\ table'[i].id = i /\ validateEventType(table'[i].eventType)
  BY RowsStep DEF RowSound
<1>3. ASSUME NEW i \in gone' PROVE requests'[i].pc = "done"
  <2>1. CASE i \in gone
    BY <1>1, <2>1 DEF StoredRows, Kept, TypeOK, Ids, Writers
  <2>2. CASE i \notin gone
    <3>1. PICK d \in Deletes, id \in Ids : Delete(d, id)
      BY <1>3, <2>2
      DEF Next, Create, ReplaceGet, ReplaceGetFails, GuardBlocks, GuardAllows, Save,
          SaveFails, DeleteFails, Publish, ScanRow, Replicate, Tick, vars
    <3>2. i = id /\ table[i] # Null /\ requests' = requests
      BY <1>3, <2>2, <3>1 DEF Delete
    <3> QED
      BY <1>1, <3>2 DEF StoredRows
  <2> QED
    BY <2>1, <2>2
<1>4. ASSUME NEW i \in Ids, replica'[i] # Null
      PROVE  validateEventType(replica'[i].eventType)
  <2>1. replica'[i] = replica[i] \/ replica'[i] = table[i]
    BY <1>1
    DEF Next, Create, ReplaceGet, ReplaceGetFails, GuardBlocks, GuardAllows, Save,
        SaveFails, Delete, DeleteFails, Publish, ScanRow, Replicate, Tick, vars, TypeOK
  <2> QED
    BY <1>1, <1>4, <2>1 DEF StoredRows
<1> QED
  BY <1>2, <1>3, <1>4 DEF StoredRows

(* What a scan finds has no wildcard, so matching it means equality.       *)
LEMMA ScanStep == RInv /\ [Next]_vars => ScansTyped' /\ WildcardIsUnused'
<1> SUFFICES ASSUME RInv, [Next]_vars PROVE ScansTyped' /\ WildcardIsUnused'
  OBVIOUS
<1>1. TypeOK /\ StoredRows /\ ScansTyped /\ WildcardIsUnused
  BY DEF RInv
<1>2. ASSUME NEW e \in Publishes, NEW type \in Types, Publish(e, type)
      PROVE  ScansTyped' /\ WildcardIsUnused'
  <2>1. scans'[e] = [type |-> type, unread |-> Ids, found |-> {}, gone |-> gone]
        /\ \A f \in Publishes : f # e => scans'[f] = scans[f]
    BY <1>1, <1>2 DEF Publish, TypeOK
  <2>2. type # Null
    BY RegistryAssumption
  <2> QED
    BY <1>1, <2>1, <2>2 DEF ScansTyped, WildcardIsUnused
<1>3. ASSUME NEW e \in Publishes, NEW id \in Ids, ScanRow(e, id)
      PROVE  ScansTyped' /\ WildcardIsUnused'
  <2> DEFINE row == IF LaggingScan THEN replica[id] ELSE table[id]
  <2>1. scans[e].type # Null /\ scans[e].type \in Types
    BY <1>1, <1>3 DEF ScanRow, ScansTyped, TypeOK, ScanRecords
  <2>2. /\ scans'[e].type = scans[e].type
        /\ \/ scans'[e].found = scans[e].found
           \/ /\ row # Null /\ Matches(row.eventType, scans[e].type)
              /\ scans'[e].found = scans[e].found \cup {row}
        /\ \A f \in Publishes : f # e => scans'[f] = scans[f]
    BY <1>1, <1>3 DEF ScanRow, TypeOK, ScanRecords
  <2>3. ASSUME row # Null, Matches(row.eventType, scans[e].type)
        PROVE  row.eventType = scans[e].type
    <3>1. row.eventType \in Types /\ validateEventType(row.eventType)
      BY <1>1, <2>3 DEF StoredRows, TypeOK, Rows
    <3> HIDE DEF row
    <3> QED
      BY <2>1, <2>3, <3>1, ExactWithoutWildcard
  <2> HIDE DEF row
  <2> QED
    BY <1>1, <2>1, <2>2, <2>3 DEF ScansTyped, WildcardIsUnused
<1>4. ASSUME scans' = scans PROVE ScansTyped' /\ WildcardIsUnused'
  BY <1>1, <1>4 DEF ScansTyped, WildcardIsUnused
<1> QED
  BY <1>2, <1>3, <1>4
     DEF Next, Create, ReplaceGet, ReplaceGetFails, GuardBlocks, GuardAllows, Save,
         SaveFails, Delete, DeleteFails, Replicate, Tick, vars

-----------------------------------------------------------------------------
(* The theorems.                                                           *)

(* RInv is inductive.                                                      *)
LEMMA RInvStep == RInv /\ [Next]_vars => RInv'
<1> SUFFICES ASSUME RInv, [Next]_vars PROVE RInv'
  OBVIOUS
<1>1. TypeOK' /\ RequestsSound' /\ StoredRows' /\ ScansTyped' /\ WildcardIsUnused'
      /\ ResurrectionNeedsRace'
  BY TypeStep, RequestsStep, StoredStep, ScanStep, ResurrectionStep
<1>2. CreatedAtIsKept' /\ RowsAreWhole'
  BY RowsStep DEF CreatedAtIsKept, RowsAreWhole, RowSound, Wrote
<1> QED
  BY <1>1, <1>2 DEF RInv

(* Everything RInv says holds in every reachable state.                    *)
THEOREM RegistryInvariant == Spec => []RInv
BY RInvInit, RInvStep, PTL DEF Spec

(* The rows, old versions, requests and scans keep their types.            *)
THEOREM RegistryTypes == Spec => []TypeOK
<1>1. RInv => TypeOK
  BY DEF RInv
<1> QED
  BY <1>1, RegistryInvariant, PTL

(* The wildcard of the matching, which its tests require, is of no use to  *)
(* a client: whatever POST, PUT and DELETE do, and however old the rows    *)
(* are that the Scan serves, none of them was let in with a wildcard       *)
(* (validation.ts 70-91 against matching.ts 38-54).                        *)
THEOREM WildcardsAreOutOfReach == Spec => []WildcardIsUnused
<1>1. RInv => WildcardIsUnused
  BY DEF RInv
<1> QED
  BY <1>1, RegistryInvariant, PTL

(* No race of PUTs and DELETEs changes the creation time of a row.         *)
THEOREM CreationTimeIsKept == Spec => []CreatedAtIsKept
<1>1. RInv => CreatedAtIsKept
  BY DEF RInv
<1> QED
  BY <1>1, RegistryInvariant, PTL

(* Every stored row is the whole input of one request addressed to it,     *)
(* which validation and the guard let through.                             *)
THEOREM StoredRowsAreWhole == Spec => []RowsAreWhole
<1>1. RInv => RowsAreWhole
  BY DEF RInv
<1> QED
  BY <1>1, RegistryInvariant, PTL

(* A deleted subscription comes back only through a PUT that read it while *)
(* it was live and saved it later.                                         *)
THEOREM OnlyRacesResurrect == Spec => []ResurrectionNeedsRace
<1>1. RInv => ResurrectionNeedsRace
  BY DEF RInv
<1> QED
  BY <1>1, RegistryInvariant, PTL

-----------------------------------------------------------------------------
(* Without a PUT, and with a consistent Scan, a 204 is final.              *)

(* A 204 is remembered, and no scan knows of one that was not given.       *)
AnswersRemembered ==
    /\ \A d \in Deletes : deleted[d] # Null /\ deleted[d].answer = 204 => deleted[d].id \in gone
    /\ \A e \in Publishes : scans[e].gone \subseteq gone

DInv == RInv /\ AnswersRemembered /\ DeletedOnce /\ NoDeliveryAfterDelete

(* With no PUT to bring it back, a deleted id has no row.                  *)
LEMMA GoneIsGone ==
    ASSUME Replaces = {}, RInv, NEW i \in gone
    PROVE  table[i] = Null
BY DEF RInv, ResurrectionNeedsRace

LEMMA DInvStep ==
    ASSUME Replaces = {}, ~LaggingScan, DInv, [Next]_vars
    PROVE  DInv'
<1>1. TypeOK /\ StoredRows /\ AnswersRemembered /\ DeletedOnce /\ NoDeliveryAfterDelete
  BY DEF DInv, RInv
<1>2. RInv'
  BY RInvStep DEF DInv
<1>3. ASSUME NEW d \in Deletes, NEW id \in Ids, Delete(d, id)
      PROVE  AnswersRemembered' /\ DeletedOnce' /\ NoDeliveryAfterDelete'
  <2>1. /\ deleted'[d] = [id |-> id, answer |-> IF table[id] = Null THEN 404 ELSE 204]
        /\ \A f \in Deletes : f # d => deleted'[f] = deleted[f]
        /\ gone \subseteq gone' /\ scans' = scans
        /\ table[id] # Null => id \in gone'
    BY <1>1, <1>3 DEF Delete, TypeOK
  <2>2. table[id] # Null => id \notin gone
    BY GoneIsGone DEF DInv
  <2>3. AnswersRemembered'
    BY <1>1, <2>1 DEF AnswersRemembered
  <2>4. DeletedOnce'
    BY <1>1, <2>1, <2>2 DEF AnswersRemembered, DeletedOnce
  <2> QED
    BY <1>1, <2>1, <2>3, <2>4 DEF NoDeliveryAfterDelete
<1>4. ASSUME NEW d \in Deletes, NEW id \in Ids, DeleteFails(d, id)
      PROVE  AnswersRemembered' /\ DeletedOnce' /\ NoDeliveryAfterDelete'
  <2>1. /\ deleted'[d] = [id |-> id, answer |-> 500]
        /\ \A f \in Deletes : f # d => deleted'[f] = deleted[f]
        /\ gone' = gone /\ scans' = scans
    BY <1>1, <1>4 DEF DeleteFails, TypeOK
  <2> QED
    BY <1>1, <2>1 DEF AnswersRemembered, DeletedOnce, NoDeliveryAfterDelete
<1>5. ASSUME NEW e \in Publishes, NEW type \in Types, Publish(e, type)
      PROVE  AnswersRemembered' /\ DeletedOnce' /\ NoDeliveryAfterDelete'
  <2>1. /\ scans'[e].found = {} /\ scans'[e].gone = gone
        /\ \A f \in Publishes : f # e => scans'[f] = scans[f]
        /\ UNCHANGED <<deleted, gone>>
    BY <1>1, <1>5 DEF Publish, TypeOK
  <2> QED
    BY <1>1, <2>1 DEF AnswersRemembered, DeletedOnce, NoDeliveryAfterDelete
<1>6. ASSUME NEW e \in Publishes, NEW id \in Ids, ScanRow(e, id)
      PROVE  AnswersRemembered' /\ DeletedOnce' /\ NoDeliveryAfterDelete'
  <2>1. /\ scans'[e].gone = scans[e].gone
        /\ \/ scans'[e].found = scans[e].found
           \/ table[id] # Null /\ scans'[e].found = scans[e].found \cup {table[id]}
        /\ \A f \in Publishes : f # e => scans'[f] = scans[f]
        /\ UNCHANGED <<deleted, gone>>
    BY <1>1, <1>6 DEF ScanRow, TypeOK, ScanRecords
  <2>2. table[id] # Null => table[id].id \notin gone
    BY <1>1, GoneIsGone DEF DInv, StoredRows
  <2> QED
    BY <1>1, <2>1, <2>2 DEF AnswersRemembered, DeletedOnce, NoDeliveryAfterDelete
<1>7. ASSUME UNCHANGED <<deleted, gone, scans>>
      PROVE  AnswersRemembered' /\ DeletedOnce' /\ NoDeliveryAfterDelete'
  BY <1>1, <1>7 DEF AnswersRemembered, DeletedOnce, NoDeliveryAfterDelete
<1>8. AnswersRemembered' /\ DeletedOnce' /\ NoDeliveryAfterDelete'
  BY <1>3, <1>4, <1>5, <1>6, <1>7
     DEF Next, Create, ReplaceGet, ReplaceGetFails, GuardBlocks, GuardAllows, Save,
         SaveFails, Replicate, Tick, vars
<1> QED
  BY <1>2, <1>8 DEF DInv

(* When no PUT is sent and the Scan is consistent, an event published      *)
(* after the 204 of a DELETE is not delivered for the deleted subscription. *)
THEOREM DeletionIsFinal ==
    ASSUME Replaces = {}, ~LaggingScan
    PROVE  Spec => []NoDeliveryAfterDelete
<1>1. Init => DInv
  BY RInvInit
  DEF DInv, Init, AnswersRemembered, DeletedOnce, NoDeliveryAfterDelete, Unpublished
<1>2. DInv /\ [Next]_vars => DInv'
  BY DInvStep
<1>3. DInv => NoDeliveryAfterDelete
  BY DEF DInv
<1> QED
  BY <1>1, <1>2, <1>3, PTL DEF Spec

(* Under the same conditions no subscription is deleted twice.             *)
THEOREM DeletionAnsweredOnce ==
    ASSUME Replaces = {}, ~LaggingScan
    PROVE  Spec => []DeletedOnce
<1>1. Init => DInv
  BY RInvInit
  DEF DInv, Init, AnswersRemembered, DeletedOnce, NoDeliveryAfterDelete, Unpublished
<1>2. DInv /\ [Next]_vars => DInv'
  BY DInvStep
<1>3. DInv => DeletedOnce
  BY DEF DInv
<1> QED
  BY <1>1, <1>2, <1>3, PTL DEF Spec

-----------------------------------------------------------------------------
(* With a consistent Scan, no subscription that matches throughout is      *)
(* missed.                                                                 *)

(* An id still owed to a scan is stored and matches, and is found or yet   *)
(* to be read.                                                             *)
OwedIsAhead ==
    \A e \in Publishes : scans[e].type # Null =>
        \A i \in owed[e] :
            /\ table[i] # Null
            /\ Matches(table[i].eventType, scans[e].type)
            /\ i \in scans[e].unread \/ \E row \in scans[e].found : row.id = i

(* A write of a row that no longer matches ends what the scans owe it.     *)
LEMMA WriteKeepsOwed ==
    ASSUME RInv, OwedIsAhead, NEW id \in Ids, NEW row \in Rows \cup {Null},
           Write(id, row), scans' = scans
    PROVE  OwedIsAhead'
<1> SUFFICES ASSUME NEW e \in Publishes, scans[e].type # Null, NEW i \in owed'[e]
             PROVE  /\ table'[i] # Null
                    /\ Matches(table'[i].eventType, scans[e].type)
                    /\ \/ i \in scans[e].unread
                       \/ \E found \in scans[e].found : found.id = i
  BY DEF OwedIsAhead
<1>1. /\ i \in owed[e]
      /\ i # id \/ (row # Null /\ Matches(row.eventType, scans[e].type))
  BY DEF Write
<1>2. i \in Ids /\ table'[i] = IF i = id THEN row ELSE table[i]
  BY <1>1 DEF RInv, TypeOK, Write
<1> QED
  BY <1>1, <1>2 DEF OwedIsAhead

LEMMA OwedStep ==
    ASSUME ~LaggingScan, RInv, OwedIsAhead, [Next]_vars
    PROVE  OwedIsAhead'
<1>1. TypeOK /\ RequestsSound /\ StoredRows /\ ScansTyped
  BY DEF RInv
<1>2. ASSUME UNCHANGED <<table, owed, scans>> PROVE OwedIsAhead'
  BY <1>2 DEF OwedIsAhead
<1>3. ASSUME NEW r \in Writers, Save(r) \/ SaveFails(r) PROVE OwedIsAhead'
  <2>1. requests[r].id \in Ids /\ requests[r].row \in Rows \cup {Null}
    BY <1>1, <1>3
    DEF Save, SaveFails, RequestsSound, Addressed, Working, TypeOK, RequestRecords
  <2> QED
    BY <1>2, <1>3, <2>1, WriteKeepsOwed DEF Save, SaveFails, NoWrite
<1>4. ASSUME NEW d \in Deletes, NEW id \in Ids, Delete(d, id) \/ DeleteFails(d, id)
      PROVE  OwedIsAhead'
  BY <1>2, <1>4, WriteKeepsOwed DEF Delete, DeleteFails, NoWrite
<1>5. ASSUME NEW e \in Publishes, NEW type \in Types, Publish(e, type)
      PROVE  OwedIsAhead'
  <2>1. /\ scans'[e].type = type /\ scans'[e].unread = Ids
        /\ owed'[e] = MatchingIds(type)
        /\ \A f \in Publishes : f # e => scans'[f] = scans[f] /\ owed'[f] = owed[f]
        /\ table' = table
    BY <1>1, <1>5 DEF Publish, TypeOK
  <2> QED
    BY <2>1 DEF OwedIsAhead, MatchingIds
<1>6. ASSUME NEW e \in Publishes, NEW id \in Ids, ScanRow(e, id)
      PROVE  OwedIsAhead'
  <2>1. /\ scans'[e].type = scans[e].type
        /\ scans'[e].unread = scans[e].unread \ {id}
        /\ scans[e].found \subseteq scans'[e].found
        /\ table[id] # Null /\ Matches(table[id].eventType, scans[e].type) =>
              table[id] \in scans'[e].found
        /\ \A f \in Publishes : f # e => scans'[f] = scans[f]
        /\ UNCHANGED <<table, owed>>
    BY <1>1, <1>6 DEF ScanRow, TypeOK, ScanRecords
  <2>2. table[id] # Null => table[id].id = id
    BY <1>1 DEF StoredRows
  <2> QED
    BY <2>1, <2>2 DEF OwedIsAhead
<1> QED
  BY <1>2, <1>3, <1>4, <1>5, <1>6
     DEF Next, Create, ReplaceGet, ReplaceGetFails, GuardBlocks, GuardAllows,
         NoWrite, Replicate, Tick, vars

(* With a consistent Scan, whatever is created, replaced or deleted while  *)
(* the pages are read, a subscription that matches from the publish to the *)
(* last page is found.                                                     *)
THEOREM ScanMissesNone ==
    ASSUME ~LaggingScan
    PROVE  Spec => []NoMatchMissed
<1>1. Init => RInv /\ OwedIsAhead
  BY RInvInit DEF Init, OwedIsAhead, Unpublished
<1>2. RInv /\ OwedIsAhead /\ [Next]_vars => RInv' /\ OwedIsAhead'
  BY RInvStep, OwedStep
<1>3. RInv /\ OwedIsAhead => NoMatchMissed
  BY DEF OwedIsAhead, NoMatchMissed
<1> QED
  BY <1>1, <1>2, <1>3, PTL DEF Spec

-----------------------------------------------------------------------------
(* The registry implements SubscriptionLifecycle, step by step.            *)

LEMMA InitOpens == Init => Lifecycle!Init
<1> SUFFICES ASSUME Init PROVE Lifecycle!Init
  OBVIOUS
<1>1. Closed = {}
  BY DEF Init, Closed, Ids, Writers, Idle
<1>2. Removed = [d \in Deletes |-> Null] /\ FoundRows = [e \in Publishes |-> {}]
  BY DEF Init, Removed, FoundRows, Unpublished
<1> QED
  BY <1>1, <1>2 DEF Init, Lifecycle!Init

(* A POST that ends without a row, one that saves its row, and a DELETE    *)
(* that finds one.                                                         *)
LEMMA RefusedIsRefuse ==
    ASSUME RInv, NEW r \in Creates, NEW code, Answer(r, code), requests[r].pc # "done",
           UNCHANGED <<table, deleted, scans>>
    PROVE  Lifecycle!Refuse(r)
<1>1. table[r] = Null
  BY DEF RInv, StoredRows, Ids
<1>2. /\ requests'[r].pc = "done"
      /\ \A q \in Writers : q # r => requests'[q] = requests[q]
  BY DEF Answer, RInv, TypeOK, Writers, RequestRecords
<1>3. Closed' = Closed \cup {r}
  BY <1>1, <1>2 DEF Closed, Ids, Writers
<1> QED
  BY <1>1, <1>3 DEF Lifecycle!Refuse, Lifecycle!IsOpen, Removed, FoundRows

LEMMA SavedIsOpen ==
    ASSUME RInv, NEW r \in Creates, NEW code, requests[r].pc = "save", Answer(r, code),
           Write(requests[r].id, requests[r].row), UNCHANGED <<deleted, scans>>
    PROVE  \E row \in Rows : Lifecycle!Open(r, row)
<1> DEFINE row == requests[r].row
<1>1. requests[r].id = r /\ row \in Rows /\ row.id = r
  BY DEF RInv, RequestsSound, Addressed, RowMade, TypeOK, Writers, RequestRecords
<1>2. table[r] = Null /\ r \notin Closed
  BY DEF RInv, StoredRows, Ids, Closed
<1>3. /\ requests'[r].pc = "done"
      /\ \A q \in Writers : q # r => requests'[q] = requests[q]
  BY DEF Answer, RInv, TypeOK, Writers, RequestRecords
<1>4. table' = [table EXCEPT ![r] = row]
  BY <1>1 DEF Write
<1>5. Closed' = Closed
  BY <1>1, <1>2, <1>3, <1>4, NullIsNoRow DEF Closed, Ids, Writers, RInv, TypeOK
<1>6. Lifecycle!Open(r, row)
  BY <1>1, <1>2, <1>4, <1>5 DEF Lifecycle!Open, Lifecycle!IsOpen, Removed, FoundRows
<1> QED
  BY <1>1, <1>6

(* DELETE d of id ends with `code', having emptied the row or not.         *)
Ended(d, id, code) ==
    /\ deleted[d] = Null
    /\ deleted' = [deleted EXCEPT ![d] = [id |-> id, answer |-> code]]
    /\ UNCHANGED <<requests, scans>>
    /\ \/ Write(id, Null) /\ (table[id] = Null => code # 204)
       \/ NoWrite /\ code # 204

LEMMA DeleteEnds ==
    ASSUME NEW d \in Deletes, NEW id \in Ids, Delete(d, id) \/ DeleteFails(d, id)
    PROVE  \E code \in {204, 404, 500} : Ended(d, id, code)
<1>1. CASE Delete(d, id)
  <2> DEFINE code == IF table[id] = Null THEN 404 ELSE 204
  <2>1. Ended(d, id, code)
    BY <1>1 DEF Delete, Ended
  <2> QED
    BY <2>1
<1>2. CASE DeleteFails(d, id)
  <2>1. Ended(d, id, 500)
    BY <1>2 DEF DeleteFails, Ended
  <2> QED
    BY <2>1
<1> QED
  BY <1>1, <1>2

LEMMA EndedIsCloseOrNothing ==
    ASSUME RInv, NEW d \in Deletes, NEW id \in Ids, NEW code \in {204, 404, 500},
           Ended(d, id, code)
    PROVE  Lifecycle!Close(id) \/ UNCHANGED Lifecycle!registryVars
<1> DEFINE answer == [id |-> id, answer |-> code]
<1>1. /\ deleted'[d] = answer
      /\ \A x \in Deletes : x # d => deleted'[x] = deleted[x]
  BY DEF RInv, TypeOK, Ended
<1>2. \A x \in Deletes : x # d => Removed'[x] = Removed[x]
  BY <1>1 DEF Removed
<1>3. /\ Removed[d] = Null
      /\ Removed'[d] \in {Null, id}
      /\ code # 204 => Removed'[d] = Null
  BY <1>1 DEF Removed, Ended
<1>4. /\ Removed = [x \in Deletes |-> Removed[x]]
      /\ Removed' = [x \in Deletes |-> Removed'[x]]
  BY DEF Removed
<1> HIDE DEF answer
<1>5. Removed'[d] = Null => Removed' = Removed
  BY <1>2, <1>3, <1>4
<1>6. UNCHANGED <<requests, scans>>
  BY DEF Ended
<1>7. CASE table[id] # Null /\ Write(id, Null)
  <2>1. requests[id].pc = "done"
    BY <1>7 DEF RInv, StoredRows
  <2>2. table' = [table EXCEPT ![id] = Null]
    BY <1>7 DEF Write
  <2>3. Closed' = Closed \cup {id}
    BY <1>6, <2>1, <2>2 DEF Closed, RInv, TypeOK
  <2>4. \/ Removed' = Removed
        \/ Removed[d] = Null /\ Removed' = [Removed EXCEPT ![d] = id]
    BY <1>2, <1>3, <1>4, <1>5
  <2> QED
    BY <1>6, <1>7, <2>2, <2>3, <2>4 DEF Lifecycle!Close, Lifecycle!IsOpen, FoundRows
<1>8. CASE table' = table /\ code # 204
  BY <1>3, <1>5, <1>6, <1>8 DEF Lifecycle!registryVars, Closed, FoundRows
<1>9. table[id] = Null /\ Write(id, Null) => table' = table
  BY DEF Write, RInv, TypeOK
<1> QED
  BY <1>7, <1>8, <1>9 DEF Ended, NoWrite

LEMMA FoundIsFind ==
    ASSUME ~LaggingScan, RInv, NEW e \in Publishes, NEW id \in Ids, ScanRow(e, id)
    PROVE  Lifecycle!Find(e, id) \/ UNCHANGED Lifecycle!registryVars
<1>1. UNCHANGED <<table, requests, deleted>>
  BY DEF ScanRow
<1>2. Closed' = Closed /\ Removed' = Removed
  BY <1>1 DEF Closed, Removed
<1>3. \A f \in Publishes : f # e => scans'[f].found = scans[f].found
  BY DEF ScanRow, RInv, TypeOK
<1>4. CASE table[id] # Null /\ Matches(table[id].eventType, scans[e].type)
  <2>1. scans'[e].found = scans[e].found \cup {table[id]}
    BY <1>4 DEF ScanRow, RInv, TypeOK, ScanRecords
  <2>2. FoundRows' = [FoundRows EXCEPT ![e] = @ \cup {table[id]}]
    BY <1>3, <2>1 DEF FoundRows
  <2> QED
    BY <1>1, <1>2, <1>4, <2>2 DEF Lifecycle!Find, Lifecycle!IsOpen
<1>5. CASE ~(table[id] # Null /\ Matches(table[id].eventType, scans[e].type))
  <2>1. scans'[e].found = scans[e].found
    BY <1>5 DEF ScanRow, RInv, TypeOK, ScanRecords
  <2>2. FoundRows' = FoundRows
    BY <1>3, <2>1 DEF FoundRows
  <2> QED
    BY <1>1, <1>2, <2>2 DEF Lifecycle!registryVars
<1> QED
  BY <1>4, <1>5

(* No step of the registry without PUTs is more than one instant of the    *)
(* abstract one.                                                           *)
LEMMA NextOpensOrCloses ==
    ASSUME Replaces = {}, ~LaggingScan
    PROVE  RInv /\ [Next]_vars => [Lifecycle!Next]_(Lifecycle!registryVars)
<1> SUFFICES ASSUME RInv, [Next]_vars
             PROVE  [Lifecycle!Next]_(Lifecycle!registryVars)
  OBVIOUS
<1>1. TypeOK /\ Writers = Creates /\ Ids = Creates
  BY DEF RInv, Writers, Ids
<1>2. ASSUME UNCHANGED <<table, requests, deleted>>, FoundRows' = FoundRows
      PROVE  UNCHANGED Lifecycle!registryVars
  BY <1>2 DEF Lifecycle!registryVars, Closed, Removed
<1>3. ASSUME NEW r \in Creates, NEW code, Answer(r, code), requests[r].pc # "done",
             UNCHANGED <<table, deleted, scans>>
      PROVE  Lifecycle!Next
  BY <1>1, <1>3, RefusedIsRefuse DEF Lifecycle!Next
<1>4. ASSUME NEW r \in Creates, NEW code, requests[r].pc = "save", Answer(r, code),
             Write(requests[r].id, requests[r].row), UNCHANGED <<deleted, scans>>
      PROVE  Lifecycle!Next
  BY <1>1, <1>4, SavedIsOpen DEF Lifecycle!Next
<1>5. ASSUME NEW r \in Creates, requests[r].pc # "done", requests'[r].pc # "done",
             \A q \in Writers : q # r => requests'[q] = requests[q],
             UNCHANGED <<table, deleted, scans>>
      PROVE  UNCHANGED Lifecycle!registryVars
  BY <1>1, <1>5 DEF Lifecycle!registryVars, Closed, Removed, FoundRows
<1>6. ASSUME NEW r \in Creates, NEW body \in Inputs \cup {Null}, Create(r, body)
      PROVE  [Lifecycle!Next]_(Lifecycle!registryVars)
  <2>1. UNCHANGED <<table, deleted, scans>> /\ requests[r].pc = "idle"
    BY <1>6 DEF Create, NoWrite
  <2>2. \A q \in Writers : q # r => requests'[q] = requests[q]
    BY <1>1, <1>6 DEF Create, Parse
  <2>3. CASE requests'[r].pc # "done"
    BY <1>5, <2>1, <2>2, <2>3
  <2>4. CASE requests'[r].pc = "done"
    <3>1. table[r] = Null
      BY <1>1, <2>1 DEF RInv, StoredRows
    <3>2. Closed' = Closed \cup {r}
      BY <1>1, <2>1, <2>2, <2>4, <3>1 DEF Closed
    <3>3. Lifecycle!Refuse(r)
      BY <2>1, <3>1, <3>2 DEF Lifecycle!Refuse, Lifecycle!IsOpen, Removed, FoundRows
    <3> QED
      BY <1>1, <3>3 DEF Lifecycle!Next
  <2> QED
    BY <2>3, <2>4
<1>7. ASSUME NEW r \in Creates, GuardBlocks(r) PROVE Lifecycle!Next
  BY <1>3, <1>7 DEF GuardBlocks, NoWrite
<1>8. ASSUME NEW r \in Creates, GuardAllows(r) PROVE UNCHANGED Lifecycle!registryVars
  <2>1. /\ requests[r].pc = "guard" /\ requests'[r].pc = "save"
        /\ \A q \in Writers : q # r => requests'[q] = requests[q]
    BY <1>1, <1>8 DEF GuardAllows, TypeOK, RequestRecords
  <2> QED
    BY <1>5, <1>8, <2>1 DEF GuardAllows, NoWrite
<1>9. ASSUME NEW r \in Creates, Save(r) PROVE Lifecycle!Next
  BY <1>4, <1>9 DEF Save
<1>10. ASSUME NEW r \in Creates, SaveFails(r) PROVE Lifecycle!Next
  BY <1>3, <1>4, <1>10 DEF SaveFails, NoWrite
<1>11. ASSUME NEW d \in Deletes, NEW id \in Ids, Delete(d, id) \/ DeleteFails(d, id)
       PROVE  [Lifecycle!Next]_(Lifecycle!registryVars)
  BY <1>11, EndedIsCloseOrNothing, DeleteEnds DEF Lifecycle!Next
<1>12. ASSUME NEW e \in Publishes, NEW type \in Types, Publish(e, type)
       PROVE  UNCHANGED Lifecycle!registryVars
  <2>1. scans[e].found = {} /\ scans'[e].found = {}
    BY <1>1, <1>12 DEF Publish, RInv, ScansTyped, TypeOK
  <2>2. \A f \in Publishes : f # e => scans'[f] = scans[f]
    BY <1>1, <1>12 DEF Publish, TypeOK
  <2>3. FoundRows' = FoundRows
    BY <2>1, <2>2 DEF FoundRows
  <2> QED
    BY <1>2, <1>12, <2>3 DEF Publish
<1>13. ASSUME NEW e \in Publishes, NEW id \in Ids, ScanRow(e, id)
       PROVE  [Lifecycle!Next]_(Lifecycle!registryVars)
  BY <1>13, FoundIsFind DEF Lifecycle!Next
<1>14. CASE Tick \/ UNCHANGED vars
  BY <1>2, <1>14 DEF Tick, vars, FoundRows
<1> QED
  BY <1>1, <1>6, <1>7, <1>8, <1>9, <1>10, <1>11, <1>12, <1>13, <1>14 DEF Next, Replicate

(* When no PUT is sent and the Scan is consistent, clients cannot tell the *)
(* registry from one whose subscriptions open once, are found only while   *)
(* they are open, and are closed for good: whatever POSTs and DELETEs do   *)
(* to each other, and however their store calls fail.                      *)
THEOREM RegistryImplementsLifecycle ==
    ASSUME Replaces = {}, ~LaggingScan
    PROVE  Spec => ImplementsLifecycle
<1>1. /\ Init => Lifecycle!Init
      /\ RInv /\ [Next]_vars => [Lifecycle!Next]_(Lifecycle!registryVars)
  BY InitOpens, NextOpensOrCloses
<1> QED
  BY <1>1, RegistryInvariant, PTL DEF Spec, ImplementsLifecycle, Lifecycle!Spec
=============================================================================
