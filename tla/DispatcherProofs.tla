-------------------------- MODULE DispatcherProofs --------------------------
(***************************************************************************)
(* The dispatcher alone (RECOVERY_INTERVAL_MS = 0), for every value of the *)
(* other constants: a delivery is driven by one run at a time, and its row *)
(* goes through the state machine of DeliveryLifecycle.  AloneInv is       *)
(* inductive relative to IInv.                                             *)
(***************************************************************************)
EXTENDS WebhookServiceProofs

-----------------------------------------------------------------------------
(* One run moves on.                                                       *)

(* What IInv and AloneInv say of a run at an await, and of its row.        *)
LEMMA AloneFacts ==
    ASSUME IInv, AloneInv,
           NEW d \in Deliveries, NEW s \in Slots, runs[d][s].pc # "idle"
    PROVE  /\ runs[d][s] \in RunStates
           /\ CopyFits(runs[d][s])
           /\ RowFits(runs[d][s], rows[d])
           /\ \A t \in Slots : t # s => runs[d][t].pc = "idle"
           /\ rows[d] # Null => rows[d] \in DeliveryRecords
           /\ posts[d] \in Nat
           /\ posts[d] <= IF rows[d] # Null THEN rows[d].attempts ELSE 0
           /\ "success" \in heard[d] =>
                 /\ rows[d] # Null /\ rows[d].status \in {"delivering", "delivered"}
                 /\ SuccessFits(runs[d][s])
<1>1. /\ runs[d][s] \in RunStates /\ CopyFits(runs[d][s])
      /\ rows[d] # Null => rows[d] \in DeliveryRecords
      /\ posts[d] \in 0..MaxPosts
  BY RunFacts
<1>2. /\ RowFits(runs[d][s], rows[d])
      /\ \A t \in Slots : t # s => runs[d][t].pc = "idle"
  BY DEF AloneInv, OneRunEach, Active
<1> QED
  BY <1>1, <1>2 DEF AloneInv, PostsAreCounted, Exists, SuccessIsKept

(* A delivery with a run under way is one whose dispatch is done.          *)
LEMMA RunsComeLast ==
    ASSUME AloneInv, NEW d \in Deliveries, NEW s \in Slots,
           runs[d][s].pc # "idle"
    PROVE  /\ d[1] \in Events /\ d[2] \in Subs /\ d = <<d[1], d[2]>>
           /\ dispatch[d[1]].pc = "done"
<1>1. d[1] \in Events /\ d[2] \in Subs /\ d = <<d[1], d[2]>>
  BY DEF Deliveries
<1>2. s \in Active(d)
  BY DEF Active
<1> QED
  BY <1>1, <1>2 DEF AloneInv, RowsComeFirst, Untouched

(* A step that touches the one run of a delivery, its row and its history  *)
(* keeps AloneInv if the row fits what the run then knows.                 *)
LEMMA AloneRunMoves ==
    ASSUME IInv, AloneInv,
           NEW d \in Deliveries, NEW s \in Slots, runs[d][s].pc # "idle",
           NEW r, GoTo(d, s, r),
           \A x \in Deliveries : x # d =>
              rows'[x] = rows[x] /\ heard'[x] = heard[x] /\ posts'[x] = posts[x],
           rows'[d] = rows[d] \/ rows'[d] # Null,
           RowFits(r, rows'[d]),
           "success" \in heard'[d] =>
              /\ rows'[d] # Null /\ rows'[d].status \in {"delivering", "delivered"}
              /\ SuccessFits(r),
           posts'[d] <= IF rows'[d] # Null THEN rows'[d].attempts ELSE 0,
           UNCHANGED <<dispatch, sweep>>
    PROVE  AloneInv'
<1>1. \A x \in Deliveries, t \in Slots :
         runs'[x][t] = IF x = d /\ t = s THEN r ELSE runs[x][t]
  BY DEF IInv, TypeOK, DispatcherTypeOK, GoTo
<1>2. \A t \in Slots : t # s => runs[d][t].pc = "idle"
  BY AloneFacts
<1>3. OneRunEach'
  <2> SUFFICES ASSUME NEW x \in Deliveries
               PROVE  /\ \A t, u \in Active(x)' : t = u
                      /\ \A t \in Slots : RowFits(runs'[x][t], rows'[x])
    BY DEF OneRunEach
  <2>1. CASE x = d
    <3>1. \A t \in Slots : t # s => runs'[d][t].pc = "idle"
      BY <1>1, <1>2
    <3>2. \A row, run : run.pc = "idle" => RowFits(run, row)
      BY DEF RowFits
    <3> QED BY <1>1, <2>1, <3>1, <3>2 DEF Active
  <2>2. CASE x # d
    BY <1>1, <2>2 DEF AloneInv, OneRunEach, Active
  <2> QED BY <2>1, <2>2
<1>4. RowsComeFirst'
  <2>1. \A x \in Deliveries : x # d => (Untouched(x) => Untouched(x)')
    BY <1>1 DEF Untouched, Active
  <2>2. \A x \in Deliveries : x # d => rows'[x] = rows[x]
    OBVIOUS
  <2>3. \A e \in Events, sub \in Subs :
           <<e, sub>> \in Deliveries /\ (<<e, sub>> = d => e = d[1])
    BY DEF Deliveries
  <2>4. dispatch[d[1]].pc = "done"
    BY RunsComeLast
  <2>5. \A e \in Events : dispatch[e] \in DispatchStates
    BY DEF IInv, TypeOK, DispatcherTypeOK
  <2>6. dispatch' = dispatch /\ RowsComeFirst
    BY DEF AloneInv
  <2>7. ASSUME NEW e \in Events
        PROVE  \A sub \in dispatch[e].made : rows'[<<e, sub>>] # Null
    BY <2>2, <2>3, <2>5, <2>6 DEF RowsComeFirst, DispatchStates
  <2>8. ASSUME NEW e \in Events, dispatch[e].pc # "done"
        PROVE  \A sub \in Subs : /\ Untouched(<<e, sub>>)'
                                 /\ rows'[<<e, sub>>] = rows[<<e, sub>>]
    BY <2>1, <2>2, <2>3, <2>4, <2>6, <2>8 DEF RowsComeFirst
  <2> QED
    BY <2>5, <2>6, <2>7, <2>8 DEF RowsComeFirst, DispatchStates
<1>5. SuccessIsKept'
  <2> SUFFICES ASSUME NEW x \in Deliveries, "success" \in heard'[x]
               PROVE  /\ rows'[x] # Null
                      /\ rows'[x].status \in {"delivering", "delivered"}
                      /\ \A t \in Slots : SuccessFits(runs'[x][t])
    BY DEF SuccessIsKept
  <2>1. CASE x = d
    <3>1. \A run : run.pc = "idle" => SuccessFits(run)
      BY DEF SuccessFits
    <3> QED BY <1>1, <1>2, <2>1, <3>1
  <2>2. CASE x # d
    BY <1>1, <2>2 DEF AloneInv, SuccessIsKept
  <2> QED BY <2>1, <2>2
<1>6. PostsAreCounted'
  BY DEF AloneInv, PostsAreCounted, Exists
<1> QED BY <1>3, <1>4, <1>5, <1>6 DEF AloneInv

-----------------------------------------------------------------------------
(* One lemma per step of a run.                                            *)

(* A run may end where it stands, with or without saving what it holds.    *)
LEMMA AloneRunEnds ==
    ASSUME IInv, AloneInv,
           NEW d \in Deliveries, NEW s \in Slots, runs[d][s].pc # "idle",
           GoTo(d, s, NoRun),
           \/ rows' = rows
           \/ runs[d][s].pc \in {"giveUp", "mark", "record"} /\ Save(d, runs[d][s].mine),
           UNCHANGED <<dispatch, heard, posts, sweep>>
    PROVE  AloneInv'
<1> DEFINE run == runs[d][s]
<1>1. RowFits(NoRun, rows'[d]) /\ SuccessFits(NoRun)
  BY DEF RowFits, SuccessFits, NoRun
<1>2. CASE rows' = rows
  BY <1>1, <1>2, AloneFacts, AloneRunMoves
<1>3. CASE run.pc \in {"giveUp", "mark", "record"} /\ Save(d, run.mine)
  <2>1. /\ run.mine \in DeliveryRecords
        /\ \A x \in Deliveries :
              rows'[x] = IF x = d THEN run.mine ELSE rows[x]
    BY <1>3, AloneFacts DEF CopyFits, Save, IInv, TypeOK, DispatcherTypeOK
  <2>2. run.mine # Null
    BY <2>1, NullAssumption
  <2>3. /\ rows[d] # Null /\ rows[d] \in DeliveryRecords
        /\ run.mine.attempts \in {rows[d].attempts, rows[d].attempts + 1}
    BY <1>3, AloneFacts DEF RowFits
  <2>4. posts[d] <= run.mine.attempts
    BY <2>1, <2>3, AloneFacts DEF DeliveryRecords
  <2>5. "success" \in heard[d] => run.mine.status = "delivered"
    BY <1>3, AloneFacts DEF SuccessFits
  <2> QED
    BY <1>1, <2>1, <2>2, <2>4, <2>5, AloneRunMoves
<1> QED BY <1>2, <1>3

(* resumeDelivery takes the row as it is.                                  *)
LEMMA ReadRowAlone ==
    ASSUME IInv, AloneInv, NEW d \in Deliveries, NEW s \in Slots,
           ReadRow(d, s), UNCHANGED sweep
    PROVE  AloneInv'
<1> DEFINE run == runs[d][s]
           row == rows[d]
<1>1. /\ run.pc = "get"
      /\ UNCHANGED <<dispatch, rows, heard, posts>>
  BY DEF ReadRow
<1>2. "success" \notin heard[d]
  BY <1>1, AloneFacts DEF SuccessFits
<1>3. posts[d] <= IF row # Null THEN row.attempts ELSE 0
  BY <1>1, AloneFacts
<1>4. CASE GoTo(d, s, NoRun)
  BY <1>1, <1>4, AloneRunEnds
<1>5. CASE /\ row # Null /\ row.status = "pending"
           /\ GoTo(d, s, [run EXCEPT !.pc = "giveUp",
                                     !.mine = abandonDelivery(row, "limit")])
  <2> DEFINE r == [run EXCEPT !.pc = "giveUp", !.mine = abandonDelivery(row, "limit")]
  <2>1. row \in DeliveryRecords /\ run \in RunStates
    BY <1>1, <1>5, AloneFacts
  <2>2. RowFits(r, row)
    BY <1>5, <2>1 DEF RowFits, RunStates, abandonDelivery, DeliveryRecords
  <2> QED BY <1>1, <1>2, <1>3, <1>5, <2>2, AloneRunMoves
<1>6. CASE /\ row # Null
           /\ GoTo(d, s, [run EXCEPT !.pc = "getEvent", !.mine = row])
  <2> DEFINE r == [run EXCEPT !.pc = "getEvent", !.mine = row]
  <2>1. RowFits(r, row)
    BY <1>1, AloneFacts DEF RowFits, RunStates
  <2> QED BY <1>1, <1>2, <1>3, <1>6, <2>1, AloneRunMoves
<1> QED BY <1>4, <1>5, <1>6 DEF ReadRow

(* Giving up on a delivery whose row is the run's copy.                    *)
LEMMA GiveUpAlone ==
    ASSUME IInv, AloneInv, NEW d \in Deliveries, NEW s \in Slots,
           NEW reason \in {"blocked", "eventGone"},
           runs[d][s].pc \in {"getEvent", "guard"},
           GoTo(d, s, [runs[d][s] EXCEPT
                          !.pc = "giveUp",
                          !.mine = abandonDelivery(runs[d][s].mine, reason)]),
           Learn(d, reason),
           UNCHANGED <<dispatch, rows, posts, sweep>>
    PROVE  AloneInv'
<1> DEFINE run == runs[d][s]
           r == [run EXCEPT !.pc = "giveUp",
                            !.mine = abandonDelivery(run.mine, reason)]
<1>1. /\ run \in RunStates /\ run.mine \in DeliveryRecords
      /\ run.mine.status = "pending" /\ rows[d] = run.mine
  BY AloneFacts DEF CopyFits, RowFits
<1>2. /\ \A x \in Deliveries : x # d => heard'[x] = heard[x]
      /\ "success" \in heard'[d] => "success" \in heard[d]
  BY RunFacts DEF Learn
<1>3. "success" \notin heard'[d]
  BY <1>2, AloneFacts DEF SuccessFits
<1>4. RowFits(r, rows[d])
  BY <1>1, NullAssumption DEF RowFits, RunStates, abandonDelivery, DeliveryRecords
<1> QED
  BY <1>2, <1>3, <1>4, AloneFacts, AloneRunMoves

(* resumeDelivery reads the event of a row that is still its copy.         *)
LEMMA ReadEventAlone ==
    ASSUME IInv, AloneInv, NEW d \in Deliveries, NEW s \in Slots,
           ReadEvent(d, s), UNCHANGED sweep
    PROVE  AloneInv'
<1> DEFINE run == runs[d][s]
           r == [run EXCEPT !.pc = "guard"]
<1>1. run.pc = "getEvent" /\ UNCHANGED <<dispatch, rows, posts>>
  BY DEF ReadEvent
<1>2. CASE GoTo(d, s, r) /\ UNCHANGED heard
  <2>1. RowFits(r, rows[d]) /\ "success" \notin heard[d]
    BY <1>1, AloneFacts DEF RowFits, SuccessFits, RunStates
  <2> QED BY <1>1, <1>2, <2>1, AloneFacts, AloneRunMoves
<1>3. CASE /\ GoTo(d, s, [run EXCEPT
                  !.pc = "giveUp", !.mine = abandonDelivery(run.mine, "eventGone")])
           /\ Learn(d, "eventGone")
  BY <1>1, <1>3, GiveUpAlone
<1> QED BY <1>2, <1>3 DEF ReadEvent

(* attemptDelivery gives up a blocked delivery.                            *)
LEMMA GuardBlocksAlone ==
    ASSUME IInv, AloneInv, NEW d \in Deliveries, NEW s \in Slots,
           GuardBlocks(d, s), UNCHANGED sweep
    PROVE  AloneInv'
BY GiveUpAlone DEF GuardBlocks

(* attemptDelivery marks one attempt more than its row counts.             *)
LEMMA GuardAllowsAlone ==
    ASSUME IInv, AloneInv, NEW d \in Deliveries, NEW s \in Slots,
           GuardAllows(d, s), UNCHANGED sweep
    PROVE  AloneInv'
<1> DEFINE run == runs[d][s]
           r == [run EXCEPT !.pc = "mark", !.mine = beginAttempt(run.mine),
                            !.left = StoreTimeout]
<1>1. /\ run.pc = "guard" /\ GoTo(d, s, r)
      /\ UNCHANGED <<dispatch, rows, heard, posts>>
  BY DEF GuardAllows
<1>2. /\ run \in RunStates /\ run.mine \in DeliveryRecords
      /\ run.mine.status = "pending" /\ run.mine.attempts < MaxAttempts
      /\ rows[d] = run.mine /\ "success" \notin heard[d]
  BY <1>1, AloneFacts DEF CopyFits, RowFits, SuccessFits
<1>3. r.pc = "mark" /\ r.mine.attempts = rows[d].attempts + 1
  BY <1>2, BeginSound DEF RunStates
<1>4. RowFits(r, rows[d])
  BY <1>2, <1>3, NullAssumption DEF RowFits
<1> QED BY <1>1, <1>2, <1>4, AloneFacts, AloneRunMoves

(* The mark is saved, and the POST it counts is sent.                      *)
LEMMA MarkSavedAlone ==
    ASSUME IInv, AloneInv, NEW d \in Deliveries, NEW s \in Slots,
           MarkSaved(d, s), UNCHANGED sweep
    PROVE  AloneInv'
<1> DEFINE run == runs[d][s]
           r == [run EXCEPT !.pc = "send", !.left = WebhookTimeout]
<1>1. /\ run.pc = "mark" /\ GoTo(d, s, r) /\ Save(d, run.mine)
      /\ posts' = [posts EXCEPT ![d] = IF @ < MaxPosts THEN @ + 1 ELSE @]
      /\ UNCHANGED <<dispatch, heard>>
  BY DEF MarkSaved
<1>2. /\ run \in RunStates /\ run.mine \in DeliveryRecords
      /\ rows[d] \in DeliveryRecords
      /\ run.mine.attempts = rows[d].attempts + 1
      /\ posts[d] \in Nat /\ posts[d] <= rows[d].attempts
      /\ "success" \notin heard[d]
  BY <1>1, AloneFacts DEF CopyFits, RowFits, SuccessFits
<1>3. \A x \in Deliveries : /\ rows'[x] = IF x = d THEN run.mine ELSE rows[x]
                            /\ x # d => posts'[x] = posts[x]
  BY <1>1 DEF Save, IInv, TypeOK, DispatcherTypeOK
<1>4. posts'[d] \in {posts[d], posts[d] + 1}
  BY <1>1, RunFacts
<1>5. posts'[d] <= run.mine.attempts
  BY <1>2, <1>4 DEF DeliveryRecords
<1>6. RowFits(r, run.mine)
  BY <1>2 DEF RowFits, RunStates
<1> QED
  BY <1>1, <1>2, <1>3, <1>5, <1>6, NullAssumption, AloneRunMoves

(* The result of an attempt leaves its count alone; a 2xx is a delivery,   *)
(* and nothing else is.                                                    *)
LEMMA ResultFacts ==
    ASSUME NEW r \in DeliveryRecords, NEW class \in Classifications,
           NEW delay \in 0..RetryMaxDelay
    PROVE  /\ Result(r, class, delay).attempts = r.attempts
           /\ Result(r, class, delay).status = "pending" => r.attempts < MaxAttempts
           /\ class = "success" <=> Result(r, class, delay).status = "delivered"
<1>1. CASE class = "success"
  BY <1>1 DEF Result, completeDelivered, DeliveryRecords
<1>2. CASE class # "success" /\ Retries(r, class)
  BY <1>2 DEF Result, Retries, hasAttemptsRemaining, scheduleRetry, DeliveryRecords
<1>3. CASE class # "success" /\ ~Retries(r, class)
  BY <1>3 DEF Result, completeFailed, DeliveryRecords
<1> QED BY <1>1, <1>2, <1>3

(* The result is computed from a copy that is still the row.               *)
LEMMA AnswerAlone ==
    ASSUME IInv, AloneInv, NEW d \in Deliveries, NEW s \in Slots,
           Answer(d, s), UNCHANGED sweep
    PROVE  AloneInv'
<1> DEFINE run == runs[d][s]
<1>1. run.pc = "send" /\ UNCHANGED <<dispatch, rows, posts>>
  BY DEF Answer
<1>2. /\ run \in RunStates /\ run.mine \in DeliveryRecords
      /\ run.mine.status = "delivering" /\ rows[d] = run.mine
      /\ "success" \notin heard[d]
  BY <1>1, AloneFacts DEF CopyFits, RowFits, SuccessFits
<1>3. PICK outcome \in Outcomes :
         \E delay \in DelaysOf(run.mine, classifyOutcome(outcome)) :
            /\ Learn(d, classifyOutcome(outcome))
            /\ GoTo(d, s, [run EXCEPT
                   !.pc = "record",
                   !.mine = Result(run.mine, classifyOutcome(outcome), delay),
                   !.left = StoreTimeout,
                   !.delay = delay])
  BY DEF Answer
<1> DEFINE class == classifyOutcome(outcome)
<1>4. PICK delay \in DelaysOf(run.mine, class) :
         /\ Learn(d, class)
         /\ GoTo(d, s, [run EXCEPT
                !.pc = "record", !.mine = Result(run.mine, class, delay),
                !.left = StoreTimeout, !.delay = delay])
  BY <1>3
<1> DEFINE result == Result(run.mine, class, delay)
           r == [run EXCEPT !.pc = "record", !.mine = result,
                            !.left = StoreTimeout, !.delay = delay]
<1>5. class \in Classifications /\ delay \in 0..RetryMaxDelay
  BY <1>2, AnswerFacts
<1> HIDE DEF class
<1>6. /\ result.attempts = rows[d].attempts
      /\ result.status = "pending" => rows[d].attempts < MaxAttempts
      /\ class = "success" <=> result.status = "delivered"
  BY <1>2, <1>5, ResultFacts
<1>7. /\ \A x \in Deliveries : x # d => heard'[x] = heard[x]
      /\ "success" \in heard'[d] => class = "success"
  BY <1>2, <1>4, RunFacts DEF Learn
<1> HIDE DEF result
<1>8. r.pc = "record" /\ r.mine = result
  BY <1>2 DEF RunStates
<1>9. GoTo(d, s, r)
  BY <1>4 DEF result
<1> HIDE DEF r
<1>10. RowFits(r, rows[d]) /\ (class = "success" => SuccessFits(r))
  BY <1>2, <1>6, <1>8, NullAssumption DEF RowFits, SuccessFits
<1> QED
  BY <1>1, <1>2, <1>7, <1>9, <1>10, AloneFacts, AloneRunMoves, NullAssumption

(* The result is saved; a retry leaves a timer and no copy.                *)
LEMMA RecordSavedAlone ==
    ASSUME IInv, AloneInv, NEW d \in Deliveries, NEW s \in Slots,
           RecordSaved(d, s), UNCHANGED sweep
    PROVE  AloneInv'
<1> DEFINE run == runs[d][s]
           r == [NoRun EXCEPT !.pc = "backoff", !.left = run.delay]
<1>1. /\ run.pc = "record" /\ Save(d, run.mine)
      /\ GoTo(d, s, IF run.mine.status = "pending" THEN r ELSE NoRun)
      /\ UNCHANGED <<dispatch, heard, posts>>
  BY DEF RecordSaved
<1>2. CASE run.mine.status # "pending"
  BY <1>1, <1>2, AloneRunEnds
<1>3. CASE run.mine.status = "pending"
  <2>1. /\ run.mine \in DeliveryRecords
        /\ posts[d] <= run.mine.attempts
        /\ "success" \notin heard[d]
    BY <1>1, <1>3, AloneFacts DEF CopyFits, RowFits, SuccessFits
  <2>2. \A x \in Deliveries : rows'[x] = IF x = d THEN run.mine ELSE rows[x]
    BY <1>1 DEF Save, IInv, TypeOK, DispatcherTypeOK
  <2>3. GoTo(d, s, r) /\ RowFits(r, run.mine)
    BY <1>1, <1>3 DEF RowFits, NoRun
  <2> HIDE DEF r
  <2> QED
    BY <1>1, <2>1, <2>2, <2>3, NullAssumption, AloneRunMoves
<1> QED BY <1>2, <1>3

(* A timer that fires knows nothing of the row.                            *)
LEMMA FireTimerAlone ==
    ASSUME IInv, AloneInv, NEW d \in Deliveries, NEW s \in Slots,
           FireTimer(d, s), UNCHANGED sweep
    PROVE  AloneInv'
<1> DEFINE r == [NoRun EXCEPT !.pc = "get"]
<1>1. /\ runs[d][s].pc = "backoff" /\ GoTo(d, s, r)
      /\ UNCHANGED <<dispatch, rows, heard, posts>>
  BY DEF FireTimer
<1>2. RowFits(r, rows[d]) /\ "success" \notin heard[d]
  BY <1>1, AloneFacts DEF RowFits, SuccessFits, NoRun
<1> QED BY <1>1, <1>2, AloneFacts, AloneRunMoves

(* Every step of a run keeps AloneInv.                                     *)
LEMMA RunAlone ==
    ASSUME IInv, AloneInv, NEW d \in Deliveries, NEW s \in Slots,
           RunStep(d, s) \/ RunFault(d, s), UNCHANGED sweep
    PROVE  AloneInv'
<1>1. CASE RunSaveFails(d, s)
  BY <1>1, AloneRunEnds DEF RunSaveFails, SaveRejects
<1>2. CASE RunReadFails(d, s)
  BY <1>2, AloneRunEnds DEF RunReadFails
<1>3. CASE GiveUpSaved(d, s)
  BY <1>3, AloneRunEnds DEF GiveUpSaved
<1> QED
  BY <1>1, <1>2, <1>3, ReadRowAlone, ReadEventAlone, GuardAllowsAlone,
     GuardBlocksAlone, MarkSavedAlone, AnswerAlone, RecordSavedAlone,
     FireTimerAlone
  DEF RunStep, RunFault

-----------------------------------------------------------------------------
(* The steps of ingestion and dispatch.                                    *)

(* AloneInv is about the variables of the dispatcher and the sweep only.   *)
LEMMA AloneStays ==
    ASSUME AloneInv, UNCHANGED <<dispatch, rows, runs, heard, posts, sweep>>
    PROVE  AloneInv'
BY DEF AloneInv, OneRunEach, RowsComeFirst, SuccessIsKept, PostsAreCounted,
       Active, Untouched, Exists

(* A step of an event that is not dispatched yet may make its rows.        *)
LEMMA AloneEventMoves ==
    ASSUME IInv, AloneInv, NEW e \in Events, dispatch[e].pc # "done",
           \A f \in Events : f # e => dispatch'[f] = dispatch[f],
           \A f \in Events, sub \in Subs :
              \/ rows'[<<f, sub>>] = rows[<<f, sub>>]
              \/ /\ f = e /\ rows[<<f, sub>>] = Null
                 /\ rows'[<<f, sub>>] = CreatedDelivery,
           dispatch'[e].pc = "done" => dispatch'[e].unsaved = {},
           dispatch'[e].pc \in {"idle", "accept", "match"} =>
              \A sub \in Subs : rows'[<<e, sub>>] = Null,
           dispatch'[e].pc = "materialize" =>
              \A sub \in dispatch'[e].unsaved : rows'[<<e, sub>>] = Null,
           \A sub \in dispatch'[e].made : rows'[<<e, sub>>] # Null,
           UNCHANGED <<runs, heard, posts, sweep>>
    PROVE  AloneInv'
<1>1. \A d \in Deliveries : d[1] \in Events /\ d[2] \in Subs /\ d = <<d[1], d[2]>>
  BY DEF Deliveries
<1>2. \A f \in Events, sub \in Subs : <<f, sub>> \in Deliveries
  BY DEF Deliveries
<1>3. CreatedDelivery # Null
  BY CreatedRecord, NullAssumption
<1>4. \A d \in Deliveries :
         \/ rows'[d] = rows[d]
         \/ rows'[d] = CreatedDelivery /\ Untouched(d)
  BY <1>1, <1>2 DEF AloneInv, RowsComeFirst
<1>5. \A d \in Deliveries : Untouched(d) => Untouched(d)'
  BY <1>4 DEF Untouched, Active
<1>6. OneRunEach'
  <2> SUFFICES ASSUME NEW d \in Deliveries
               PROVE  /\ \A s, t \in Active(d)' : s = t
                      /\ \A s \in Slots : RowFits(runs'[d][s], rows'[d])
    BY DEF OneRunEach
  <2>1. \A row, run : run.pc = "idle" => RowFits(run, row)
    BY DEF RowFits
  <2>2. CASE Untouched(d)
    BY <2>1, <2>2 DEF AloneInv, OneRunEach, Active, Untouched
  <2>3. CASE rows'[d] = rows[d]
    BY <2>3 DEF AloneInv, OneRunEach, Active
  <2> QED BY <1>4, <2>2, <2>3
<1>7. RowsComeFirst'
  <2> SUFFICES ASSUME NEW f \in Events
               PROVE  /\ dispatch'[f].pc = "done" => dispatch'[f].unsaved = {}
                      /\ dispatch'[f].pc # "done" =>
                            \A sub \in Subs : Untouched(<<f, sub>>)'
                      /\ dispatch'[f].pc \in {"idle", "accept", "match"} =>
                            \A sub \in Subs : rows'[<<f, sub>>] = Null
                      /\ dispatch'[f].pc = "materialize" =>
                            \A sub \in dispatch'[f].unsaved :
                               rows'[<<f, sub>>] = Null
                      /\ \A sub \in dispatch'[f].made : rows'[<<f, sub>>] # Null
    BY DEF RowsComeFirst
  <2>1. CASE f = e
    BY <1>2, <1>5, <2>1 DEF AloneInv, RowsComeFirst
  <2>2. CASE f # e
    <3>1. dispatch'[f] = dispatch[f] /\ dispatch[f] \in DispatchStates
      BY <2>2 DEF IInv, TypeOK, DispatcherTypeOK
    <3>2. \A sub \in Subs : rows'[<<f, sub>>] = rows[<<f, sub>>]
      BY <2>2
    <3> QED
      BY <1>2, <1>5, <3>1, <3>2 DEF AloneInv, RowsComeFirst, DispatchStates
  <2> QED BY <2>1, <2>2
<1>8. SuccessIsKept'
  <2>1. \A d \in Deliveries : Untouched(d) => "success" \notin heard'[d]
    BY DEF Untouched
  <2> QED BY <1>4, <2>1 DEF AloneInv, SuccessIsKept
<1>9. PostsAreCounted'
  <2>1. \A d \in Deliveries : Untouched(d) => posts'[d] = 0
    BY DEF Untouched
  <2> QED
    BY <1>3, <1>4, <2>1, CreatedRecord DEF AloneInv, PostsAreCounted, Exists
<1> QED BY <1>6, <1>7, <1>8, <1>9 DEF AloneInv

(* Ingestion and matching: there are no rows yet.                          *)
LEMMA IngestAlone ==
    ASSUME IInv, AloneInv, NEW e \in Events,
           \/ Submit(e) \/ SaveEvent(e) \/ SaveEventFails(e)
           \/ Match(e) \/ MatchFails(e),
           UNCHANGED sweep
    PROVE  AloneInv'
<1>1. /\ dispatch[e].pc \in {"idle", "accept", "match"}
      /\ UNCHANGED <<rows, runs, heard, posts>>
  BY DEF Submit, SaveEvent, SaveEventFails, Match, MatchFails
<1>2. dispatch \in [Events -> DispatchStates] /\ dispatch[e] \in DispatchStates
  BY DispatchTypes
<1>3. /\ \A sub \in Subs : rows[<<e, sub>>] = Null
      /\ \A sub \in dispatch[e].made : rows[<<e, sub>>] # Null
  BY <1>1 DEF AloneInv, RowsComeFirst
<1>4. CASE \E pc \in {"accept", "match", "rejected", "failed"} :
              dispatch' = [dispatch EXCEPT ![e].pc = pc]
  <2>1. PICK pc \in {"accept", "match", "rejected", "failed"} :
           dispatch' = [dispatch EXCEPT ![e].pc = pc]
    BY <1>4
  <2>2. /\ \A f \in Events : f # e => dispatch'[f] = dispatch[f]
        /\ dispatch'[e].pc = pc /\ dispatch'[e].made = dispatch[e].made
    BY <1>2, <2>1 DEF DispatchStates
  <2> QED BY <1>1, <1>3, <2>2, AloneEventMoves
<1>5. CASE Match(e)
  <2>1. PICK matched \in SUBSET Subs :
           dispatch' = [dispatch EXCEPT
               ![e] = [pc |-> IF matched = {} THEN "done" ELSE "materialize",
                       matched |-> matched, unsaved |-> matched, made |-> {}]]
    BY <1>5 DEF Match
  <2>2. /\ \A f \in Events : f # e => dispatch'[f] = dispatch[f]
        /\ dispatch'[e].pc = IF matched = {} THEN "done" ELSE "materialize"
        /\ dispatch'[e].unsaved = matched /\ dispatch'[e].made = {}
    BY <1>2, <2>1
  <2> QED BY <1>1, <1>3, <2>2, AloneEventMoves
<1> QED
  BY <1>4, <1>5 DEF Submit, SaveEvent, SaveEventFails, MatchFails

(* A row is made where there was none, and the save is not repeated.       *)
LEMMA MaterializeAlone ==
    ASSUME IInv, AloneInv, NEW e \in Events, NEW sub \in Subs,
           Materialize(e, sub) \/ MaterializeFails(e, sub), UNCHANGED sweep
    PROVE  AloneInv'
<1>1. /\ dispatch[e].pc = "materialize" /\ sub \in dispatch[e].unsaved
      /\ UNCHANGED <<runs, heard, posts>>
  BY DEF Materialize, MaterializeFails
<1>2. dispatch \in [Events -> DispatchStates] /\ dispatch[e] \in DispatchStates
  BY DispatchTypes
<1>3. /\ \A x \in dispatch[e].unsaved : rows[<<e, x>>] = Null
      /\ \A x \in dispatch[e].made : rows[<<e, x>>] # Null
  BY <1>1 DEF AloneInv, RowsComeFirst
<1>4. /\ \A f \in Events : f # e => dispatch'[f] = dispatch[f]
      /\ dispatch'[e].pc = "materialize"
      /\ dispatch'[e].unsaved = dispatch[e].unsaved \ {sub}
      /\ \/ dispatch'[e].made = dispatch[e].made
         \/ Materialize(e, sub) /\ dispatch'[e].made = dispatch[e].made \cup {sub}
  BY <1>1, <1>2 DEF Materialize, MaterializeFails, DispatchStates
<1>5. /\ Materialize(e, sub) => Save(<<e, sub>>, CreatedDelivery)
      /\ Save(<<e, sub>>, CreatedDelivery) \/ rows' = rows
  BY DEF Materialize, MaterializeFails, SaveRejects
<1>6. Save(<<e, sub>>, CreatedDelivery) =>
         \A f \in Events, x \in Subs :
            rows'[<<f, x>>] = IF f = e /\ x = sub THEN CreatedDelivery
                              ELSE rows[<<f, x>>]
  BY DEF Save, IInv, TypeOK, DispatcherTypeOK, Deliveries
<1>7. CreatedDelivery # Null
  BY CreatedRecord, NullAssumption
<1>8. \A x \in dispatch[e].unsaved \cup dispatch[e].made : x \in Subs
  BY <1>2 DEF DispatchStates
<1> QED
  BY <1>1, <1>3, <1>4, <1>5, <1>6, <1>7, <1>8, AloneEventMoves

(* Attempts start once all rows are made, one for each of them.            *)
LEMMA StartAttemptsAlone ==
    ASSUME IInv, AloneInv, NEW e \in Events, StartAttempts(e), UNCHANGED sweep
    PROVE  AloneInv'
<1> DEFINE Started == {<<e, sub>> : sub \in dispatch[e].made}
           Attempt == [NoRun EXCEPT !.pc = "guard", !.mine = CreatedDelivery]
<1>1. /\ dispatch[e].pc = "materialize" /\ dispatch[e].unsaved = {}
      /\ \A d \in Started : FreeSlots(d) # {}
      /\ runs' = [d \in Deliveries |->
                     IF d \in Started
                     THEN [runs[d] EXCEPT ![FreeSlot(d)] = Attempt]
                     ELSE runs[d]]
      /\ dispatch' = [dispatch EXCEPT ![e].pc = "done"]
      /\ UNCHANGED <<rows, heard, posts>>
  BY DEF StartAttempts
<1>2. /\ dispatch \in [Events -> DispatchStates] /\ dispatch[e] \in DispatchStates
      /\ runs \in [Deliveries -> [Slots -> RunStates]]
  BY DispatchTypes DEF IInv, TypeOK, DispatcherTypeOK
<1>3. /\ \A f \in Events : f # e => dispatch'[f] = dispatch[f]
      /\ dispatch'[e].pc = "done" /\ dispatch'[e].unsaved = {}
      /\ dispatch'[e].made = dispatch[e].made
  BY <1>1, <1>2 DEF DispatchStates
<1>4. \A d \in Started : /\ d \in Deliveries /\ d[1] = e
                         /\ rows[d] = CreatedDelivery
                         /\ heard[d] = {} /\ Active(d) = {}
  BY <1>1, <1>2 DEF AloneInv, RowsComeFirst, Untouched, DispatchStates, Deliveries
<1>5. Attempt.pc = "guard" /\ Attempt.mine = CreatedDelivery
  BY DEF NoRun
<1>6. RowFits(Attempt, CreatedDelivery)
  BY <1>5 DEF RowFits
<1> HIDE DEF Started, Attempt
<1>7. \A d \in Deliveries :
         \/ d \notin Started /\ runs'[d] = runs[d]
         \/ /\ d \in Started
            /\ \A s \in Slots :
                  \/ s = FreeSlot(d) /\ runs'[d][s] = Attempt
                  \/ s # FreeSlot(d) /\ runs'[d][s].pc = "idle"
  <2> SUFFICES ASSUME NEW d \in Deliveries, d \in Started, NEW s \in Slots
               PROVE  \/ s = FreeSlot(d) /\ runs'[d][s] = Attempt
                      \/ s # FreeSlot(d) /\ runs'[d][s].pc = "idle"
    BY <1>1
  <2>1. runs'[d] = [runs[d] EXCEPT ![FreeSlot(d)] = Attempt]
    BY <1>1
  <2>2. runs[d][s].pc = "idle"
    BY <1>4 DEF Active
  <2> QED BY <1>2, <2>1, <2>2
<1>8. OneRunEach'
  <2> SUFFICES ASSUME NEW d \in Deliveries
               PROVE  /\ \A s, t \in Active(d)' : s = t
                      /\ \A s \in Slots : RowFits(runs'[d][s], rows'[d])
    BY DEF OneRunEach
  <2>1. CASE d \notin Started
    BY <1>1, <1>7, <2>1 DEF AloneInv, OneRunEach, Active
  <2>2. CASE d \in Started
    <3>1. \A row, run : run.pc = "idle" => RowFits(run, row)
      BY DEF RowFits
    <3> QED BY <1>1, <1>4, <1>6, <1>7, <2>2, <3>1 DEF Active
  <2> QED BY <2>1, <2>2
<1>9. RowsComeFirst'
  <2>1. ASSUME NEW f \in Events, f # e
        PROVE  \A sub \in Subs : Untouched(<<f, sub>>) => Untouched(<<f, sub>>)'
    BY <1>1, <1>4, <1>7, <2>1 DEF Untouched, Active, Deliveries
  <2>2. ASSUME NEW f \in Events, f # e
        PROVE  dispatch'[f] = dispatch[f]
    BY <1>3, <2>2
  <2> QED
    BY <1>1, <1>3, <2>1, <2>2 DEF AloneInv, RowsComeFirst
<1>10. SuccessIsKept'
  <2> SUFFICES ASSUME NEW d \in Deliveries, "success" \in heard[d]
               PROVE  /\ rows[d] # Null /\ rows[d].status \in {"delivering", "delivered"}
                      /\ \A s \in Slots : SuccessFits(runs'[d][s])
    BY <1>1 DEF SuccessIsKept
  <2>1. d \notin Started
    BY <1>4
  <2> QED BY <1>7, <2>1 DEF AloneInv, SuccessIsKept
<1>11. PostsAreCounted'
  BY <1>1 DEF AloneInv, PostsAreCounted, Exists
<1> QED BY <1>8, <1>9, <1>10, <1>11 DEF AloneInv

-----------------------------------------------------------------------------
(* Time and crashes.                                                       *)

(* A tick moves timestamps, which none of this is about; a row and the     *)
(* copy of it grow older alike.                                            *)
LEMMA TickAlone ==
    ASSUME IInv, AloneInv, Tick
    PROVE  AloneInv'
<1>1. /\ rows' = [d \in Deliveries |-> AgedCopy(rows[d])]
      /\ UNCHANGED <<dispatch, heard, posts>>
  BY DEF Tick
<1>2. sweep'.pc = "idle"
  BY DEF Tick, AloneInv, IInv, TypeOK, RecoveryTypeOK, SweepStates
<1>3. \A d \in Deliveries :
         /\ rows[d] \in DeliveryRecords \cup {Null}
         /\ rows'[d] = AgedCopy(rows[d])
  BY <1>1 DEF IInv, TypeOK, DispatcherTypeOK
<1>4. \A r \in DeliveryRecords \cup {Null} :
         /\ AgedCopy(r) = Null <=> r = Null
         /\ r # Null => /\ AgedCopy(r).status = r.status
                        /\ AgedCopy(r).attempts = r.attempts
  BY AgedCopyFacts, AgedRecord
<1>5. \A d \in Deliveries, s \in Slots :
         /\ runs[d][s] \in RunStates
         /\ runs'[d][s].pc = runs[d][s].pc
         /\ runs'[d][s].mine = AgedCopy(runs[d][s].mine)
  <2> SUFFICES ASSUME NEW d \in Deliveries, NEW s \in Slots
               PROVE  /\ runs[d][s] \in RunStates
                      /\ runs'[d][s].pc = runs[d][s].pc
                      /\ runs'[d][s].mine = AgedCopy(runs[d][s].mine)
    OBVIOUS
  <2>1. runs[d][s] \in RunStates
    BY RunFacts
  <2>2. runs'[d][s] = [runs[d][s] EXCEPT
                         !.mine = AgedCopy(runs[d][s].mine),
                         !.left = IF @ > 0 THEN @ - 1 ELSE 0]
    BY DEF Tick
  <2> QED BY <2>1, <2>2 DEF RunStates
<1>6. AgedCopy(CreatedDelivery) = CreatedDelivery
  BY CreatedRecord, NullAssumption
  DEF AgedCopy, Aged, CreatedDelivery, CountDown, GrowOlder
<1>7. OneRunEach'
  <2> SUFFICES ASSUME NEW d \in Deliveries, NEW s \in Slots
               PROVE  RowFits(runs'[d][s], rows'[d])
    BY <1>5 DEF OneRunEach, Active, AloneInv
  <2>1. /\ CopyFits(runs[d][s]) /\ RowFits(runs[d][s], rows[d])
        /\ runs[d][s].mine \in DeliveryRecords \cup {Null}
    BY <1>5, RunFacts DEF AloneInv, OneRunEach, RunStates
  <2>2. runs[d][s].pc \in {"mark", "record", "giveUp"} =>
           runs[d][s].mine # Null
    BY <2>1, NullAssumption DEF CopyFits
  <2> HIDE DEF AgedCopy
  <2> QED BY <1>3, <1>4, <1>5, <2>1, <2>2 DEF RowFits
<1>8. \A d \in Deliveries : Untouched(d) => Untouched(d)'
  BY <1>1, <1>3, <1>4, <1>5, <1>6 DEF Untouched, Active
<1>9. RowsComeFirst'
  <2>1. \A e \in Events, sub \in Subs :
           /\ <<e, sub>> \in Deliveries
           /\ rows'[<<e, sub>>] = Null <=> rows[<<e, sub>>] = Null
    BY <1>3, <1>4 DEF Deliveries
  <2>2. \A e \in Events : dispatch[e] \in DispatchStates
    BY DEF IInv, TypeOK, DispatcherTypeOK
  <2> QED
    BY <1>1, <1>8, <2>1, <2>2 DEF AloneInv, RowsComeFirst, DispatchStates
<1>10. SuccessIsKept'
  <2> SUFFICES ASSUME NEW d \in Deliveries, "success" \in heard[d]
               PROVE  /\ rows'[d] # Null
                      /\ rows'[d].status \in {"delivering", "delivered"}
                      /\ \A s \in Slots : SuccessFits(runs'[d][s])
    BY <1>1 DEF SuccessIsKept
  <2>1. /\ rows[d] # Null /\ rows[d].status \in {"delivering", "delivered"}
        /\ \A s \in Slots : SuccessFits(runs[d][s])
    BY DEF AloneInv, SuccessIsKept
  <2>2. \A s \in Slots :
           /\ runs[d][s].mine \in DeliveryRecords \cup {Null}
           /\ runs[d][s].pc = "record" => runs[d][s].mine # Null
    BY <1>5, RunFacts, NullAssumption DEF CopyFits, RunStates
  <2> HIDE DEF AgedCopy
  <2> QED BY <1>3, <1>4, <1>5, <2>1, <2>2 DEF SuccessFits
<1>11. PostsAreCounted'
  BY <1>1, <1>3, <1>4 DEF AloneInv, PostsAreCounted, Exists
<1> QED BY <1>2, <1>7, <1>9, <1>10, <1>11 DEF AloneInv

(* A crash ends runs and dispatches, and leaves the rows.                  *)
LEMMA CrashAlone ==
    ASSUME IInv, AloneInv, Crash
    PROVE  AloneInv'
<1>1. /\ sweep'.pc = "idle"
      /\ \A d \in Deliveries, s \in Slots : runs'[d][s] = NoRun
      /\ UNCHANGED <<rows, heard, posts>>
  BY DEF Crash, NoSweep
<1>2. \A e \in Events :
         \/ dispatch'[e] = dispatch[e]
            /\ dispatch[e].pc \notin {"accept", "match", "materialize"}
         \/ /\ dispatch[e].pc # "done" /\ dispatch'[e].pc = "lost"
            /\ dispatch'[e].made = dispatch[e].made
  BY DEF Crash, IInv, TypeOK, DispatcherTypeOK, DispatchStates
<1>3. NoRun.pc = "idle"
  BY DEF NoRun
<1>4. \A d \in Deliveries : Active(d)' = {}
  BY <1>1, <1>3 DEF Active
<1>5. OneRunEach'
  BY <1>1, <1>3, <1>4 DEF OneRunEach, RowFits
<1>6. RowsComeFirst'
  <2>1. \A d : Untouched(d) /\ d \in Deliveries => Untouched(d)'
    BY <1>1, <1>4 DEF Untouched
  <2>2. \A e \in Events, sub \in Subs : <<e, sub>> \in Deliveries
    BY DEF Deliveries
  <2> QED
    BY <1>1, <1>2, <2>1, <2>2 DEF AloneInv, RowsComeFirst
<1>7. SuccessIsKept'
  BY <1>1, <1>3 DEF AloneInv, SuccessIsKept, SuccessFits
<1>8. PostsAreCounted'
  BY <1>1 DEF AloneInv, PostsAreCounted, Exists
<1> QED BY <1>1, <1>5, <1>6, <1>7, <1>8 DEF AloneInv

(* AloneInv holds at the start.                                            *)
LEMMA InitAlone == Init => AloneInv
<1> SUFFICES ASSUME Init PROVE AloneInv
  OBVIOUS
<1>1. /\ sweep.pc = "idle"
      /\ \A d \in Deliveries : rows[d] = Null /\ heard[d] = {} /\ posts[d] = 0
      /\ \A d \in Deliveries, s \in Slots : runs[d][s].pc = "idle"
      /\ \A e \in Events : dispatch[e] = NotDispatched
  BY DEF Init, DispatcherInit, RecoveryInit, NoSweep, NoRun
<1>2. \A d \in Deliveries : Active(d) = {}
  BY <1>1 DEF Active
<1>3. OneRunEach
  BY <1>1, <1>2 DEF OneRunEach, RowFits
<1>4. RowsComeFirst
  <2>1. \A e \in Events, sub \in Subs : <<e, sub>> \in Deliveries
    BY DEF Deliveries
  <2> QED BY <1>1, <1>2, <2>1 DEF RowsComeFirst, Untouched, NotDispatched
<1> QED
  BY <1>1, <1>3, <1>4 DEF AloneInv, SuccessIsKept, PostsAreCounted, Exists

(* Without the sweep, AloneInv is inductive, given IInv.                   *)
LEMMA NextAlone ==
    ASSUME ~SweepEnabled
    PROVE  IInv /\ AloneInv /\ [Next]_vars => AloneInv'
<1> SUFFICES ASSUME IInv, AloneInv, [Next]_vars PROVE AloneInv'
  OBVIOUS
<1>1. CASE DispatcherStep
  <2> USE <1>1 DEF DispatcherStep
  <2>1. CASE \E e \in Events :
                Submit(e) \/ EventStep(e) \/ EventFault(e) \/ PurgeEvent(e)
    <3>1. \A e \in Events : PurgeEvent(e) => AloneInv'
      BY AloneStays DEF PurgeEvent
    <3> QED
      BY <2>1, <3>1, IngestAlone, MaterializeAlone, StartAttemptsAlone
      DEF EventStep, EventFault
  <2>2. CASE \E d \in Deliveries, s \in Slots : RunStep(d, s) \/ RunFault(d, s)
    BY <2>2, RunAlone
  <2> QED BY <2>1, <2>2 DEF DispatcherNext
<1>2. CASE RecoveryStep
  BY <1>2
  DEF RecoveryStep, SweepStep, SweepFault, SweepStart, ListStuck, Reclaimed,
      ListDue, SweepEnd, Reclaim, Resume, ListFails, ReclaimFails, AloneInv
<1>3. CASE IndexStep
  BY <1>3, AloneStays DEF IndexStep, Replicate, dispatcherVars
<1>4. CASE Tick
  BY <1>4, TickAlone
<1>5. CASE Crash
  BY <1>5, CrashAlone
<1>6. CASE UNCHANGED vars
  BY <1>6, AloneStays DEF vars
<1> QED BY <1>1, <1>2, <1>3, <1>4, <1>5, <1>6 DEF Next

(* Without the sweep, nobody but its one run writes a delivery's row, and  *)
(* what the run knew of it at its last await is still true.                *)
THEOREM AloneInvariant ==
    ASSUME ~SweepEnabled
    PROVE  Spec => [](IInv /\ AloneInv)
BY InitIInv, NextIInv, InitAlone, NextAlone, PTL DEF Spec

-----------------------------------------------------------------------------
(* What follows from it.                                                   *)

(* A delivery has one run at a time, and the copy it acts on is the row:   *)
(* the read-modify-write of resumeDelivery and attemptDelivery across      *)
(* their awaits loses no update.                                           *)
THEOREM OneRunner ==
    ASSUME ~SweepEnabled
    PROVE  Spec => []OneRunnerNoStaleCopy
<1>1. IInv /\ AloneInv => OneRunnerNoStaleCopy
  BY DEF AloneInv, OneRunEach, RowFits, Active, OneRunnerNoStaleCopy
<1> QED BY <1>1, AloneInvariant, PTL

(* No POST is sent that the row does not count: MAX_DELIVERY_ATTEMPTS      *)
(* bounds the POSTs, not only the count of them.                           *)
THEOREM EveryPostIsCounted ==
    ASSUME ~SweepEnabled
    PROVE  Spec => []PostsAreCounted
<1>1. IInv /\ AloneInv => PostsAreCounted
  BY DEF AloneInv
<1> QED BY <1>1, AloneInvariant, PTL

(* What a subscriber accepted is never recorded as failed.                 *)
THEOREM AcceptedIsNotFailed ==
    ASSUME ~SweepEnabled
    PROVE  Spec => []AcceptedNeverFailed
<1>1. IInv /\ AloneInv => AcceptedNeverFailed
  BY DEF AloneInv, SuccessIsKept, AcceptedNeverFailed, Exists
<1> QED BY <1>1, AloneInvariant, PTL

(* No POST of an event is sent before every row of it is saved or has      *)
(* failed to be.                                                           *)
THEOREM RowsPrecedePosts ==
    ASSUME ~SweepEnabled
    PROVE  Spec => []RowsBeforePosts
<1>1. IInv /\ AloneInv => RowsBeforePosts
  <2> SUFFICES ASSUME IInv, AloneInv, NEW e \in Events,
                      NEW sub \in Subs, posts[<<e, sub>>] > 0,
                      NEW other \in dispatch[e].matched
               PROVE  \/ rows[<<e, other>>] # Null
                      \/ other \notin dispatch[e].unsaved \cup dispatch[e].made
    BY DEF RowsBeforePosts, Exists
  <2>1. dispatch[e].pc = "done"
    BY DEF AloneInv, RowsComeFirst, Untouched
  <2> QED BY <2>1 DEF AloneInv, RowsComeFirst
<1> QED BY <1>1, AloneInvariant, PTL

-----------------------------------------------------------------------------
(* The dispatcher implements DeliveryLifecycle, step by step.              *)

(* What a save does to the abstract variables.                             *)
LEMMA SavedRow ==
    ASSUME IInv, NEW d \in Deliveries, NEW row \in DeliveryRecords, Save(d, row)
    PROVE  /\ RowStatus' = [RowStatus EXCEPT ![d] = row.status]
           /\ RowAttempts' = [RowAttempts EXCEPT ![d] = row.attempts]
<1>1. \A x \in Deliveries : rows'[x] = IF x = d THEN row ELSE rows[x]
  BY DEF Save, IInv, TypeOK, DispatcherTypeOK
<1>2. row # Null
  BY NullAssumption
<1> QED BY <1>1, <1>2 DEF RowStatus, RowAttempts, Exists

(* The saves of the dispatcher, as the rows see them.                      *)
LegalSave(old, new) ==
    \/ old = Null /\ new.status = "pending" /\ new.attempts = 0
    \/ /\ old # Null /\ old.status = "pending"
       /\ \/ /\ new.status = "delivering" /\ new.attempts = old.attempts + 1
             /\ old.attempts < MaxAttempts
          \/ new.status = "failed" /\ new.attempts = old.attempts
    \/ /\ old # Null /\ old.status = "delivering"
       /\ new.attempts = old.attempts
       /\ \/ new.status \in {"delivered", "failed"}
          \/ new.status = "pending" /\ old.attempts < MaxAttempts

(* A legal save is a transition of the state machine.                      *)
LEMMA LegalSaveIsAStep ==
    ASSUME IInv, NEW d \in Deliveries, NEW row \in DeliveryRecords,
           Save(d, row), LegalSave(rows[d], row)
    PROVE  Lifecycle!Next
<1>1. /\ RowStatus' = [RowStatus EXCEPT ![d] = row.status]
      /\ RowAttempts' = [RowAttempts EXCEPT ![d] = row.attempts]
  BY SavedRow
<1>2. /\ RowStatus[d] = IF rows[d] # Null THEN rows[d].status ELSE "absent"
      /\ RowAttempts[d] = IF rows[d] # Null THEN rows[d].attempts ELSE 0
      /\ RowAttempts = [RowAttempts EXCEPT ![d] = RowAttempts[d]]
  BY DEF RowStatus, RowAttempts, Exists
<1>3. CASE rows[d] = Null
  <2>1. Lifecycle!create(d)
    BY <1>1, <1>2, <1>3 DEF LegalSave, Lifecycle!create, Lifecycle!Move
  <2> QED BY <2>1 DEF Lifecycle!Next
<1>4. CASE /\ rows[d] # Null /\ rows[d].status = "pending"
           /\ row.status = "delivering"
  <2>1. Lifecycle!beginAttempt(d)
    BY <1>1, <1>2, <1>4 DEF LegalSave, Lifecycle!beginAttempt, Lifecycle!Move
  <2> QED BY <2>1 DEF Lifecycle!Next
<1>5. CASE /\ rows[d] # Null /\ rows[d].status = "pending"
           /\ row.status = "failed"
  <2>1. Lifecycle!abandonDelivery(d)
    BY <1>1, <1>2, <1>5 DEF LegalSave, Lifecycle!abandonDelivery, Lifecycle!Move
  <2> QED BY <2>1 DEF Lifecycle!Next
<1>6. CASE /\ rows[d] # Null /\ rows[d].status = "delivering"
           /\ row.status = "delivered"
  <2>1. Lifecycle!completeDelivered(d)
    BY <1>1, <1>2, <1>6 DEF LegalSave, Lifecycle!completeDelivered, Lifecycle!Move
  <2> QED BY <2>1 DEF Lifecycle!Next
<1>7. CASE /\ rows[d] # Null /\ rows[d].status = "delivering"
           /\ row.status = "failed"
  <2>1. Lifecycle!completeFailed(d)
    BY <1>1, <1>2, <1>7 DEF LegalSave, Lifecycle!completeFailed, Lifecycle!Move
  <2> QED BY <2>1 DEF Lifecycle!Next
<1>8. CASE /\ rows[d] # Null /\ rows[d].status = "delivering"
           /\ row.status = "pending"
  <2>1. Lifecycle!scheduleRetry(d)
    BY <1>1, <1>2, <1>8 DEF LegalSave, Lifecycle!scheduleRetry, Lifecycle!Move
  <2> QED BY <2>1 DEF Lifecycle!Next
<1> QED BY <1>3, <1>4, <1>5, <1>6, <1>7, <1>8 DEF LegalSave

(* What a run of the dispatcher saves is legal: its row is what it was     *)
(* when the run read it.                                                   *)
LEMMA RunSavesLegally ==
    ASSUME IInv, AloneInv, NEW d \in Deliveries, NEW s \in Slots,
           runs[d][s].pc \in {"giveUp", "mark", "record"}
    PROVE  /\ runs[d][s].mine \in DeliveryRecords
           /\ LegalSave(rows[d], runs[d][s].mine)
<1>1. /\ CopyFits(runs[d][s]) /\ RowFits(runs[d][s], rows[d])
  BY AloneFacts
<1> QED
  BY <1>1 DEF CopyFits, RowFits, LegalSave, DeliveryRecords, DELIVERY_STATUSES

(* A step that leaves every status and count as it was is a stutter.       *)
LEMMA SameRowsStutter ==
    ASSUME \A d \in Deliveries :
              /\ rows'[d] = Null <=> rows[d] = Null
              /\ rows[d] # Null => /\ rows'[d].status = rows[d].status
                                   /\ rows'[d].attempts = rows[d].attempts
    PROVE  UNCHANGED Lifecycle!lifecycleVars
BY DEF Lifecycle!lifecycleVars, RowStatus, RowAttempts, Exists

(* Every step of the service without the sweep is a step of the state      *)
(* machine, or leaves every row's status and count alone.                  *)
LEMMA NextLifecycle ==
    ASSUME ~SweepEnabled
    PROVE  IInv /\ AloneInv /\ [Next]_vars =>
               [Lifecycle!Next]_(Lifecycle!lifecycleVars)
<1> SUFFICES ASSUME IInv, AloneInv, [Next]_vars
             PROVE  [Lifecycle!Next]_(Lifecycle!lifecycleVars)
  OBVIOUS
<1>1. rows' = rows => UNCHANGED Lifecycle!lifecycleVars
  BY SameRowsStutter
<1>2. CASE DispatcherStep
  <2> USE <1>2 DEF DispatcherStep
  <2>1. CASE \E e \in Events, sub \in Subs :
                Materialize(e, sub) \/ MaterializeFails(e, sub)
    <3>1. PICK e \in Events, sub \in Subs :
             Materialize(e, sub) \/ MaterializeFails(e, sub)
      BY <2>1
    <3>2. /\ <<e, sub>> \in Deliveries /\ rows[<<e, sub>>] = Null
          /\ Save(<<e, sub>>, CreatedDelivery) \/ rows' = rows
      BY <3>1
      DEF Deliveries, Materialize, MaterializeFails, SaveRejects, AloneInv,
          RowsComeFirst
    <3>3. LegalSave(rows[<<e, sub>>], CreatedDelivery)
      BY <3>2, CreatedRecord DEF LegalSave
    <3> QED BY <1>1, <3>2, <3>3, CreatedRecord, LegalSaveIsAStep
  <2>2. CASE \E d \in Deliveries, s \in Slots : RunStep(d, s) \/ RunFault(d, s)
    <3>1. PICK d \in Deliveries, s \in Slots : RunStep(d, s) \/ RunFault(d, s)
      BY <2>2
    <3>2. \/ rows' = rows
          \/ /\ runs[d][s].pc \in {"giveUp", "mark", "record"}
             /\ Save(d, runs[d][s].mine)
      BY <3>1
      DEF RunStep, ReadRow, ReadEvent, GuardAllows, GuardBlocks, MarkSaved, Answer,
          RecordSaved, GiveUpSaved, FireTimer, RunFault, RunSaveFails,
          RunReadFails, SaveRejects
    <3> QED BY <1>1, <3>2, RunSavesLegally, LegalSaveIsAStep
  <2>3. CASE \E e \in Events :
                \/ Submit(e) \/ SaveEvent(e) \/ SaveEventFails(e) \/ Match(e)
                \/ MatchFails(e) \/ StartAttempts(e) \/ PurgeEvent(e)
    BY <1>1, <2>3
    DEF Submit, SaveEvent, SaveEventFails, Match, MatchFails, StartAttempts,
        PurgeEvent
  <2> QED BY <2>1, <2>2, <2>3 DEF DispatcherNext, EventStep, EventFault
<1>3. CASE RecoveryStep
  BY <1>3
  DEF RecoveryStep, SweepStep, SweepFault, SweepStart, ListStuck, Reclaimed,
      ListDue, SweepEnd, Reclaim, Resume, ListFails, ReclaimFails, AloneInv
<1>4. CASE IndexStep
  BY <1>1, <1>4 DEF IndexStep, Replicate, dispatcherVars
<1>5. CASE Tick
  <2>1. \A d \in Deliveries : /\ rows[d] \in DeliveryRecords \cup {Null}
                              /\ rows'[d] = AgedCopy(rows[d])
    BY <1>5 DEF Tick, IInv, TypeOK, DispatcherTypeOK
  <2> QED BY <2>1, AgedCopyFacts, AgedRecord, SameRowsStutter
<1>6. CASE Crash
  BY <1>1, <1>6 DEF Crash
<1>7. CASE UNCHANGED vars
  BY <1>1, <1>7 DEF vars
<1> QED BY <1>2, <1>3, <1>4, <1>5, <1>6, <1>7 DEF Next

(* At the start there is no row.                                           *)
LEMMA InitLifecycle == Init => Lifecycle!Init
BY DEF Init, DispatcherInit, Lifecycle!Init, RowStatus, RowAttempts, Exists

(* The dispatcher implements the state machine of delivery.ts: through     *)
(* every fault and crash, a row takes one legal transition at a time, and  *)
(* spends one attempt of its budget at each mark.                          *)
THEOREM DispatcherImplementsLifecycle ==
    ASSUME ~SweepEnabled
    PROVE  Spec => ImplementsLifecycle
<1>1. /\ Init => Lifecycle!Init
      /\ IInv /\ AloneInv /\ [Next]_vars =>
             [Lifecycle!Next]_(Lifecycle!lifecycleVars)
  BY InitLifecycle, NextLifecycle
<1> QED
  BY <1>1, AloneInvariant, PTL DEF Spec, ImplementsLifecycle, Lifecycle!Spec

(* delivered and failed are final, as delivery.ts:4-17 says, when no sweep *)
(* writes rows behind the dispatcher's back.                               *)
THEOREM TerminalStays ==
    ASSUME ~SweepEnabled
    PROVE  Spec => TerminalIsFinal
<1> DEFINE Final == \A d \in Deliveries :
                       Exists(d) /\ isTerminal(rows[d].status) =>
                           rows'[d].status = rows[d].status
<1>1. IInv /\ AloneInv /\ [Next]_vars => [Final]_vars
  <2> SUFFICES ASSUME IInv, AloneInv, [Next]_vars, NEW d \in Deliveries,
                      rows[d] # Null, rows[d].status \in {"delivered", "failed"}
               PROVE  rows'[d].status = rows[d].status
    BY DEF Exists, isTerminal
  <2>1. RowStatus[d] = rows[d].status
    BY DEF RowStatus, Exists
  <2>2. RowStatus'[d] = IF rows'[d] # Null THEN rows'[d].status ELSE "absent"
    BY DEF RowStatus, Exists
  <2>3. [Lifecycle!Next]_(Lifecycle!lifecycleVars)
    BY NextLifecycle
  <2>4. RowStatus'[d] = RowStatus[d]
    <3>1. CASE UNCHANGED Lifecycle!lifecycleVars
      BY <3>1 DEF Lifecycle!lifecycleVars
    <3>2. CASE Lifecycle!Next
      <4>1. PICK x \in Deliveries, from \in {"absent", "pending", "delivering"},
                 to \in {"pending", "delivering", "delivered", "failed"} :
               Lifecycle!Move(x, from, to)
        BY <3>2
        DEF Lifecycle!Next, Lifecycle!create, Lifecycle!beginAttempt,
            Lifecycle!completeDelivered, Lifecycle!scheduleRetry,
            Lifecycle!completeFailed, Lifecycle!abandonDelivery
      <4>2. x # d
        BY <2>1, <4>1 DEF Lifecycle!Move
      <4> QED BY <4>1, <4>2 DEF Lifecycle!Move, RowStatus
    <3> QED BY <2>3, <3>1, <3>2
  <2> QED BY <2>1, <2>2, <2>4
<1> QED
  BY <1>1, AloneInvariant, PTL DEF Spec, TerminalIsFinal
=============================================================================
