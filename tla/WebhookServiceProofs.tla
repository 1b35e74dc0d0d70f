------------------------ MODULE WebhookServiceProofs ------------------------
(***************************************************************************)
(* Proofs of the safety properties of WebhookService, for every value of   *)
(* its constants.                                                          *)
(***************************************************************************)
EXTENDS WebhookServiceInv, TLAPS

-----------------------------------------------------------------------------
(* The transitions of a delivery record.                                   *)

(* A created delivery is a pending record, due at once.                    *)
LEMMA CreatedRecord ==
    /\ CreatedDelivery \in DeliveryRecords
    /\ CreatedDelivery.status = "pending"
    /\ CreatedDelivery.attempts = 0
    /\ CreatedDelivery.nextAttemptAt = 0
BY PolicyAssumption DEF CreatedDelivery, DeliveryRecords, DELIVERY_STATUSES

(* No delay is Null: the two can be told apart.                            *)
LEMMA DelayNotNull == \A n \in Nat : n # Null
BY NullAssumption

(* Marking an attempt of a pending row with budget left keeps it sound.    *)
LEMMA BeginSound ==
    ASSUME NEW evidence, NEW r \in DeliveryRecords,
           r.attempts < MaxAttempts
    PROVE  /\ beginAttempt(r) \in DeliveryRecords
           /\ beginAttempt(r).status = "delivering"
           /\ beginAttempt(r).attempts = r.attempts + 1
           /\ beginAttempt(r).lastAttemptAt = 0
           /\ Sound(evidence, beginAttempt(r))
<1>1. \A n \in Nat, age \in 0..StuckThreshold :
         [r EXCEPT !.status = "delivering", !.attempts = n,
                   !.nextAttemptAt = Null, !.lastAttemptAt = age]
             \in DeliveryRecords
  BY DEF DeliveryRecords, DELIVERY_STATUSES
<1>2. r.attempts + 1 \in Nat /\ 0 \in 0..StuckThreshold
  BY ThresholdAssumption DEF DeliveryRecords
<1>3. beginAttempt(r) \in DeliveryRecords
  BY <1>1, <1>2 DEF beginAttempt
<1>4. /\ beginAttempt(r).status = "delivering"
      /\ beginAttempt(r).attempts = r.attempts + 1
      /\ beginAttempt(r).nextAttemptAt = Null
      /\ beginAttempt(r).lastAttemptAt = 0
  BY DEF beginAttempt, DeliveryRecords
<1>5. r.attempts + 1 <= MaxAttempts
  BY PolicyAssumption DEF DeliveryRecords
<1>6. Sound(evidence, beginAttempt(r))
  BY <1>4, <1>5, DelayNotNull DEF Sound
<1> QED BY <1>3, <1>4, <1>6

(* Abandoning a row is sound when its reason is.                           *)
LEMMA AbandonSound ==
    ASSUME NEW evidence, NEW r \in DeliveryRecords, NEW reason \in Reasons,
           r.attempts <= MaxAttempts,
           \/ reason = "limit" /\ r.attempts = MaxAttempts
           \/ reason \in {"blocked", "eventGone"} /\ reason \in evidence
    PROVE  /\ abandonDelivery(r, reason) \in DeliveryRecords
           /\ abandonDelivery(r, reason).status = "failed"
           /\ Sound(evidence, abandonDelivery(r, reason))
BY DEF abandonDelivery, DeliveryRecords, DELIVERY_STATUSES, Sound, Explained

(* Reclaiming a delivering row makes it a sound pending one.               *)
LEMMA ReclaimSound ==
    ASSUME NEW evidence, NEW r \in DeliveryRecords, r.attempts <= MaxAttempts
    PROVE  /\ reclaimStuck(r) \in DeliveryRecords
           /\ reclaimStuck(r).status = "pending"
           /\ Sound(evidence, reclaimStuck(r))
<1>1. \A delay \in 0..RetryMaxDelay :
         [r EXCEPT !.status = "pending", !.nextAttemptAt = delay,
                   !.lastError = "reclaimed"] \in DeliveryRecords
  BY DEF DeliveryRecords, DELIVERY_STATUSES, Reasons
<1>2. 0 \in 0..RetryMaxDelay
  BY PolicyAssumption
<1>3. reclaimStuck(r) \in DeliveryRecords
  BY <1>1, <1>2 DEF reclaimStuck
<1>4. /\ reclaimStuck(r).status = "pending"
      /\ reclaimStuck(r).attempts = r.attempts
      /\ reclaimStuck(r).nextAttemptAt = 0
  BY DEF reclaimStuck, DeliveryRecords
<1> QED BY <1>3, <1>4, DelayNotNull DEF Sound

(* The result of an attempt is sound once its answer is in evidence.       *)
LEMMA ResultSound ==
    ASSUME NEW evidence, NEW r \in DeliveryRecords,
           NEW class \in Classifications, NEW delay \in 0..RetryMaxDelay,
           r.attempts <= MaxAttempts, class \in evidence
    PROVE  /\ Result(r, class, delay) \in DeliveryRecords
           /\ Result(r, class, delay).status # "delivering"
           /\ Sound(evidence, Result(r, class, delay))
<1>1. CASE class = "success"
  BY <1>1 DEF Result, completeDelivered, DeliveryRecords, DELIVERY_STATUSES, Sound
<1>2. CASE class # "success" /\ Retries(r, class)
  <2>1. Result(r, class, delay) = scheduleRetry(r, delay)
    BY <1>2 DEF Result
  <2>2. scheduleRetry(r, delay) \in DeliveryRecords
    BY DEF scheduleRetry, DeliveryRecords, DELIVERY_STATUSES, Reasons
  <2>3. /\ scheduleRetry(r, delay).status = "pending"
        /\ scheduleRetry(r, delay).attempts = r.attempts
        /\ scheduleRetry(r, delay).nextAttemptAt = delay
    BY DEF scheduleRetry, DeliveryRecords
  <2>4. delay # Null
    BY DelayNotNull, PolicyAssumption
  <2> QED
    BY <2>1, <2>2, <2>3, <2>4 DEF Sound
<1>3. CASE class # "success" /\ ~Retries(r, class)
  <2>1. Result(r, class, delay) = completeFailed(r)
    BY <1>3 DEF Result
  <2>2. class = "permanent" \/ (class = "retryable" /\ r.attempts = MaxAttempts)
    BY <1>3, PolicyAssumption
    DEF Retries, hasAttemptsRemaining, Classifications, DeliveryRecords
  <2> QED
    BY <2>1, <2>2
    DEF completeFailed, DeliveryRecords, DELIVERY_STATUSES, Reasons, Sound, Explained
<1> QED BY <1>1, <1>2, <1>3

(* A tick moves the two timestamps of a record and nothing else.           *)
LEMMA AgedRecord ==
    ASSUME NEW r \in DeliveryRecords
    PROVE  /\ Aged(r) \in DeliveryRecords
           /\ Aged(r).status = r.status
           /\ Aged(r).attempts = r.attempts
           /\ Aged(r).lastError = r.lastError
           /\ Aged(r).nextAttemptAt # Null <=> r.nextAttemptAt # Null
           /\ Aged(r).lastAttemptAt # Null <=> r.lastAttemptAt # Null
<1>1. /\ CountDown(r.nextAttemptAt) \in (0..RetryMaxDelay) \cup {Null}
      /\ CountDown(r.nextAttemptAt) # Null <=> r.nextAttemptAt # Null
  BY PolicyAssumption, NullAssumption DEF CountDown, DeliveryRecords
<1>2. /\ GrowOlder(r.lastAttemptAt) \in (0..StuckThreshold) \cup {Null}
      /\ GrowOlder(r.lastAttemptAt) # Null <=> r.lastAttemptAt # Null
  BY ThresholdAssumption, NullAssumption DEF GrowOlder, DeliveryRecords
<1> QED
  BY <1>1, <1>2 DEF Aged, DeliveryRecords

(* Time does not make a record unsound.                                    *)
LEMMA AgedSound ==
    ASSUME NEW evidence, NEW r \in DeliveryRecords, Sound(evidence, r)
    PROVE  Sound(evidence, Aged(r))
BY AgedRecord DEF Sound, Explained

(* What was heard is never unheard.                                        *)
LEMMA SoundMonotone ==
    ASSUME NEW before, NEW after, before \subseteq after,
           NEW r, Sound(before, r)
    PROVE  Sound(after, r)
BY DEF Sound, Explained

-----------------------------------------------------------------------------
(* IInv is inductive.                                                      *)

(* A run that does not exist holds no copy.                                *)
LEMMA NullCopy == NoRun \in RunStates /\ NoRun.mine = Null /\ CopyFits(NoRun)
<1>1. NoRun \in RunStates
  BY PolicyAssumption DEF NoRun, RunStates
<1> QED BY <1>1 DEF NoRun, CopyFits

(* IInv holds at the start, where nothing exists.                          *)
LEMMA InitIInv == Init => IInv
<1> SUFFICES ASSUME Init PROVE IInv
  OBVIOUS
<1>1. DispatcherTypeOK
  <2>1. 0 \in 0..MaxPosts /\ 0 \in 0..MaxFaults
    BY PolicyAssumption, DispatcherAssumption DEF MaxPosts
  <2>2. NotDispatched \in DispatchStates
    BY DEF NotDispatched, DispatchStates
  <2> QED
    BY <2>1, <2>2, NullCopy DEF Init, DispatcherInit, DispatcherTypeOK
<1>2. RecoveryTypeOK /\ crashes \in 0..MaxCrashes
  BY CrashAssumption
  DEF Init, RecoveryInit, RecoveryTypeOK, NoSweep, NoSnapshot, SweepStates
<1>3. RowsSound /\ SweepSound /\ IndexSound
  BY DEF Init, DispatcherInit, RecoveryInit, RowsSound, SweepSound, IndexSound,
         NoSweep, NoSnapshot
<1>4. RunsSound
  BY NullCopy DEF Init, DispatcherInit, RunsSound
<1> QED BY <1>1, <1>2, <1>3, <1>4 DEF IInv, TypeOK

(* A step keeps IInv if each row, copy and snapshot it leaves is an old    *)
(* one or a sound one, and it forgets nothing that was heard.              *)
LEMMA SoundStep ==
    ASSUME IInv, TypeOK',
           \A d \in Deliveries : heard[d] \subseteq heard'[d],
           \A d \in Deliveries :
              rows'[d] = rows[d] \/ rows'[d] = Null \/ Sound(heard'[d], rows'[d]),
           \A d \in Deliveries, s \in Slots :
              \/ runs'[d][s] = runs[d][s]
              \/ /\ CopyFits(runs'[d][s])
                 /\ runs'[d][s].mine # Null =>
                        Sound(heard'[d], runs'[d][s].mine),
           \A d \in Deliveries :
              \/ sweep'.reclaim[d] = sweep.reclaim[d]
              \/ sweep'.reclaim[d] = Null
              \/ /\ Sound(heard'[d], sweep'.reclaim[d])
                 /\ sweep'.reclaim[d].status = "pending",
           \A d \in Deliveries :
              \/ index'[d] = index[d]
              \/ index'[d] = Null
              \/ Sound(heard'[d], index'[d])
    PROVE  IInv'
<1>1. RowsSound'
  BY SoundMonotone DEF IInv, RowsSound
<1>2. RunsSound'
  BY SoundMonotone DEF IInv, RunsSound
<1>3. SweepSound'
  BY SoundMonotone DEF IInv, SweepSound
<1>4. IndexSound'
  BY SoundMonotone DEF IInv, IndexSound
<1> QED BY <1>1, <1>2, <1>3, <1>4 DEF IInv

(* The form of most steps: one run moves on, holding r, and may save row.  *)
LEMMA RunMoves ==
    ASSUME IInv,
           NEW d \in Deliveries, NEW s \in Slots,
           NEW r \in RunStates, CopyFits(r), GoTo(d, s, r),
           r.mine # Null => Sound(heard'[d], r.mine),
           heard' \in [Deliveries -> SUBSET Evidence],
           \A x \in Deliveries : heard[x] \subseteq heard'[x],
           \/ rows' = rows
           \/ \E row \in DeliveryRecords : Save(d, row) /\ Sound(heard'[d], row),
           posts' \in [Deliveries -> 0..MaxPosts],
           faults' \in 0..MaxFaults,
           sweep' \in SweepStates, sweep'.reclaim = sweep.reclaim,
           UNCHANGED <<events, dispatch, index, crashes>>
    PROVE  IInv'
<1>1. /\ runs' \in [Deliveries -> [Slots -> RunStates]]
      /\ \A x \in Deliveries, t \in Slots :
            runs'[x][t] = IF x = d /\ t = s THEN r ELSE runs[x][t]
  BY DEF IInv, TypeOK, DispatcherTypeOK, GoTo
<1>2. /\ rows' \in [Deliveries -> DeliveryRecords \cup {Null}]
      /\ \A x \in Deliveries : rows'[x] = rows[x] \/ Sound(heard'[x], rows'[x])
  BY DEF IInv, TypeOK, DispatcherTypeOK, Save
<1>3. TypeOK'
  BY <1>1, <1>2 DEF IInv, TypeOK, DispatcherTypeOK, RecoveryTypeOK
<1> QED
  BY <1>1, <1>2, <1>3, SoundStep

-----------------------------------------------------------------------------
(* One lemma per step of a run.                                            *)

(* What IInv says of one run and of its delivery.                          *)
LEMMA RunFacts ==
    ASSUME IInv, NEW d \in Deliveries, NEW s \in Slots
    PROVE  /\ runs[d][s] \in RunStates
           /\ CopyFits(runs[d][s])
           /\ runs[d][s].mine \in DeliveryRecords =>
                 Sound(heard[d], runs[d][s].mine)
           /\ rows[d] # Null =>
                 rows[d] \in DeliveryRecords /\ Sound(heard[d], rows[d])
           /\ sweep \in SweepStates
           /\ rows \in [Deliveries -> DeliveryRecords \cup {Null}]
           /\ heard \in [Deliveries -> SUBSET Evidence]
           /\ posts \in [Deliveries -> 0..MaxPosts]
           /\ faults \in 0..MaxFaults
BY NullAssumption
DEF IInv, TypeOK, DispatcherTypeOK, RecoveryTypeOK, RowsSound, RunsSound

(* A run may end at any time, and may save its copy as it does.            *)
LEMMA RunEnds ==
    ASSUME IInv,
           NEW d \in Deliveries, NEW s \in Slots, GoTo(d, s, NoRun),
           rows' = rows \/ Save(d, runs[d][s].mine),
           runs[d][s].mine \in DeliveryRecords \/ rows' = rows,
           faults' \in 0..MaxFaults,
           UNCHANGED <<events, dispatch, heard, posts, sweep, index, crashes>>
    PROVE  IInv'
<1>1. \/ rows' = rows
      \/ \E row \in DeliveryRecords : Save(d, row) /\ Sound(heard'[d], row)
  BY RunFacts
<1> QED
  BY <1>1, NullCopy, RunFacts, RunMoves, Zenon

(* resumeDelivery reads a sound row: its copy is sound.                    *)
LEMMA ReadRowIInv ==
    ASSUME IInv, NEW d \in Deliveries, NEW s \in Slots,
           ReadRow(d, s), UNCHANGED <<sweep, index, crashes>>
    PROVE  IInv'
<1> DEFINE run == runs[d][s]
           row == rows[d]
<1>0. /\ UNCHANGED <<events, dispatch, rows, heard, posts, faults>>
      /\ run.pc = "get"
  BY DEF ReadRow
<1>1. CASE GoTo(d, s, NoRun)
  BY <1>0, <1>1, RunEnds, RunFacts
<1>2. CASE /\ row # Null /\ row.status = "pending"
           /\ ~hasAttemptsRemaining(row.attempts)
           /\ GoTo(d, s, [run EXCEPT !.pc = "giveUp",
                                     !.mine = abandonDelivery(row, "limit")])
  <2> DEFINE r == [run EXCEPT !.pc = "giveUp", !.mine = abandonDelivery(row, "limit")]
  <2>1. row \in DeliveryRecords /\ row.attempts <= MaxAttempts
    BY <1>2, RunFacts DEF Sound
  <2>2. row.attempts = MaxAttempts
    BY <1>2, <2>1, PolicyAssumption DEF hasAttemptsRemaining, DeliveryRecords
  <2>3. /\ abandonDelivery(row, "limit") \in DeliveryRecords
        /\ abandonDelivery(row, "limit").status = "failed"
        /\ Sound(heard[d], abandonDelivery(row, "limit"))
    BY <2>1, <2>2, AbandonSound DEF Reasons
  <2>4. r \in RunStates /\ r.pc = "giveUp" /\ r.mine = abandonDelivery(row, "limit")
    BY <2>3, RunFacts DEF RunStates
  <2>5. CopyFits(r)
    BY <2>3, <2>4 DEF CopyFits
  <2> QED
    BY <1>0, <1>2, <2>3, <2>4, <2>5, RunFacts, RunMoves
<1>3. CASE /\ row # Null /\ row.status = "pending"
           /\ hasAttemptsRemaining(row.attempts)
           /\ GoTo(d, s, [run EXCEPT !.pc = "getEvent", !.mine = row])
  <2> DEFINE r == [run EXCEPT !.pc = "getEvent", !.mine = row]
  <2>1. row \in DeliveryRecords /\ Sound(heard[d], row)
    BY <1>3, RunFacts
  <2>2. r \in RunStates /\ r.pc = "getEvent" /\ r.mine = row
    BY <2>1, RunFacts DEF RunStates
  <2>3. CopyFits(r)
    BY <1>3, <2>1, <2>2 DEF CopyFits, hasAttemptsRemaining
  <2> QED
    BY <1>0, <1>3, <2>1, <2>2, <2>3, RunFacts, RunMoves
<1> QED
  BY <1>1, <1>2, <1>3 DEF ReadRow

(* Giving up, for a reason that was just learnt, keeps IInv.               *)
LEMMA GiveUpIInv ==
    ASSUME IInv, NEW d \in Deliveries, NEW s \in Slots,
           NEW reason \in {"blocked", "eventGone"},
           runs[d][s].pc \in {"getEvent", "guard"},
           GoTo(d, s, [runs[d][s] EXCEPT
                          !.pc = "giveUp",
                          !.mine = abandonDelivery(runs[d][s].mine, reason)]),
           Learn(d, reason),
           UNCHANGED <<events, dispatch, rows, posts, faults, sweep, index,
                       crashes>>
    PROVE  IInv'
<1> DEFINE run == runs[d][s]
           given == abandonDelivery(run.mine, reason)
           r == [run EXCEPT !.pc = "giveUp", !.mine = given]
<1>1. /\ run.mine \in DeliveryRecords /\ run.mine.attempts <= MaxAttempts
      /\ Sound(heard[d], run.mine)
  BY RunFacts DEF CopyFits, Sound
<1>2. /\ heard' \in [Deliveries -> SUBSET Evidence]
      /\ \A x \in Deliveries : heard[x] \subseteq heard'[x]
      /\ reason \in heard'[d]
  BY RunFacts DEF Learn, Evidence
<1>3. /\ given \in DeliveryRecords
      /\ given.status = "failed"
      /\ Sound(heard'[d], given)
  BY <1>1, <1>2, AbandonSound DEF Reasons
<1>4. r \in RunStates /\ r.pc = "giveUp" /\ r.mine = given
  BY <1>3, RunFacts DEF RunStates
<1>5. CopyFits(r)
  BY <1>3, <1>4 DEF CopyFits
<1> QED
  BY <1>2, <1>3, <1>4, <1>5, RunFacts, RunMoves

(* resumeDelivery keeps IInv at the event it reads.                        *)
LEMMA ReadEventIInv ==
    ASSUME IInv, NEW d \in Deliveries, NEW s \in Slots,
           ReadEvent(d, s), UNCHANGED <<sweep, index, crashes>>
    PROVE  IInv'
<1> DEFINE run == runs[d][s]
<1>1. CASE GoTo(d, s, [run EXCEPT !.pc = "guard"]) /\ UNCHANGED heard
  <2> DEFINE r == [run EXCEPT !.pc = "guard"]
  <2>1. run.pc = "getEvent" /\ UNCHANGED <<events, dispatch, rows, posts, faults>>
    BY DEF ReadEvent
  <2>2. r \in RunStates /\ r.pc = "guard" /\ r.mine = run.mine
    BY RunFacts DEF RunStates
  <2>3. CopyFits(r) /\ Sound(heard[d], r.mine)
    BY <2>1, <2>2, RunFacts DEF CopyFits
  <2> QED
    BY <1>1, <2>1, <2>2, <2>3, RunFacts, RunMoves
<1>2. CASE /\ GoTo(d, s, [run EXCEPT
                  !.pc = "giveUp", !.mine = abandonDelivery(run.mine, "eventGone")])
           /\ Learn(d, "eventGone")
  BY <1>2, GiveUpIInv DEF ReadEvent
<1> QED
  BY <1>1, <1>2 DEF ReadEvent

(* attemptDelivery keeps IInv when the target is blocked.                  *)
LEMMA GuardBlocksIInv ==
    ASSUME IInv, NEW d \in Deliveries, NEW s \in Slots,
           GuardBlocks(d, s), UNCHANGED <<sweep, index, crashes>>
    PROVE  IInv'
BY GiveUpIInv DEF GuardBlocks

(* attemptDelivery keeps IInv when it marks its copy.                      *)
LEMMA GuardAllowsIInv ==
    ASSUME IInv, NEW d \in Deliveries, NEW s \in Slots,
           GuardAllows(d, s), UNCHANGED <<sweep, index, crashes>>
    PROVE  IInv'
<1> DEFINE run == runs[d][s]
           begun == beginAttempt(run.mine)
           r == [run EXCEPT !.pc = "mark", !.mine = begun, !.left = StoreTimeout]
<1>1. /\ run.pc = "guard" /\ GoTo(d, s, r)
      /\ UNCHANGED <<events, dispatch, rows, heard, posts, faults>>
  BY DEF GuardAllows
<1>2. run.mine \in DeliveryRecords /\ run.mine.attempts < MaxAttempts
  BY <1>1, RunFacts DEF CopyFits
<1>3. /\ begun \in DeliveryRecords /\ begun.status = "delivering"
      /\ Sound(heard[d], begun)
  BY <1>2, BeginSound
<1>4. r \in RunStates /\ r.pc = "mark" /\ r.mine = begun
  BY <1>3, RunFacts, DispatcherAssumption DEF RunStates
<1>5. CopyFits(r)
  BY <1>3, <1>4 DEF CopyFits
<1> QED
  BY <1>1, <1>3, <1>4, <1>5, RunFacts, RunMoves

(* The marked copy is sound, and so is the row it becomes.                 *)
LEMMA MarkSavedIInv ==
    ASSUME IInv, NEW d \in Deliveries, NEW s \in Slots,
           MarkSaved(d, s), UNCHANGED <<sweep, index, crashes>>
    PROVE  IInv'
<1> DEFINE run == runs[d][s]
           r == [run EXCEPT !.pc = "send", !.left = WebhookTimeout]
<1>1. /\ run.pc = "mark" /\ GoTo(d, s, r) /\ Save(d, run.mine)
      /\ posts' = [posts EXCEPT ![d] = IF @ < MaxPosts THEN @ + 1 ELSE @]
      /\ UNCHANGED <<events, dispatch, heard, faults>>
  BY DEF MarkSaved
<1>2. posts' \in [Deliveries -> 0..MaxPosts]
  <2>1. \A n \in 0..MaxPosts : (IF n < MaxPosts THEN n + 1 ELSE n) \in 0..MaxPosts
    BY PolicyAssumption DEF MaxPosts
  <2> HIDE DEF MaxPosts
  <2> QED BY <1>1, <2>1, RunFacts
<1>3. /\ run.mine \in DeliveryRecords /\ run.mine.status = "delivering"
      /\ Sound(heard[d], run.mine)
  BY <1>1, RunFacts DEF CopyFits
<1>4. r \in RunStates /\ r.pc = "send" /\ r.mine = run.mine
  BY RunFacts, DispatcherAssumption DEF RunStates
<1>5. CopyFits(r)
  BY <1>3, <1>4 DEF CopyFits
<1> QED
  BY <1>1, <1>2, <1>3, <1>4, <1>5, RunFacts, RunMoves

(* classifyOutcome and the backoff stay in their ranges.                   *)
LEMMA AnswerFacts ==
    ASSUME NEW outcome \in Outcomes, NEW r \in DeliveryRecords,
           NEW delay \in DelaysOf(r, classifyOutcome(outcome))
    PROVE  /\ classifyOutcome(outcome) \in Classifications
           /\ delay \in 0..RetryMaxDelay
<1>1. classifyOutcome(outcome) \in Classifications
  BY DEF classifyOutcome, Classifications, Outcomes
<1>2. delay \in 0..RetryMaxDelay
  BY PolicyAssumption DEF DelaysOf, BackoffDelays
<1> QED BY <1>1, <1>2

(* The result of an attempt is sound by the answer just heard.             *)
LEMMA AnswerIInv ==
    ASSUME IInv, NEW d \in Deliveries, NEW s \in Slots,
           Answer(d, s), UNCHANGED <<sweep, index, crashes>>
    PROVE  IInv'
<1> DEFINE run == runs[d][s]
<1>1. run.pc = "send" /\ UNCHANGED <<events, dispatch, rows, posts, faults>>
  BY DEF Answer
<1>2. run.mine \in DeliveryRecords /\ run.mine.attempts <= MaxAttempts
  BY <1>1, RunFacts DEF CopyFits, Sound
<1>3. PICK outcome \in Outcomes :
         \E delay \in DelaysOf(run.mine, classifyOutcome(outcome)) :
            /\ Learn(d, classifyOutcome(outcome))
            /\ GoTo(d, s, [run EXCEPT
                   !.pc = "record",
                   !.mine = Result(run.mine, classifyOutcome(outcome), delay),
                   !.left = StoreTimeout,
                   !.delay = delay])
  BY DEF Answer
<1> DEFINE class == classifyOutcome(outcome)
<1>4. PICK delay \in DelaysOf(run.mine, class) :
         /\ Learn(d, class)
         /\ GoTo(d, s, [run EXCEPT
                !.pc = "record", !.mine = Result(run.mine, class, delay),
                !.left = StoreTimeout, !.delay = delay])
  BY <1>3
<1> DEFINE result == Result(run.mine, class, delay)
           r == [run EXCEPT !.pc = "record", !.mine = result,
                            !.left = StoreTimeout, !.delay = delay]
<1>5. class \in Classifications /\ delay \in 0..RetryMaxDelay
  BY <1>2, AnswerFacts
<1> HIDE DEF class
<1>6. /\ heard' \in [Deliveries -> SUBSET Evidence]
      /\ \A x \in Deliveries : heard[x] \subseteq heard'[x]
      /\ class \in heard'[d]
  BY <1>4, <1>5, RunFacts DEF Learn, Evidence
<1>7. /\ result \in DeliveryRecords /\ result.status # "delivering"
      /\ Sound(heard'[d], result)
  BY <1>2, <1>5, <1>6, ResultSound
<1> HIDE DEF result
<1>8. r \in RunStates /\ r.pc = "record" /\ r.mine = result
  BY <1>5, <1>7, RunFacts, DispatcherAssumption DEF RunStates
<1>9. CopyFits(r)
  BY <1>7, <1>8 DEF CopyFits
<1>10. GoTo(d, s, r)
  BY <1>4 DEF result
<1> HIDE DEF r
<1> QED
  BY <1>1, <1>6, <1>7, <1>8, <1>9, <1>10, RunFacts, RunMoves

(* The saved result is sound; the timer it may leave holds no copy.        *)
LEMMA RecordSavedIInv ==
    ASSUME IInv, NEW d \in Deliveries, NEW s \in Slots,
           RecordSaved(d, s), UNCHANGED <<sweep, index, crashes>>
    PROVE  IInv'
<1> DEFINE run == runs[d][s]
           r == [NoRun EXCEPT !.pc = "backoff", !.left = run.delay]
<1>1. /\ run.pc = "record" /\ Save(d, run.mine)
      /\ GoTo(d, s, r) \/ GoTo(d, s, NoRun)
      /\ UNCHANGED <<events, dispatch, heard, posts, faults>>
  BY DEF RecordSaved
<1>2. run.mine \in DeliveryRecords /\ Sound(heard[d], run.mine)
  BY <1>1, RunFacts DEF CopyFits
<1>3. r \in RunStates /\ r.pc = "backoff" /\ r.mine = Null
  <2>1. run.delay \in Nat
    BY RunFacts, PolicyAssumption DEF RunStates
  <2> HIDE DEF run
  <2> QED BY <2>1, NullCopy DEF RunStates
<1>4. CopyFits(r)
  BY <1>3 DEF CopyFits
<1>5. CASE GoTo(d, s, r)
  BY <1>1, <1>2, <1>3, <1>4, <1>5, RunFacts, RunMoves
<1>6. CASE GoTo(d, s, NoRun)
  BY <1>1, <1>2, <1>6, RunFacts, RunEnds
<1> QED BY <1>1, <1>5, <1>6

(* The saved abandoned row is sound.                                       *)
LEMMA GiveUpSavedIInv ==
    ASSUME IInv, NEW d \in Deliveries, NEW s \in Slots,
           GiveUpSaved(d, s), UNCHANGED <<sweep, index, crashes>>
    PROVE  IInv'
<1>1. runs[d][s].mine \in DeliveryRecords
  BY RunFacts DEF GiveUpSaved, CopyFits
<1> QED
  BY <1>1, RunFacts, RunEnds DEF GiveUpSaved

(* A timer that fires starts a run without a copy.                         *)
LEMMA FireTimerIInv ==
    ASSUME IInv, NEW d \in Deliveries, NEW s \in Slots,
           FireTimer(d, s), UNCHANGED <<sweep, index, crashes>>
    PROVE  IInv'
<1> DEFINE r == [NoRun EXCEPT !.pc = "get"]
<1>1. r \in RunStates /\ r.pc = "get" /\ r.mine = Null
  BY NullCopy DEF RunStates, NoRun
<1>2. CopyFits(r)
  BY <1>1 DEF CopyFits
<1> QED
  BY <1>1, <1>2, RunFacts, RunMoves DEF FireTimer

(* A run that dies of a rejected call leaves only sound rows.              *)
LEMMA RunFaultIInv ==
    ASSUME IInv, NEW d \in Deliveries, NEW s \in Slots,
           RunFault(d, s), UNCHANGED <<sweep, index, crashes>>
    PROVE  IInv'
<1>1. faults' \in 0..MaxFaults
  BY RunFacts, DispatcherAssumption
  DEF RunFault, RunSaveFails, RunReadFails, SaveRejects, Fault
<1>2. CASE RunSaveFails(d, s)
  <2>1. runs[d][s].mine \in DeliveryRecords
    BY <1>2, RunFacts DEF RunSaveFails, CopyFits
  <2> QED
    BY <1>1, <1>2, <2>1, RunEnds DEF RunSaveFails, SaveRejects
<1>3. CASE RunReadFails(d, s)
  BY <1>1, <1>3, RunEnds DEF RunReadFails
<1> QED BY <1>2, <1>3 DEF RunFault

-----------------------------------------------------------------------------
(* The steps of ingestion and dispatch.                                    *)

(* A step of one event's dispatch keeps IInv if its types hold.            *)
LEMMA DispatchMoves ==
    ASSUME IInv,
           events' \in [Events -> {"none", "stored", "purged"}],
           dispatch' \in [Events -> DispatchStates],
           faults' \in 0..MaxFaults,
           \/ rows' = rows
           \/ \E d \in Deliveries : Save(d, CreatedDelivery),
           UNCHANGED <<runs, heard, posts, sweep, index, crashes>>
    PROVE  IInv'
<1>1. \A evidence : Sound(evidence, CreatedDelivery)
  BY CreatedRecord, PolicyAssumption, DelayNotNull DEF Sound
<1>2. /\ rows' \in [Deliveries -> DeliveryRecords \cup {Null}]
      /\ \A d \in Deliveries : rows'[d] = rows[d] \/ Sound(heard'[d], rows'[d])
  BY <1>1, CreatedRecord DEF IInv, TypeOK, DispatcherTypeOK, Save
<1>3. TypeOK'
  BY <1>2 DEF IInv, TypeOK, DispatcherTypeOK, RecoveryTypeOK
<1> QED
  BY <1>2, <1>3, SoundStep

(* The dispatch of an event stays among its states.                        *)
LEMMA DispatchTypes ==
    ASSUME IInv, NEW e \in Events
    PROVE  /\ events \in [Events -> {"none", "stored", "purged"}]
           /\ dispatch \in [Events -> DispatchStates]
           /\ faults \in 0..MaxFaults
           /\ Fault => faults' \in 0..MaxFaults
           /\ \A pc \in {"accept", "rejected", "match", "done", "failed"} :
                 [dispatch EXCEPT ![e].pc = pc] \in [Events -> DispatchStates]
           /\ \A set \in {"none", "stored", "purged"} :
                 [events EXCEPT ![e] = set]
                     \in [Events -> {"none", "stored", "purged"}]
<1>1. /\ events \in [Events -> {"none", "stored", "purged"}]
      /\ dispatch \in [Events -> DispatchStates]
      /\ faults \in 0..MaxFaults
  BY DEF IInv, TypeOK, DispatcherTypeOK
<1>2. Fault => faults' \in 0..MaxFaults
  BY <1>1, DispatcherAssumption DEF Fault
<1>3. \A pc \in {"accept", "rejected", "match", "done", "failed"} :
         [dispatch EXCEPT ![e].pc = pc] \in [Events -> DispatchStates]
  BY <1>1 DEF DispatchStates
<1> QED BY <1>1, <1>2, <1>3

(* Ingestion, matching and their failures keep IInv.                       *)
LEMMA EventStepIInv ==
    ASSUME IInv, NEW e \in Events,
           \/ Submit(e) \/ SaveEvent(e) \/ SaveEventFails(e)
           \/ Match(e) \/ MatchFails(e) \/ PurgeEvent(e),
           UNCHANGED <<sweep, index, crashes>>
    PROVE  IInv'
<1>1. CASE Submit(e)
  BY <1>1, DispatchTypes, DispatchMoves DEF Submit
<1>2. CASE SaveEvent(e)
  BY <1>2, DispatchTypes, DispatchMoves DEF SaveEvent
<1>3. CASE SaveEventFails(e)
  <2>1. events' \in [Events -> {"none", "stored", "purged"}]
    BY <1>3, DispatchTypes DEF SaveEventFails
  <2> QED
    BY <1>3, <2>1, DispatchTypes, DispatchMoves DEF SaveEventFails
<1>4. CASE Match(e)
  <2>1. PICK matched \in SUBSET Subs :
           dispatch' = [dispatch EXCEPT
               ![e] = [pc |-> IF matched = {} THEN "done" ELSE "materialize",
                       matched |-> matched, unsaved |-> matched, made |-> {}]]
    BY <1>4 DEF Match
  <2>2. [pc |-> IF matched = {} THEN "done" ELSE "materialize",
         matched |-> matched, unsaved |-> matched, made |-> {}] \in DispatchStates
    BY DEF DispatchStates
  <2>3. dispatch' \in [Events -> DispatchStates]
    BY <2>1, <2>2, DispatchTypes
  <2> QED
    BY <1>4, <2>3, DispatchTypes, DispatchMoves DEF Match
<1>5. CASE MatchFails(e)
  BY <1>5, DispatchTypes, DispatchMoves DEF MatchFails
<1>6. CASE PurgeEvent(e)
  BY <1>6, DispatchTypes, DispatchMoves DEF PurgeEvent
<1> QED BY <1>1, <1>2, <1>3, <1>4, <1>5, <1>6

(* Materialising one delivery keeps the types of the dispatch.             *)
LEMMA MaterializeTypes ==
    ASSUME IInv, NEW e \in Events, NEW sub \in Subs
    PROVE  /\ [dispatch EXCEPT ![e].unsaved = @ \ {sub}]
                 \in [Events -> DispatchStates]
           /\ [dispatch EXCEPT ![e].unsaved = @ \ {sub},
                               ![e].made = @ \cup {sub}]
                 \in [Events -> DispatchStates]
<1> DEFINE rest == dispatch[e].unsaved \ {sub}
           more == dispatch[e].made \cup {sub}
<1>1. dispatch[e] \in DispatchStates
  BY DispatchTypes
<1>2. rest \in SUBSET Subs /\ more \in SUBSET Subs
  BY <1>1 DEF DispatchStates
<1> HIDE DEF rest, more
<1>3. /\ [dispatch[e] EXCEPT !.unsaved = rest] \in DispatchStates
      /\ [dispatch[e] EXCEPT !.unsaved = rest, !.made = more] \in DispatchStates
  BY <1>1, <1>2 DEF DispatchStates
<1>4. /\ [dispatch EXCEPT ![e] = [dispatch[e] EXCEPT !.unsaved = rest]]
            \in [Events -> DispatchStates]
      /\ [dispatch EXCEPT ![e] = [dispatch[e] EXCEPT !.unsaved = rest,
                                                    !.made = more]]
            \in [Events -> DispatchStates]
  BY <1>3, DispatchTypes
<1>5. /\ [dispatch EXCEPT ![e].unsaved = @ \ {sub}]
            = [dispatch EXCEPT ![e] = [dispatch[e] EXCEPT !.unsaved = rest]]
      /\ [dispatch EXCEPT ![e].unsaved = @ \ {sub}, ![e].made = @ \cup {sub}]
            = [dispatch EXCEPT ![e] = [dispatch[e] EXCEPT !.unsaved = rest,
                                                         !.made = more]]
  BY <1>1, DispatchTypes DEF rest, more, DispatchStates
<1> QED BY <1>4, <1>5

(* A materialised row is a created one, which is sound.                    *)
LEMMA MaterializeIInv ==
    ASSUME IInv, NEW e \in Events, NEW sub \in Subs,
           Materialize(e, sub) \/ MaterializeFails(e, sub),
           UNCHANGED <<sweep, index, crashes>>
    PROVE  IInv'
<1>1. <<e, sub>> \in Deliveries
  BY DEF Deliveries
<1>2. CASE Materialize(e, sub)
  <2>1. dispatch' \in [Events -> DispatchStates]
    BY <1>2, MaterializeTypes DEF Materialize
  <2> QED
    BY <1>1, <1>2, <2>1, DispatchTypes, DispatchMoves DEF Materialize
<1>3. CASE MaterializeFails(e, sub)
  <2>1. dispatch' \in [Events -> DispatchStates]
    BY <1>3, MaterializeTypes DEF MaterializeFails
  <2> QED
    BY <1>1, <1>3, <2>1, DispatchTypes, DispatchMoves
    DEF MaterializeFails, SaveRejects
<1> QED BY <1>2, <1>3

(* The slot taken by a new run is a free one.                              *)
LEMMA FreeSlotIsFree ==
    ASSUME NEW d \in Deliveries, FreeSlots(d) # {}
    PROVE  FreeSlot(d) \in Slots /\ runs[d][FreeSlot(d)].pc = "idle"
BY DEF FreeSlots, FreeSlot

(* Attempts start on copies of created rows.                               *)
LEMMA StartAttemptsIInv ==
    ASSUME IInv, NEW e \in Events, StartAttempts(e), UNCHANGED <<sweep, index, crashes>>
    PROVE  IInv'
<1> DEFINE Started == {<<e, sub>> : sub \in dispatch[e].made}
           Attempt == [NoRun EXCEPT !.pc = "guard", !.mine = CreatedDelivery]
<1>1. /\ \A d \in Started : FreeSlots(d) # {}
      /\ runs' = [d \in Deliveries |->
                     IF d \in Started
                     THEN [runs[d] EXCEPT ![FreeSlot(d)] = Attempt]
                     ELSE runs[d]]
      /\ dispatch' = [dispatch EXCEPT ![e].pc = "done"]
      /\ UNCHANGED <<events, rows, heard, posts, faults>>
  BY DEF StartAttempts
<1>2. /\ Attempt \in RunStates /\ Attempt.pc = "guard"
      /\ Attempt.mine = CreatedDelivery
  BY NullCopy, CreatedRecord DEF RunStates
<1>3. CopyFits(Attempt)
  BY <1>2, CreatedRecord, PolicyAssumption DEF CopyFits
<1>4. \A evidence : Sound(evidence, Attempt.mine)
  BY <1>2, CreatedRecord, PolicyAssumption, DelayNotNull DEF Sound
<1> HIDE DEF Attempt, Started
<1>5. runs \in [Deliveries -> [Slots -> RunStates]]
  BY DEF IInv, TypeOK, DispatcherTypeOK
<1>6. /\ runs' \in [Deliveries -> [Slots -> RunStates]]
      /\ \A d \in Deliveries, s \in Slots :
            runs'[d][s] = runs[d][s] \/ runs'[d][s] = Attempt
  BY <1>1, <1>2, <1>5, FreeSlotIsFree
<1>7. TypeOK'
  BY <1>1, <1>6, DispatchTypes DEF IInv, TypeOK, DispatcherTypeOK, RecoveryTypeOK
<1> QED
  BY <1>1, <1>3, <1>4, <1>6, <1>7, SoundStep

-----------------------------------------------------------------------------
(* The steps of the sweep.                                                 *)

(* A sweep's step that writes at most its own sound snapshots keeps IInv.  *)
LEMMA SweepMoves ==
    ASSUME IInv, sweep' \in SweepStates,
           \A d \in Deliveries :
              \/ sweep'.reclaim[d] \in {sweep.reclaim[d], Null}
              \/ /\ Sound(heard[d], sweep'.reclaim[d])
                 /\ sweep'.reclaim[d].status = "pending",
           faults' \in 0..MaxFaults,
           \/ rows' = rows
           \/ \E d \in Deliveries : /\ sweep.reclaim[d] # Null
                                    /\ Save(d, sweep.reclaim[d]),
           UNCHANGED <<events, dispatch, runs, heard, posts, index, crashes>>
    PROVE  IInv'
<1>1. /\ rows' \in [Deliveries -> DeliveryRecords \cup {Null}]
      /\ \A d \in Deliveries : rows'[d] = rows[d] \/ Sound(heard'[d], rows'[d])
  BY DEF IInv, TypeOK, DispatcherTypeOK, RecoveryTypeOK, SweepStates, SweepSound, Save
<1>2. TypeOK'
  BY <1>1 DEF IInv, TypeOK, DispatcherTypeOK, RecoveryTypeOK
<1> QED
  BY <1>1, <1>2, SoundStep

(* What IInv says of the types of the sweep and the tables.                *)
LEMMA SweepTypes ==
    ASSUME IInv
    PROVE  /\ sweep \in SweepStates
           /\ NoSweep \in SweepStates
           /\ \A d \in Deliveries : NoSweep.reclaim[d] = Null
           /\ faults \in 0..MaxFaults
           /\ Fault => faults' \in 0..MaxFaults
<1>1. sweep \in SweepStates /\ faults \in 0..MaxFaults
  BY DEF IInv, TypeOK, DispatcherTypeOK, RecoveryTypeOK
<1>2. NoSweep \in SweepStates /\ \A d \in Deliveries : NoSweep.reclaim[d] = Null
  BY DEF NoSweep, NoSnapshot, SweepStates
<1>3. Fault => faults' \in 0..MaxFaults
  BY <1>1, DispatcherAssumption DEF Fault
<1> QED BY <1>1, <1>2, <1>3

(* The sweep's moves from one phase to the next keep IInv.                 *)
LEMMA SweepPhaseIInv ==
    ASSUME IInv, UNCHANGED <<index, crashes>>,
           SweepStart \/ Reclaimed \/ ListDue \/ SweepEnd \/ ListFails
    PROVE  IInv'
<1>1. CASE SweepStart
  <2>1. sweep' \in SweepStates /\ sweep'.reclaim = sweep.reclaim
    BY <1>1, SweepTypes DEF SweepStart, SweepStates
  <2> QED
    BY <1>1, <2>1, SweepTypes, SweepMoves DEF SweepStart, dispatcherVars
<1>2. CASE Reclaimed
  <2>1. sweep' \in SweepStates /\ sweep'.reclaim = sweep.reclaim
    BY <1>2, SweepTypes DEF Reclaimed, SweepStates
  <2> QED
    BY <1>2, <2>1, SweepTypes, SweepMoves DEF Reclaimed, dispatcherVars
<1>3. CASE ListDue
  <2>1. PICK batch \in Batches(DueRows) :
           sweep' = [sweep EXCEPT !.pc = "resume", !.due = batch]
    BY <1>3 DEF ListDue
  <2>2. batch \subseteq Deliveries
    BY <2>1 DEF Batches, DueRows
  <2>3. sweep' \in SweepStates /\ sweep'.reclaim = sweep.reclaim
    BY <2>1, <2>2, SweepTypes DEF SweepStates
  <2> QED
    BY <1>3, <2>3, SweepTypes, SweepMoves DEF ListDue, dispatcherVars
<1>4. CASE SweepEnd
  BY <1>4, SweepTypes, SweepMoves DEF SweepEnd, dispatcherVars
<1>5. CASE ListFails
  BY <1>5, SweepTypes, SweepMoves DEF ListFails
<1> QED BY <1>1, <1>2, <1>3, <1>4, <1>5

(* The snapshot that is to be reclaimed is sound.                          *)
LEMMA ListStuckIInv ==
    ASSUME IInv, ListStuck, UNCHANGED <<index, crashes>>
    PROVE  IInv'
<1>1. PICK batch \in Batches(StuckRows) :
         sweep' = [sweep EXCEPT
             !.pc = "reclaim",
             !.reclaim = [d \in Deliveries |->
                 IF d \in batch THEN reclaimStuck(Indexed(d)) ELSE Null]]
  BY DEF ListStuck
<1>2. \A d \in batch : d \in Deliveries /\ Indexed(d) # Null
  BY <1>1 DEF Batches, StuckRows
<1>3. \A d \in batch : /\ reclaimStuck(Indexed(d)) \in DeliveryRecords
                       /\ reclaimStuck(Indexed(d)).status = "pending"
                       /\ Sound(heard[d], reclaimStuck(Indexed(d)))
  <2> SUFFICES ASSUME NEW d \in batch
               PROVE  /\ reclaimStuck(Indexed(d)) \in DeliveryRecords
                      /\ reclaimStuck(Indexed(d)).status = "pending"
                      /\ Sound(heard[d], reclaimStuck(Indexed(d)))
    OBVIOUS
  <2>1. Indexed(d) \in DeliveryRecords /\ Indexed(d).attempts <= MaxAttempts
    BY <1>2
    DEF IInv, TypeOK, DispatcherTypeOK, RecoveryTypeOK, RowsSound, IndexSound,
        Sound, Indexed
  <2> QED BY <2>1, ReclaimSound
<1>4. sweep' \in SweepStates
  BY <1>1, <1>2, <1>3, SweepTypes DEF SweepStates
<1>5. \A d \in Deliveries :
         sweep'.reclaim[d] = IF d \in batch THEN reclaimStuck(Indexed(d)) ELSE Null
  BY <1>1, SweepTypes DEF SweepStates
<1> QED
  BY <1>3, <1>4, <1>5, SweepTypes, SweepMoves DEF ListStuck, dispatcherVars

(* A late reclaim writes a sound row, whatever it overwrites.              *)
LEMMA ReclaimIInv ==
    ASSUME IInv, NEW d \in Deliveries, Reclaim(d) \/ ReclaimFails(d),
           UNCHANGED <<index, crashes>>
    PROVE  IInv'
<1>1. sweep.reclaim[d] # Null /\ sweep' = [sweep EXCEPT !.reclaim[d] = Null]
  BY DEF Reclaim, ReclaimFails
<1>2. /\ sweep' \in SweepStates
      /\ \A x \in Deliveries : sweep'.reclaim[x] \in {sweep.reclaim[x], Null}
  BY <1>1, SweepTypes DEF SweepStates
<1> QED
  BY <1>1, <1>2, SweepTypes, SweepMoves DEF Reclaim, ReclaimFails, SaveRejects

(* The sweep starts runs without a copy.                                   *)
LEMMA ResumeIInv ==
    ASSUME IInv, NEW d \in Deliveries, Resume(d),
           UNCHANGED <<index, crashes>>
    PROVE  IInv'
<1> DEFINE r == [NoRun EXCEPT !.pc = "get", !.by = "recovery"]
<1>1. r \in RunStates /\ r.pc = "get" /\ r.mine = Null
  BY NullCopy DEF RunStates
<1>2. CopyFits(r)
  BY <1>1 DEF CopyFits
<1>3. FreeSlot(d) \in Slots
  BY FreeSlotIsFree DEF Resume
<1>4. sweep' \in SweepStates /\ sweep'.reclaim = sweep.reclaim
  BY SweepTypes DEF Resume, SweepStates
<1> QED
  BY <1>1, <1>2, <1>3, <1>4, RunFacts, RunMoves DEF Resume

(* The index copies a sound row, or that there is none.                    *)
LEMMA ReplicateIInv ==
    ASSUME IInv, NEW d \in Deliveries, Replicate(d), UNCHANGED crashes
    PROVE  IInv'
<1>1. /\ UNCHANGED <<events, dispatch, rows, runs, heard, posts, faults, sweep>>
      /\ index' = [index EXCEPT ![d] = rows[d]]
  BY DEF Replicate, dispatcherVars
<1>2. /\ index' \in [Deliveries -> DeliveryRecords \cup {Null}]
      /\ \A x \in Deliveries : \/ index'[x] = index[x]
                               \/ index'[x] = Null
                               \/ Sound(heard'[x], index'[x])
  BY <1>1 DEF IInv, TypeOK, DispatcherTypeOK, RecoveryTypeOK, RowsSound
<1>3. TypeOK'
  BY <1>1, <1>2 DEF IInv, TypeOK, DispatcherTypeOK, RecoveryTypeOK
<1> QED
  BY <1>1, <1>2, <1>3, SoundStep

-----------------------------------------------------------------------------
(* Time and crashes.                                                       *)

(* A copy that ages is still a copy, and Null stays Null.                  *)
LEMMA AgedCopyFacts ==
    ASSUME NEW r \in DeliveryRecords \cup {Null}
    PROVE  /\ AgedCopy(r) \in DeliveryRecords \cup {Null}
           /\ AgedCopy(r) = Null <=> r = Null
           /\ r # Null => AgedCopy(r) = Aged(r)
BY AgedRecord, NullAssumption DEF AgedCopy

(* A tick keeps IInv: it moves timestamps only.                            *)
LEMMA TickIInv ==
    ASSUME IInv, Tick
    PROVE  IInv'
<1> DEFINE Older(run) == [run EXCEPT !.mine = AgedCopy(run.mine),
                                     !.left = IF @ > 0 THEN @ - 1 ELSE 0]
<1>1. /\ rows' = [d \in Deliveries |-> AgedCopy(rows[d])]
      /\ runs' = [d \in Deliveries |-> [s \in Slots |-> Older(runs[d][s])]]
      /\ sweep' = [sweep EXCEPT
            !.reclaim = [d \in Deliveries |-> AgedCopy(sweep.reclaim[d])]]
      /\ index' = [d \in Deliveries |-> AgedCopy(index[d])]
      /\ UNCHANGED <<events, dispatch, heard, posts, faults, crashes>>
  BY DEF Tick
<1>2. /\ rows \in [Deliveries -> DeliveryRecords \cup {Null}]
      /\ runs \in [Deliveries -> [Slots -> RunStates]]
      /\ sweep \in SweepStates
      /\ index \in [Deliveries -> DeliveryRecords \cup {Null}]
  BY DEF IInv, TypeOK, DispatcherTypeOK, RecoveryTypeOK
<1>3. \A run \in RunStates :
         /\ Older(run) \in RunStates
         /\ Older(run).pc = run.pc
         /\ Older(run).mine = AgedCopy(run.mine)
  <2> SUFFICES ASSUME NEW run \in RunStates
               PROVE  /\ Older(run) \in RunStates
                      /\ Older(run).pc = run.pc
                      /\ Older(run).mine = AgedCopy(run.mine)
    OBVIOUS
  <2>1. AgedCopy(run.mine) \in DeliveryRecords \cup {Null}
    BY AgedCopyFacts DEF RunStates
  <2>2. (IF run.left > 0 THEN run.left - 1 ELSE 0) \in Nat
    BY DEF RunStates
  <2> QED BY <2>1, <2>2 DEF RunStates
<1> HIDE DEF Older
<1>4. TypeOK'
  <2>1. rows' \in [Deliveries -> DeliveryRecords \cup {Null}]
    BY <1>1, <1>2, AgedCopyFacts
  <2>2. runs' \in [Deliveries -> [Slots -> RunStates]]
    BY <1>1, <1>2, <1>3
  <2>3. sweep' \in SweepStates
    BY <1>1, <1>2, AgedCopyFacts DEF SweepStates
  <2>4. index' \in [Deliveries -> DeliveryRecords \cup {Null}]
    BY <1>1, <1>2, AgedCopyFacts
  <2> QED
    BY <1>1, <2>1, <2>2, <2>3, <2>4
    DEF IInv, TypeOK, DispatcherTypeOK, RecoveryTypeOK
<1>5. RowsSound'
  <2> SUFFICES ASSUME NEW d \in Deliveries, rows'[d] # Null
               PROVE  Sound(heard'[d], rows'[d])
    BY DEF RowsSound
  <2>1. rows[d] \in DeliveryRecords /\ rows'[d] = Aged(rows[d])
    BY <1>1, <1>2, AgedCopyFacts
  <2>2. Sound(heard[d], rows[d])
    BY <2>1, NullAssumption DEF IInv, RowsSound
  <2> QED BY <1>1, <2>1, <2>2, AgedSound
<1>6. RunsSound'
  <2> SUFFICES ASSUME NEW d \in Deliveries, NEW s \in Slots
               PROVE  /\ CopyFits(runs'[d][s])
                      /\ runs'[d][s].mine # Null =>
                            Sound(heard'[d], runs'[d][s].mine)
    BY DEF RunsSound
  <2> DEFINE run == runs[d][s]
  <2>1. /\ run \in RunStates /\ CopyFits(run)
        /\ run.mine \in DeliveryRecords \cup {Null}
        /\ run.mine # Null => Sound(heard[d], run.mine)
    BY <1>2 DEF IInv, RunsSound, RunStates
  <2>2. runs'[d][s].pc = run.pc /\ runs'[d][s].mine = AgedCopy(run.mine)
    BY <1>1, <1>2, <1>3, <2>1
  <2> HIDE DEF run
  <2>3. run.mine # Null =>
           /\ runs'[d][s].mine = Aged(run.mine)
           /\ Sound(heard'[d], Aged(run.mine))
    BY <1>1, <2>1, <2>2, AgedSound, AgedCopyFacts
  <2>4. CopyFits(runs'[d][s])
    <3>1. CASE run.mine = Null
      BY <2>1, <2>2, <3>1, AgedCopyFacts, NullAssumption DEF CopyFits
    <3>2. CASE run.mine \in DeliveryRecords
      BY <2>1, <2>2, <2>3, <3>2, AgedRecord, NullAssumption DEF CopyFits
    <3> QED BY <2>1, <3>1, <3>2
  <2> QED BY <2>1, <2>2, <2>3, <2>4, AgedCopyFacts
<1>7. SweepSound'
  <2> SUFFICES ASSUME NEW d \in Deliveries, sweep'.reclaim[d] # Null
               PROVE  /\ Sound(heard'[d], sweep'.reclaim[d])
                      /\ sweep'.reclaim[d].status = "pending"
    BY DEF SweepSound
  <2>1. /\ sweep.reclaim[d] \in DeliveryRecords
        /\ sweep'.reclaim[d] = Aged(sweep.reclaim[d])
    BY <1>1, <1>2, AgedCopyFacts DEF SweepStates
  <2>2. /\ Sound(heard[d], sweep.reclaim[d])
        /\ sweep.reclaim[d].status = "pending"
    BY <2>1, NullAssumption DEF IInv, SweepSound
  <2> QED BY <1>1, <2>1, <2>2, AgedSound, AgedRecord
<1>8. IndexSound'
  <2> SUFFICES ASSUME NEW d \in Deliveries, index'[d] # Null
               PROVE  Sound(heard'[d], index'[d])
    BY DEF IndexSound
  <2>1. index[d] \in DeliveryRecords /\ index'[d] = Aged(index[d])
    BY <1>1, <1>2, AgedCopyFacts
  <2>2. Sound(heard[d], index[d])
    BY <2>1, NullAssumption DEF IInv, IndexSound
  <2> QED BY <1>1, <2>1, <2>2, AgedSound
<1> QED BY <1>4, <1>5, <1>6, <1>7, <1>8 DEF IInv

(* A crash keeps IInv: it forgets copies and keeps rows.                   *)
LEMMA CrashIInv ==
    ASSUME IInv, Crash
    PROVE  IInv'
<1>1. /\ crashes' \in 0..MaxCrashes
      /\ runs' = [d \in Deliveries |-> [s \in Slots |-> NoRun]]
      /\ sweep' = NoSweep
      /\ UNCHANGED <<events, rows, index, heard, posts, faults>>
  BY CrashAssumption DEF Crash, IInv, TypeOK
<1>2. dispatch' \in [Events -> DispatchStates]
  <2>1. ASSUME NEW e \in Events
        PROVE  /\ dispatch[e] \in DispatchStates
               /\ [dispatch[e] EXCEPT !.pc = "lost"] \in DispatchStates
    <3>1. dispatch[e] \in DispatchStates
      BY DEF IInv, TypeOK, DispatcherTypeOK
    <3> QED BY <3>1 DEF DispatchStates
  <2> QED BY <2>1 DEF Crash
<1>3. TypeOK'
  BY <1>1, <1>2, NullCopy, SweepTypes
  DEF IInv, TypeOK, DispatcherTypeOK, RecoveryTypeOK
<1> QED
  BY <1>1, <1>3, NullCopy, SweepTypes, SoundStep

(* IInv is inductive.                                                      *)
LEMMA NextIInv == IInv /\ [Next]_vars => IInv'
<1> SUFFICES ASSUME IInv, [Next]_vars PROVE IInv'
  OBVIOUS
<1>1. CASE DispatcherStep
  <2> USE <1>1 DEF DispatcherStep
  <2>1. CASE \E e \in Events :
                Submit(e) \/ EventStep(e) \/ EventFault(e) \/ PurgeEvent(e)
    BY <2>1, EventStepIInv, MaterializeIInv, StartAttemptsIInv
    DEF EventStep, EventFault
  <2>2. CASE \E d \in Deliveries, s \in Slots : RunStep(d, s) \/ RunFault(d, s)
    BY <2>2, ReadRowIInv, ReadEventIInv, GuardAllowsIInv, GuardBlocksIInv,
       MarkSavedIInv, AnswerIInv, RecordSavedIInv, GiveUpSavedIInv,
       FireTimerIInv, RunFaultIInv
    DEF RunStep
  <2> QED BY <2>1, <2>2 DEF DispatcherNext
<1>2. CASE RecoveryStep
  BY <1>2, SweepPhaseIInv, ListStuckIInv, ReclaimIInv, ResumeIInv
  DEF RecoveryStep, SweepStep, SweepFault
<1>3. CASE IndexStep
  BY <1>3, ReplicateIInv DEF IndexStep
<1>4. CASE Tick
  BY <1>4, TickIInv
<1>5. CASE Crash
  BY <1>5, CrashIInv
<1>6. CASE UNCHANGED vars
  <2>1. TypeOK'
    BY <1>6 DEF IInv, TypeOK, DispatcherTypeOK, RecoveryTypeOK, vars
  <2> QED BY <1>6, <2>1, SoundStep DEF vars
<1> QED BY <1>1, <1>2, <1>3, <1>4, <1>5, <1>6 DEF Next

(* Every row, and every copy that may still be saved, is sound.            *)
THEOREM Soundness == Spec => []IInv
BY InitIInv, NextIInv, PTL DEF Spec

-----------------------------------------------------------------------------
(* What follows from it.                                                   *)

(* Types hold, through every race, fault and crash.                        *)
THEOREM TypeCorrect == Spec => []TypeOK
<1>1. IInv => TypeOK
  BY DEF IInv
<1> QED BY <1>1, Soundness, PTL

(* No row and no copy ever counts more attempts than MaxAttempts.          *)
THEOREM AttemptsAreCapped == Spec => []AttemptsCapped
<1>1. IInv => AttemptsCapped
  BY DEF IInv, RowsSound, RunsSound, Sound, AttemptsCapped, Exists
<1> QED BY <1>1, Soundness, PTL

(* assertTransition never throws.                                          *)
THEOREM TransitionsAreLegal == Spec => []NoIllegalTransition
<1>1. IInv => NoIllegalTransition
  BY NullAssumption
  DEF IInv, RunsSound, CopyFits, NoIllegalTransition, hasAttemptsRemaining
<1> QED BY <1>1, Soundness, PTL

(* No unfinished row is out of reach of the recovery queries.              *)
THEOREM UnfinishedIsVisible == Spec => []VisibleToRecovery
<1>1. IInv => VisibleToRecovery
  BY DEF IInv, RowsSound, Sound, VisibleToRecovery, Exists
<1> QED BY <1>1, Soundness, PTL

(* delivered is never written without a 2xx.                               *)
THEOREM DeliveredIsTrue == Spec => []DeliveredWasAcked
<1>1. IInv => DeliveredWasAcked
  BY DEF IInv, RowsSound, Sound, DeliveredWasAcked, Exists
<1> QED BY <1>1, Soundness, PTL

(* failed is never written without the cause it names.                     *)
THEOREM FailedIsTrue == Spec => []FailureIsExplained
<1>1. IInv => FailureIsExplained
  BY DEF IInv, RowsSound, Sound, Explained, FailureIsExplained, Exists
<1> QED BY <1>1, Soundness, PTL
-----------------------------------------------------------------------------
(* The stuck threshold.  TimeInv is inductive when StuckThreshold exceeds  *)
(* the longest an attempt can take: two saves and a POST.                  *)

(* The awaits of an attempt that is still under way.                       *)
Live == {"send", "record"}

(* A step keeps TimeInv if a row it marks is fresh, a run that it sends on *)
(* its way has its full time, and a run already on its way gets no more.   *)
LEMMA TimeStep ==
    ASSUME TimeInv, IInv',
           \A d \in Deliveries :
              \/ rows'[d] = rows[d]
              \/ rows'[d].status # "delivering"
              \/ rows'[d].lastAttemptAt <= StoreTimeout,
           \A d \in Deliveries, s \in Slots :
              \/ runs'[d][s] = runs[d][s]
              \/ runs'[d][s].pc \notin TimedAwaits
              \/ /\ runs'[d][s].pc = "mark"
                 /\ runs'[d][s].mine.lastAttemptAt + runs'[d][s].left
                       <= StoreTimeout
              \/ /\ runs'[d][s].pc \in Live
                 /\ Remaining(runs'[d][s]) <= WebhookTimeout + StoreTimeout
                 /\ \/ rows'[d].lastAttemptAt <= StoreTimeout
                    \/ /\ runs[d][s].pc \in Live
                       /\ Remaining(runs'[d][s]) <= Remaining(runs[d][s])
    PROVE  TimeInv'
<1>1. MarksAreFresh'
  BY DEF TimeInv, MarksAreFresh, TimedAwaits, Live
<1>2. AttemptsEndInTime'
  <2> SUFFICES ASSUME NEW d \in Deliveries, NEW s \in Slots,
                      runs'[d][s].pc \in Live
               PROVE  /\ Remaining(runs'[d][s]) <= WebhookTimeout + StoreTimeout
                      /\ rows'[d] # Null /\ rows'[d].status = "delivering" =>
                            rows'[d].lastAttemptAt + Remaining(runs'[d][s])
                                <= WebhookTimeout + 2 * StoreTimeout
    BY DEF AttemptsEndInTime, Exists, Live
  <2> DEFINE now == Remaining(runs'[d][s])
             before == Remaining(runs[d][s])
  <2>1. now \in Nat /\ before \in Nat
    BY DispatcherAssumption
    DEF TimeInv, IInv, TypeOK, DispatcherTypeOK, RunStates, Remaining
  <2>2. now <= WebhookTimeout + StoreTimeout
    BY DEF TimeInv, AttemptsEndInTime, TimedAwaits, Live
  <2>3. ASSUME rows'[d] # Null, rows'[d].status = "delivering"
        PROVE  rows'[d].lastAttemptAt + now <= WebhookTimeout + 2 * StoreTimeout
    <3>1. rows'[d].lastAttemptAt \in Nat
      BY <2>3, ThresholdAssumption
      DEF IInv, TypeOK, DispatcherTypeOK, DeliveryRecords, RowsSound, Sound
    <3> HIDE DEF now, before
    <3>2. CASE rows'[d].lastAttemptAt <= StoreTimeout
      BY <2>1, <2>2, <3>1, <3>2, DispatcherAssumption
    <3>3. CASE /\ rows'[d] = rows[d]
               /\ runs[d][s].pc \in Live /\ now <= before
      <4>1. rows[d].lastAttemptAt + before <= WebhookTimeout + 2 * StoreTimeout
        BY <2>3, <3>3 DEF TimeInv, AttemptsEndInTime, Exists, Live, before
      <4> QED BY <2>1, <3>1, <3>3, <4>1, DispatcherAssumption
    <3>4. \/ rows'[d].lastAttemptAt <= StoreTimeout
          \/ rows'[d] = rows[d]
      BY <2>3
    <3>5. \/ rows'[d].lastAttemptAt <= StoreTimeout
          \/ runs[d][s].pc \in Live /\ now <= before
      <4>1. CASE runs'[d][s] = runs[d][s]
        BY <2>1, <4>1 DEF now, before
      <4>2. CASE runs'[d][s] # runs[d][s]
        BY <4>2 DEF now, before, Live, TimedAwaits
      <4> QED BY <4>1, <4>2
    <3> QED BY <3>2, <3>3, <3>4, <3>5
  <2> QED BY <2>2, <2>3
<1> QED BY <1>1, <1>2 DEF TimeInv

(* A fresh mark is no older than the save that writes it may take.         *)
LEMMA MarkAge ==
    ASSUME TimeInv, NEW d \in Deliveries, NEW s \in Slots, runs[d][s].pc = "mark"
    PROVE  runs[d][s].mine.lastAttemptAt <= StoreTimeout
<1>1. runs[d][s].mine \in DeliveryRecords /\ runs[d][s].mine.lastAttemptAt # Null
  BY RunFacts DEF TimeInv, CopyFits, Sound
<1>2. runs[d][s].mine.lastAttemptAt \in Nat /\ runs[d][s].left \in Nat
  BY <1>1, RunFacts, ThresholdAssumption DEF TimeInv, DeliveryRecords, RunStates
<1>3. runs[d][s].mine.lastAttemptAt + runs[d][s].left <= StoreTimeout
  BY DEF TimeInv, MarksAreFresh
<1> QED BY <1>2, <1>3, DispatcherAssumption

(* A run that moves to an await without a time limit.                      *)
LEMMA TimeRunMoves ==
    ASSUME TimeInv, IInv', NEW d \in Deliveries, NEW s \in Slots,
           NEW r, r.pc \notin TimedAwaits, GoTo(d, s, r),
           \/ rows' = rows
           \/ \E row \in DeliveryRecords : /\ Save(d, row)
                                           /\ \/ row.status # "delivering"
                                              \/ row.lastAttemptAt <= StoreTimeout
    PROVE  TimeInv'
<1>1. /\ runs \in [Deliveries -> [Slots -> RunStates]]
      /\ rows \in [Deliveries -> DeliveryRecords \cup {Null}]
  BY DEF TimeInv, IInv, TypeOK, DispatcherTypeOK
<1>2. \A x \in Deliveries, t \in Slots :
         runs'[x][t] = IF x = d /\ t = s THEN r ELSE runs[x][t]
  BY <1>1 DEF GoTo
<1>3. \A x \in Deliveries :
         \/ rows'[x] = rows[x]
         \/ rows'[x].status # "delivering"
         \/ rows'[x].lastAttemptAt <= StoreTimeout
  BY <1>1 DEF Save
<1> QED BY <1>2, <1>3, TimeStep

(* Every step of a run keeps TimeInv.                                      *)
LEMMA RunStepTime ==
    ASSUME TimeInv, IInv', NEW d \in Deliveries, NEW s \in Slots,
           RunStep(d, s) \/ RunFault(d, s), UNCHANGED <<sweep, index, crashes>>
    PROVE  TimeInv'
<1> DEFINE run == runs[d][s]
<1>0. /\ IInv
      /\ runs \in [Deliveries -> [Slots -> RunStates]]
      /\ rows \in [Deliveries -> DeliveryRecords \cup {Null}]
      /\ run \in RunStates /\ CopyFits(run)
  BY RunFacts DEF TimeInv, IInv, TypeOK, DispatcherTypeOK
<1>1. NoRun.pc \notin TimedAwaits
  BY DEF NoRun, TimedAwaits
<1>2. CASE ReadRow(d, s)
  <2>1. ASSUME NEW pc \in {"giveUp", "getEvent"}, NEW mine
        PROVE  [run EXCEPT !.pc = pc, !.mine = mine].pc \notin TimedAwaits
    BY <1>0 DEF RunStates, TimedAwaits
  <2> QED BY <1>1, <1>2, <2>1, TimeRunMoves DEF ReadRow
<1>3. CASE ReadEvent(d, s) \/ GuardBlocks(d, s)
  <2>1. /\ [run EXCEPT !.pc = "guard"].pc \notin TimedAwaits
        /\ \A mine : [run EXCEPT !.pc = "giveUp", !.mine = mine].pc
                        \notin TimedAwaits
    BY <1>0 DEF RunStates, TimedAwaits
  <2> QED BY <1>3, <2>1, TimeRunMoves DEF ReadEvent, GuardBlocks
<1>4. CASE GuardAllows(d, s)
  <2> DEFINE r == [run EXCEPT !.pc = "mark", !.mine = beginAttempt(run.mine),
                              !.left = StoreTimeout]
  <2>1. run.mine \in DeliveryRecords /\ run.mine.attempts < MaxAttempts
    BY <1>0, <1>4 DEF GuardAllows, CopyFits
  <2>2. beginAttempt(run.mine).lastAttemptAt = 0
    BY <2>1, BeginSound
  <2>3. /\ r.pc = "mark" /\ r.left = StoreTimeout
        /\ r.mine = beginAttempt(run.mine)
    BY <1>0 DEF RunStates
  <2>4. r.mine.lastAttemptAt + r.left <= StoreTimeout
    BY <2>2, <2>3, DispatcherAssumption
  <2>5. \A x \in Deliveries, t \in Slots :
           runs'[x][t] = IF x = d /\ t = s THEN r ELSE runs[x][t]
    BY <1>0, <1>4 DEF GuardAllows, GoTo
  <2> HIDE DEF r
  <2> QED BY <1>4, <2>3, <2>4, <2>5, TimeStep DEF GuardAllows
<1>5. CASE MarkSaved(d, s)
  <2> DEFINE r == [run EXCEPT !.pc = "send", !.left = WebhookTimeout]
  <2>1. run.mine.lastAttemptAt <= StoreTimeout
    BY <1>5, MarkAge DEF MarkSaved
  <2>2. r.pc = "send" /\ Remaining(r) = WebhookTimeout + StoreTimeout
    BY <1>0 DEF RunStates, Remaining
  <2>3. \A x \in Deliveries, t \in Slots :
           runs'[x][t] = IF x = d /\ t = s THEN r ELSE runs[x][t]
    BY <1>0, <1>5 DEF MarkSaved, GoTo
  <2>4. \A x \in Deliveries : rows'[x] = IF x = d THEN run.mine ELSE rows[x]
    BY <1>0, <1>5 DEF MarkSaved, Save
  <2>5. Remaining(r) <= WebhookTimeout + StoreTimeout
    BY <2>2, DispatcherAssumption
  <2> HIDE DEF r, run
  <2> QED BY <2>1, <2>2, <2>3, <2>4, <2>5, TimeStep DEF Live
<1>6. CASE Answer(d, s)
  <2>1. PICK r : /\ \E mine, delay : r = [run EXCEPT !.pc = "record",
                                        !.mine = mine, !.left = StoreTimeout,
                                        !.delay = delay]
                 /\ GoTo(d, s, r)
    BY <1>6 DEF Answer
  <2>2. r.pc = "record" /\ r.left = StoreTimeout
    BY <1>0, <2>1 DEF RunStates
  <2>3. run.pc = "send" /\ rows' = rows
    BY <1>6 DEF Answer
  <2>4. /\ Remaining(r) <= Remaining(run)
        /\ Remaining(r) <= WebhookTimeout + StoreTimeout
    BY <1>0, <2>2, <2>3, DispatcherAssumption DEF Remaining, RunStates
  <2>5. \A x \in Deliveries, t \in Slots :
           runs'[x][t] = IF x = d /\ t = s THEN r ELSE runs[x][t]
    BY <1>0, <2>1 DEF GoTo
  <2> HIDE DEF run
  <2>6. run.pc \in Live /\ r.pc \in Live
    BY <2>2, <2>3 DEF Live
  <2> QED BY <2>3, <2>4, <2>5, <2>6, TimeStep DEF run
<1>7. CASE RecordSaved(d, s)
  <2>1. [NoRun EXCEPT !.pc = "backoff", !.left = run.delay].pc \notin TimedAwaits
    BY DEF NoRun, TimedAwaits
  <2>2. run.mine \in DeliveryRecords /\ run.mine.status # "delivering"
    BY <1>0, <1>7 DEF RecordSaved, CopyFits
  <2>3. CASE run.mine.status = "pending"
    BY <1>7, <2>1, <2>2, <2>3, TimeRunMoves DEF RecordSaved
  <2>4. CASE run.mine.status # "pending"
    BY <1>1, <1>7, <2>2, <2>4, TimeRunMoves DEF RecordSaved
  <2> QED BY <2>3, <2>4
<1>8. CASE GiveUpSaved(d, s)
  <2>1. run.mine \in DeliveryRecords /\ run.mine.status # "delivering"
    BY <1>0, <1>8 DEF GiveUpSaved, CopyFits
  <2> QED BY <1>1, <1>8, <2>1, TimeRunMoves DEF GiveUpSaved
<1>9. CASE FireTimer(d, s)
  <2>1. [NoRun EXCEPT !.pc = "get"].pc \notin TimedAwaits
    BY DEF NoRun, TimedAwaits
  <2> QED BY <1>9, <2>1, TimeRunMoves DEF FireTimer
<1>10. CASE RunSaveFails(d, s)
  <2>1. run.mine \in DeliveryRecords
    BY <1>0, <1>10 DEF RunSaveFails, CopyFits
  <2>2. run.mine.status # "delivering" \/ run.mine.lastAttemptAt <= StoreTimeout
    BY <1>0, <1>10, MarkAge DEF RunSaveFails, CopyFits
  <2> QED BY <1>1, <1>10, <2>1, <2>2, TimeRunMoves DEF RunSaveFails, SaveRejects
<1>11. CASE RunReadFails(d, s)
  BY <1>1, <1>11, TimeRunMoves DEF RunReadFails
<1> QED
  BY <1>2, <1>3, <1>4, <1>5, <1>6, <1>7, <1>8, <1>9, <1>10, <1>11
  DEF RunStep, RunFault

(* Ingestion and dispatch keep TimeInv.                                    *)
LEMMA EventTime ==
    ASSUME TimeInv, IInv', NEW e \in Events,
           Submit(e) \/ EventStep(e) \/ EventFault(e) \/ PurgeEvent(e),
           UNCHANGED <<sweep, index, crashes>>
    PROVE  TimeInv'
<1>0. /\ runs \in [Deliveries -> [Slots -> RunStates]]
      /\ rows \in [Deliveries -> DeliveryRecords \cup {Null}]
  BY DEF TimeInv, IInv, TypeOK, DispatcherTypeOK
<1>1. CASE StartAttempts(e)
  <2> DEFINE Attempt == [NoRun EXCEPT !.pc = "guard", !.mine = CreatedDelivery]
  <2>1. Attempt.pc \notin TimedAwaits
    BY DEF NoRun, TimedAwaits
  <2> HIDE DEF Attempt
  <2>2. \A d \in Deliveries, s \in Slots :
           runs'[d][s] = runs[d][s] \/ runs'[d][s] = Attempt
    BY <1>0, <1>1, FreeSlotIsFree DEF StartAttempts, Attempt
  <2> QED BY <1>1, <2>1, <2>2, TimeStep DEF StartAttempts
<1>2. CASE ~StartAttempts(e)
  <2>1. /\ runs' = runs
        /\ rows' = rows \/ \E d : Save(d, CreatedDelivery)
    BY <1>2
    DEF EventStep, EventFault, Submit, SaveEvent, SaveEventFails, Match, MatchFails,
        Materialize, MaterializeFails, SaveRejects, PurgeEvent
  <2>2. \A d \in Deliveries : rows'[d] = rows[d] \/ rows'[d].status # "delivering"
    BY <1>0, <2>1, CreatedRecord DEF Save
  <2> QED BY <2>1, <2>2, TimeStep
<1> QED BY <1>1, <1>2

(* The sweep keeps TimeInv: it marks no row delivering.                    *)
LEMMA SweepTime ==
    ASSUME TimeInv, IInv', RecoveryStep
    PROVE  TimeInv'
<1>0. /\ runs \in [Deliveries -> [Slots -> RunStates]]
      /\ rows \in [Deliveries -> DeliveryRecords \cup {Null}]
      /\ \A d \in Deliveries :
            sweep.reclaim[d] # Null => sweep.reclaim[d].status = "pending"
  BY DEF TimeInv, IInv, TypeOK, DispatcherTypeOK, SweepSound
<1>1. CASE \E d \in Deliveries : Resume(d)
  <2> DEFINE r == [NoRun EXCEPT !.pc = "get", !.by = "recovery"]
  <2>1. r.pc \notin TimedAwaits
    BY DEF NoRun, TimedAwaits
  <2>2. PICK d \in Deliveries : Resume(d)
    BY <1>1
  <2>3. FreeSlot(d) \in Slots
    BY <2>2, FreeSlotIsFree DEF Resume
  <2> QED BY <2>1, <2>2, <2>3, TimeRunMoves DEF Resume
<1>2. CASE ~\E d \in Deliveries : Resume(d)
  <2>1. /\ runs' = runs
        /\ \/ rows' = rows
           \/ \E d \in Deliveries : /\ sweep.reclaim[d] # Null
                                    /\ Save(d, sweep.reclaim[d])
    BY <1>2
    DEF RecoveryStep, SweepStep, SweepFault, SweepStart, ListStuck, Reclaim,
        ReclaimFails, SaveRejects, Reclaimed, ListDue, SweepEnd, ListFails,
        dispatcherVars
  <2>2. \A d \in Deliveries : rows'[d] = rows[d] \/ rows'[d].status # "delivering"
    BY <1>0, <2>1 DEF Save
  <2> QED BY <2>1, <2>2, TimeStep
<1> QED BY <1>1, <1>2

(* The index has no part in TimeInv.                                       *)
LEMMA IndexTime ==
    ASSUME TimeInv, IInv', IndexStep
    PROVE  TimeInv'
BY TimeStep DEF IndexStep, Replicate, dispatcherVars

(* A crash keeps TimeInv: no attempt is under way after it.                *)
LEMMA CrashTime ==
    ASSUME TimeInv, IInv', Crash
    PROVE  TimeInv'
BY TimeStep DEF Crash, NoRun, TimedAwaits

(* A tick ages rows and marks by one, and takes one from every time left,  *)
(* for it does not happen while a time limit has run out.                  *)
LEMMA TickTime ==
    ASSUME TimeInv, Tick
    PROVE  TimeInv'
<1>0. /\ IInv /\ IInv'
      /\ runs \in [Deliveries -> [Slots -> RunStates]]
      /\ rows \in [Deliveries -> DeliveryRecords \cup {Null}]
  BY TickIInv DEF TimeInv, IInv, TypeOK, DispatcherTypeOK
<1>1. ASSUME NEW d \in Deliveries, NEW s \in Slots,
             runs[d][s].pc \in TimedAwaits
      PROVE  /\ runs'[d][s].left = runs[d][s].left - 1
             /\ runs'[d][s].left \in Nat /\ runs[d][s].left \in Nat
             /\ Remaining(runs'[d][s]) = Remaining(runs[d][s]) - 1
  <2> DEFINE run == runs[d][s]
             older == [run EXCEPT !.mine = AgedCopy(run.mine),
                                  !.left = IF @ > 0 THEN @ - 1 ELSE 0]
  <2>1. run \in RunStates /\ run.left > 0 /\ run.left \in Nat
    BY <1>0, <1>1 DEF Tick, RunStates
  <2>2. runs'[d][s] = older
    BY <1>0 DEF Tick
  <2>3. older.pc = run.pc /\ older.left = run.left - 1
    BY <2>1 DEF RunStates
  <2> HIDE DEF run, older
  <2>4. older.left \in Nat
    BY <2>1, <2>3
  <2>5. Remaining(older) = Remaining(run) - 1
    BY <2>1, <2>3, DispatcherAssumption DEF Remaining
  <2> QED BY <2>1, <2>2, <2>3, <2>4, <2>5 DEF run
<1>2. \A d \in Deliveries, s \in Slots :
         /\ runs'[d][s].pc = runs[d][s].pc
         /\ runs'[d][s].mine = AgedCopy(runs[d][s].mine)
  <2> SUFFICES ASSUME NEW d \in Deliveries, NEW s \in Slots
               PROVE  /\ runs'[d][s].pc = runs[d][s].pc
                      /\ runs'[d][s].mine = AgedCopy(runs[d][s].mine)
    OBVIOUS
  <2>1. runs'[d][s] = [runs[d][s] EXCEPT
                          !.mine = AgedCopy(runs[d][s].mine),
                          !.left = IF @ > 0 THEN @ - 1 ELSE 0]
    BY DEF Tick
  <2>2. runs[d][s] \in RunStates
    BY <1>0
  <2> QED BY <2>1, <2>2 DEF RunStates
<1>3. ASSUME NEW r \in DeliveryRecords, r.lastAttemptAt # Null
      PROVE  /\ r.lastAttemptAt \in Nat /\ Aged(r).lastAttemptAt \in Nat
             /\ Aged(r).lastAttemptAt <= r.lastAttemptAt + 1
  <2>1. r.lastAttemptAt \in 0..StuckThreshold
    BY <1>3 DEF DeliveryRecords
  <2>2. Aged(r).lastAttemptAt = GrowOlder(r.lastAttemptAt)
    BY DEF Aged, DeliveryRecords
  <2>3. /\ GrowOlder(r.lastAttemptAt) \in Nat
        /\ GrowOlder(r.lastAttemptAt) <= r.lastAttemptAt + 1
    BY <2>1, ThresholdAssumption, DelayNotNull DEF GrowOlder
  <2> QED BY <2>1, <2>2, <2>3, ThresholdAssumption
<1>4. MarksAreFresh'
  <2> SUFFICES ASSUME NEW d \in Deliveries, NEW s \in Slots,
                      runs'[d][s].pc = "mark"
               PROVE  runs'[d][s].mine.lastAttemptAt + runs'[d][s].left
                          <= StoreTimeout
    BY DEF MarksAreFresh
  <2> DEFINE mine == runs[d][s].mine
  <2>1. runs[d][s].pc = "mark"
    BY <1>2
  <2>2. mine \in DeliveryRecords /\ mine.lastAttemptAt # Null
    BY <1>0, <2>1, RunFacts DEF CopyFits, Sound
  <2>3. mine.lastAttemptAt + runs[d][s].left <= StoreTimeout
    BY <2>1 DEF TimeInv, MarksAreFresh
  <2>4. runs'[d][s].mine = Aged(mine)
    BY <1>2, <2>2, AgedCopyFacts, NullAssumption
  <2>5. runs'[d][s].left = runs[d][s].left - 1 /\ runs[d][s].left \in Nat
    BY <1>1, <2>1 DEF TimedAwaits
  <2>6. /\ mine.lastAttemptAt \in Nat /\ Aged(mine).lastAttemptAt \in Nat
        /\ Aged(mine).lastAttemptAt <= mine.lastAttemptAt + 1
    BY <1>3, <2>2
  <2> HIDE DEF mine
  <2> QED BY <2>3, <2>4, <2>5, <2>6, DispatcherAssumption
<1>5. AttemptsEndInTime'
  <2> SUFFICES ASSUME NEW d \in Deliveries, NEW s \in Slots,
                      runs'[d][s].pc \in Live
               PROVE  /\ Remaining(runs'[d][s]) <= WebhookTimeout + StoreTimeout
                      /\ rows'[d] # Null /\ rows'[d].status = "delivering" =>
                            rows'[d].lastAttemptAt + Remaining(runs'[d][s])
                                <= WebhookTimeout + 2 * StoreTimeout
    BY DEF AttemptsEndInTime, Exists, Live
  <2> DEFINE now == Remaining(runs'[d][s])
             before == Remaining(runs[d][s])
  <2>1. runs[d][s].pc \in Live
    BY <1>2
  <2>2. now = before - 1 /\ before \in Nat
    <3>1. now = before - 1
      BY <1>1, <2>1 DEF Live, TimedAwaits
    <3>2. before \in Nat
      BY <1>0, DispatcherAssumption DEF Remaining, RunStates
    <3> QED BY <3>1, <3>2
  <2>3. before <= WebhookTimeout + StoreTimeout
    BY <2>1 DEF TimeInv, AttemptsEndInTime, Live
  <2>4. ASSUME rows'[d] # Null, rows'[d].status = "delivering"
        PROVE  rows'[d].lastAttemptAt + now <= WebhookTimeout + 2 * StoreTimeout
    <3>1. rows[d] \in DeliveryRecords /\ rows'[d] = Aged(rows[d])
      BY <1>0, <2>4, AgedCopyFacts DEF Tick
    <3>2. rows[d].status = "delivering" /\ rows[d].lastAttemptAt # Null
      BY <1>0, <2>4, <3>1, AgedRecord, NullAssumption DEF IInv, RowsSound, Sound
    <3>3. rows[d].lastAttemptAt + before <= WebhookTimeout + 2 * StoreTimeout
      BY <2>1, <3>1, <3>2, NullAssumption
      DEF TimeInv, AttemptsEndInTime, Exists, Live
    <3>4. /\ rows[d].lastAttemptAt \in Nat /\ rows'[d].lastAttemptAt \in Nat
          /\ rows'[d].lastAttemptAt <= rows[d].lastAttemptAt + 1
      BY <1>3, <3>1, <3>2
    <3> HIDE DEF now, before
    <3> QED BY <2>2, <3>3, <3>4, DispatcherAssumption
  <2> HIDE DEF now, before
  <2>5. now <= WebhookTimeout + StoreTimeout
    BY <2>2, <2>3, DispatcherAssumption
  <2> QED BY <2>4, <2>5 DEF now
<1> QED BY <1>0, <1>4, <1>5 DEF TimeInv

(* TimeInv holds at the start, where no attempt is under way.              *)
LEMMA InitTimeInv == Init => TimeInv
BY InitIInv
DEF Init, DispatcherInit, TimeInv, MarksAreFresh, AttemptsEndInTime, NoRun

(* TimeInv is inductive.                                                   *)
LEMMA NextTimeInv == TimeInv /\ [Next]_vars => TimeInv'
<1> SUFFICES ASSUME TimeInv, [Next]_vars PROVE TimeInv'
  OBVIOUS
<1>0. IInv'
  BY NextIInv DEF TimeInv
<1>1. CASE DispatcherStep
  BY <1>0, <1>1, EventTime, RunStepTime DEF DispatcherStep, DispatcherNext
<1>2. CASE RecoveryStep
  BY <1>0, <1>2, SweepTime
<1>3. CASE IndexStep
  BY <1>0, <1>3, IndexTime
<1>4. CASE Tick
  BY <1>4, TickTime
<1>5. CASE Crash
  BY <1>0, <1>5, CrashTime
<1>6. CASE UNCHANGED vars
  BY <1>0, <1>6, TimeStep DEF vars
<1> QED BY <1>1, <1>2, <1>3, <1>4, <1>5, <1>6 DEF Next

(* The time an attempt has left and the age of the row it marked always    *)
(* add up to no more than a POST and two saves: the timeout that           *)
(* attemptDelivery sets, and the mark it saves first.                      *)
THEOREM AttemptsKeepTheirTime == Spec => []TimeInv
BY InitTimeInv, NextTimeInv, PTL DEF Spec

(* With a stuck threshold longer than a POST and the two saves around it,  *)
(* the sweep never takes a row for abandoned while an attempt on it is     *)
(* still under way, as long as its list is not older than the table.       *)
THEOREM StuckIsAbandoned ==
    ASSUME StuckThreshold > WebhookTimeout + 2 * StoreTimeout, ~LaggingIndex
    PROVE  Spec => []StuckMeansAbandoned
<1>1. TimeInv => StuckMeansAbandoned
  <2> SUFFICES ASSUME TimeInv, NEW d \in Deliveries, NEW s \in Slots,
                      Exists(d), IsStuck(rows[d]), runs[d][s].pc \in Live
               PROVE  FALSE
    BY DEF StuckMeansAbandoned, StuckRows, Indexed, Exists, Live
  <2>1. /\ rows[d].status = "delivering"
        /\ rows[d].lastAttemptAt = StuckThreshold
    BY DEF IsStuck
  <2>2. rows[d].lastAttemptAt + Remaining(runs[d][s])
            <= WebhookTimeout + 2 * StoreTimeout
    BY <2>1 DEF TimeInv, AttemptsEndInTime, Live
  <2>3. Remaining(runs[d][s]) \in Nat
    BY DispatcherAssumption
    DEF TimeInv, IInv, TypeOK, DispatcherTypeOK, RunStates, Remaining
  <2> QED
    BY <2>1, <2>2, <2>3, DispatcherAssumption, ThresholdAssumption
<1> QED
  BY <1>1, AttemptsKeepTheirTime, PTL
=============================================================================
