------------------------- MODULE WebhookServiceInv -------------------------
(***************************************************************************)
(* The inductive invariants behind the safety properties of                *)
(* WebhookService.  The properties speak of rows; what makes them          *)
(* inductive is that every copy that may still be written to a row, held   *)
(* by a run, the index or the sweep, is as good as the row it would        *)
(* replace.                                                                *)
(***************************************************************************)
EXTENDS WebhookService

-----------------------------------------------------------------------------
(* A failed row's lastError is borne out by what was heard.                *)
Explained(evidence, row) ==
    \/ /\ row.lastError = "outcome"
       /\ \/ "permanent" \in evidence
          \/ "retryable" \in evidence /\ row.attempts = MaxAttempts
    \/ row.lastError = "limit" /\ row.attempts = MaxAttempts
    \/ row.lastError = "blocked" /\ "blocked" \in evidence
    \/ row.lastError = "eventGone" /\ "eventGone" \in evidence

(* What holds of a row, and of a copy that may become one.                 *)
Sound(evidence, row) ==
    /\ row.attempts <= MaxAttempts
    /\ row.status = "pending" <=> row.nextAttemptAt # Null
    /\ row.status = "delivering" => row.lastAttemptAt # Null
    /\ row.status = "delivered" => "success" \in evidence
    /\ row.status = "failed" => Explained(evidence, row)

(* The copy that a run holds at each await.                                *)
CopyFits(run) ==
    /\ run.pc \in {"idle", "get", "backoff"} => run.mine = Null
    /\ run.pc \in {"getEvent", "guard"} =>
          /\ run.mine \in DeliveryRecords
          /\ run.mine.status = "pending"
          /\ run.mine.attempts < MaxAttempts
    /\ run.pc \in {"mark", "send"} =>
          /\ run.mine \in DeliveryRecords
          /\ run.mine.status = "delivering"
    /\ run.pc \in {"giveUp", "record"} =>
          /\ run.mine \in DeliveryRecords
          /\ run.mine.status # "delivering"

RowsSound == \A d \in Deliveries : rows[d] # Null => Sound(heard[d], rows[d])

RunsSound ==
    \A d \in Deliveries, s \in Slots :
        /\ CopyFits(runs[d][s])
        /\ runs[d][s].mine # Null => Sound(heard[d], runs[d][s].mine)

SweepSound ==
    \A d \in Deliveries :
        sweep.reclaim[d] # Null =>
            /\ Sound(heard[d], sweep.reclaim[d])
            /\ sweep.reclaim[d].status = "pending"

IndexSound ==
    \A d \in Deliveries : index[d] # Null => Sound(heard[d], index[d])

(* Whatever races, faults and crashes do, every row is sound, and so is    *)
(* every copy of one that may still be saved.                              *)
IInv == TypeOK /\ RowsSound /\ RunsSound /\ SweepSound /\ IndexSound

-----------------------------------------------------------------------------
(* Time: how much longer an attempt can be under way, and how old the row  *)
(* that it marked, or that another run marked since, can be by then.       *)
Remaining(run) == IF run.pc = "send" THEN run.left + StoreTimeout ELSE run.left

MarksAreFresh ==
    \A d \in Deliveries, s \in Slots :
        runs[d][s].pc = "mark" =>
            runs[d][s].mine.lastAttemptAt + runs[d][s].left <= StoreTimeout

AttemptsEndInTime ==
    \A d \in Deliveries, s \in Slots :
        runs[d][s].pc \in {"send", "record"} =>
            /\ Remaining(runs[d][s]) <= WebhookTimeout + StoreTimeout
            /\ Exists(d) /\ rows[d].status = "delivering" =>
                  rows[d].lastAttemptAt + Remaining(runs[d][s])
                      <= WebhookTimeout + 2 * StoreTimeout

TimeInv == IInv /\ MarksAreFresh /\ AttemptsEndInTime

-----------------------------------------------------------------------------
(* The dispatcher alone: nobody but the one run of a delivery writes its   *)
(* row, so what the run knew at its last read or save is still true.       *)

Active(d) == {s \in Slots : runs[d][s].pc # "idle"}

(* The row of a delivery whose run is at an await.                         *)
RowFits(run, row) ==
    /\ run.pc \in {"getEvent", "guard", "send"} => row = run.mine
    /\ run.pc = "mark" =>
          /\ row # Null /\ row.status = "pending"
          /\ row.attempts < MaxAttempts
          /\ run.mine.attempts = row.attempts + 1
    /\ run.pc = "record" =>
          /\ row # Null /\ row.status = "delivering"
          /\ run.mine.attempts = row.attempts
          /\ run.mine.status = "pending" => row.attempts < MaxAttempts
    /\ run.pc = "giveUp" =>
          /\ row # Null /\ row.status = "pending"
          /\ run.mine.status = "failed"
          /\ run.mine.attempts = row.attempts

OneRunEach ==
    \A d \in Deliveries :
        /\ \A s, t \in Active(d) : s = t
        /\ \A s \in Slots : RowFits(runs[d][s], rows[d])

(* Until its event is dispatched nothing happens to a delivery but that    *)
(* its row is made.                                                        *)
Untouched(d) ==
    /\ rows[d] \in {Null, CreatedDelivery}
    /\ heard[d] = {} /\ posts[d] = 0
    /\ Active(d) = {}

RowsComeFirst ==
    \A e \in Events :
        /\ dispatch[e].pc = "done" => dispatch[e].unsaved = {}
        /\ dispatch[e].pc # "done" => \A sub \in Subs : Untouched(<<e, sub>>)
        /\ dispatch[e].pc \in {"idle", "accept", "match"} =>
              \A sub \in Subs : rows[<<e, sub>>] = Null
        /\ dispatch[e].pc = "materialize" =>
              \A sub \in dispatch[e].unsaved : rows[<<e, sub>>] = Null
        /\ \A sub \in dispatch[e].made : rows[<<e, sub>>] # Null

(* A 2xx is recorded as such, or never.                                    *)
SuccessFits(run) ==
    /\ run.pc \in {"idle", "record"}
    /\ run.pc = "record" => run.mine.status = "delivered"

SuccessIsKept ==
    \A d \in Deliveries : "success" \in heard[d] =>
        /\ rows[d] # Null /\ rows[d].status \in {"delivering", "delivered"}
        /\ \A s \in Slots : SuccessFits(runs[d][s])

AloneInv ==
    /\ sweep.pc = "idle"
    /\ OneRunEach
    /\ RowsComeFirst
    /\ SuccessIsKept
    /\ PostsAreCounted
=============================================================================
