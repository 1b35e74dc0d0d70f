--------------------------- MODULE ShutdownProofs ---------------------------
(***************************************************************************)
(* Proofs about Shutdown, for every value of its constants: what the drain *)
(* awaits in any case, and when it awaits everything.                      *)
(***************************************************************************)
EXTENDS Shutdown, TLAPS

TaskRecords ==
    [state : States, by : {"nobody", "dispatcher", "sweep"}, tracked : {"yes", "no"},
     since : {"never", "before", "drain"}, left : Nat, tries : Nat]

(* The part of the types that the proofs need.                             *)
Typed ==
    /\ task \in [Deliveries -> TaskRecords]
    /\ deadline \in 0..DrainTimeout
    /\ awaited \subseteq Deliveries

(* The attempts of the dispatcher, and only they, are tracked.             *)
Tracked == \A d \in Trying : task[d].by = "dispatcher" <=> task[d].tracked = "yes"

(* What the drain knows: the dispatcher's attempts from before it.         *)
Awaits ==
    phase = "draining" =>
        \A d \in Trying : task[d].by = "dispatcher" /\ task[d].since = "before" => d \in awaited

(* A drain that came to its end before the deadline awaited nobody any     *)
(* more, and nothing moves after the exit.                                 *)
Ended == cause = "none" <=> phase # "exited"

DrainInv == Typed /\ Tracked /\ Awaits /\ Ended /\ DrainAwaitsTheDispatcher

(* An attempt is a task of the right kind.                                 *)
LEMMA AttemptIsTask ==
    ASSUME Typed, NEW d \in Deliveries, NEW by \in {"dispatcher", "sweep"}
    PROVE  /\ Attempt(d, by) \in TaskRecords
           /\ Attempt(d, by).state = "trying"
           /\ Attempt(d, by).by = by
           /\ Attempt(d, by).tracked = IF by = "dispatcher" THEN "yes" ELSE "no"
           /\ Attempt(d, by).since = IF phase = "draining" THEN "drain" ELSE "before"
BY ShutdownAssumption DEF Attempt, Typed, TaskRecords, States

(* What one delivery's step does to the others: nothing.                   *)
LEMMA OneTask ==
    ASSUME Typed, NEW d \in Deliveries, NEW new \in TaskRecords,
           task' = [task EXCEPT ![d] = new]
    PROVE  /\ task' \in [Deliveries -> TaskRecords]
           /\ task'[d] = new
           /\ \A c \in Deliveries : c # d => task'[c] = task[c]
BY DEF Typed

LEMMA DrainInvInit == Init => DrainInv
<1> SUFFICES ASSUME Init PROVE DrainInv
  OBVIOUS
<1>1. \A d \in Deliveries : task[d] = NoTask \/ task[d] = [NoTask EXCEPT !.state = "waiting"]
  BY DEF Init
<1>2. \A d \in Deliveries : task[d].state \in {"none", "waiting"}
  <2>1. NoTask.state = "none" /\ [NoTask EXCEPT !.state = "waiting"].state = "waiting"
    BY DEF NoTask
  <2> QED
    BY <1>1, <2>1
<1>3. NoTask \in TaskRecords /\ [NoTask EXCEPT !.state = "waiting"] \in TaskRecords
  BY DEF NoTask, TaskRecords, States
<1>4. Typed
  BY <1>3, ShutdownAssumption DEF Init, Typed
<1>5. Trying = {}
  BY <1>2 DEF Trying
<1> QED
  BY <1>4, <1>5 DEF Init, DrainInv, Tracked, Awaits, Ended, DrainAwaitsTheDispatcher

(* A step that starts an attempt of the dispatcher keeps the invariant.    *)
LEMMA DispatcherStarts ==
    ASSUME DrainInv, Alive, NEW d \in Deliveries,
           task' = [task EXCEPT ![d] = Attempt(d, "dispatcher")],
           UNCHANGED <<phase, cause, awaited, deadline>>
    PROVE  DrainInv'
<1>1. Typed
  BY DEF DrainInv
<1>2. /\ task' \in [Deliveries -> TaskRecords]
      /\ task'[d] = Attempt(d, "dispatcher")
      /\ \A c \in Deliveries : c # d => task'[c] = task[c]
  BY <1>1, AttemptIsTask, OneTask
<1>3. /\ task'[d].by = "dispatcher" /\ task'[d].tracked = "yes"
      /\ task'[d].since = IF phase = "draining" THEN "drain" ELSE "before"
  BY <1>1, <1>2, AttemptIsTask
<1>4. \A c \in Trying' : c = d \/ (c \in Trying /\ task'[c] = task[c])
  BY <1>2 DEF Trying
<1>5. cause # "idle"
  BY DEF DrainInv, Ended, Alive
<1> QED
  BY <1>1, <1>2, <1>3, <1>4, <1>5
  DEF DrainInv, Typed, Tracked, Awaits, Ended, DrainAwaitsTheDispatcher, Alive

(* So does one after which there are no attempts but some of those before. *)
LEMMA NothingStarts ==
    ASSUME DrainInv, Alive, task' \in [Deliveries -> TaskRecords],
           \A d \in Trying' : /\ d \in Trying
                              /\ task'[d].by = task[d].by
                              /\ task'[d].tracked = task[d].tracked
                              /\ task'[d].since = task[d].since
                              /\ d \in awaited => d \in awaited',
           awaited' \subseteq Deliveries, deadline' \in 0..DrainTimeout,
           UNCHANGED <<phase, cause>>
    PROVE  DrainInv'
<1>1. cause # "idle"
  BY DEF DrainInv, Ended, Alive
<1> QED
  BY <1>1
  DEF DrainInv, Typed, Tracked, Awaits, Ended, DrainAwaitsTheDispatcher, Alive

LEMMA DrainInvStep == DrainInv /\ [Next]_vars => DrainInv'
<1> SUFFICES ASSUME DrainInv, [Next]_vars PROVE DrainInv'
  OBVIOUS
<1>1. Typed /\ Tracked /\ Awaits /\ Ended /\ DrainAwaitsTheDispatcher
  BY DEF DrainInv
<1>2. ASSUME NEW d \in Deliveries, Request(d) \/ Reject(d) PROVE DrainInv'
  <2>1. /\ task' \in [Deliveries -> TaskRecords]
        /\ \A c \in Trying' : c \in Trying /\ task'[c] = task[c]
    <3>1. PICK state \in {"open", "settled"} : task' = [task EXCEPT ![d].state = state]
      BY <1>2 DEF Request, Reject
    <3>2. [task[d] EXCEPT !.state = state] \in TaskRecords
      BY <1>1, <3>1 DEF Typed, TaskRecords, States
    <3>3. task'[d].state = state
      BY <1>1, <3>1 DEF Typed, TaskRecords
    <3> QED
      BY <1>1, <3>1, <3>2, <3>3 DEF Typed, Trying
  <2>2. Alive
    BY <1>2 DEF Request, Reject, Alive
  <2> QED
    BY <1>1, <1>2, <2>1, <2>2, NothingStarts DEF Request, Reject, Typed
<1>3. ASSUME NEW d \in Deliveries, Accept(d) PROVE DrainInv'
  BY <1>3, DispatcherStarts DEF Accept
<1>4. ASSUME NEW d \in Deliveries, TimerFires(d) PROVE DrainInv'
  BY <1>4, DispatcherStarts DEF TimerFires
<1>5. ASSUME NEW d \in Deliveries, Settle(d) \/ Retry(d) PROVE DrainInv'
  <2>1. PICK state \in {"settled", "stuck", "backoff"}, left \in Nat :
           task' = [task EXCEPT ![d].state = state, ![d].left = left]
    BY <1>5, ShutdownAssumption DEF Settle, Retry
  <2> DEFINE new == [[task[d] EXCEPT !.state = state] EXCEPT !.left = left]
  <2>2. new \in TaskRecords /\ new.state = state
    <3>1. [task[d] EXCEPT !.state = state] \in TaskRecords
      BY <1>1, <2>1 DEF Typed, TaskRecords, States
    <3> QED
      BY <1>1, <2>1, <3>1 DEF Typed, TaskRecords
  <2>3. task' = [task EXCEPT ![d] = new]
    BY <1>1, <2>1 DEF Typed
  <2> HIDE DEF new
  <2>4. /\ task' \in [Deliveries -> TaskRecords] /\ task'[d].state = state
        /\ \A c \in Deliveries : c # d => task'[c] = task[c]
    BY <1>1, <2>2, <2>3, OneTask
  <2>5. \A c \in Trying' : c # d /\ c \in Trying /\ task'[c] = task[c]
    BY <2>1, <2>4 DEF Trying
  <2>6. Alive /\ awaited' = awaited \ {d} /\ UNCHANGED <<phase, cause, deadline>>
    BY <1>5 DEF Settle, Retry
  <2> QED
    BY <1>1, <2>4, <2>5, <2>6, NothingStarts DEF Typed
<1>6. CASE SweepResumes
  <2>1. Alive /\ UNCHANGED <<phase, cause, awaited, deadline>>
    BY <1>6 DEF SweepResumes
  <2>2. \A d \in Deliveries :
           \/ task'[d] = Attempt(d, "sweep")
           \/ d \in Due /\ task'[d] = [task[d] EXCEPT !.state = "settled"]
           \/ task'[d] = task[d]
    BY <1>6 DEF SweepResumes
  <2>3. ASSUME NEW d \in Deliveries
        PROVE  /\ task'[d] \in TaskRecords
               /\ task'[d] = task[d] \/ task'[d].state = "settled"
                    \/ (task'[d].by = "sweep" /\ task'[d].tracked = "no")
    <3>1. CASE task'[d] = Attempt(d, "sweep")
      BY <1>1, <3>1, AttemptIsTask
    <3>2. CASE task'[d] = [task[d] EXCEPT !.state = "settled"]
      BY <1>1, <3>2 DEF Typed, TaskRecords, States
    <3>3. CASE task'[d] = task[d]
      BY <1>1, <3>3 DEF Typed
    <3> QED
      BY <2>2, <3>1, <3>2, <3>3
  <2>4. task' \in [Deliveries -> TaskRecords]
    BY <1>6, <2>3 DEF SweepResumes
  <2>5. \A d \in Trying' : \/ task'[d].by = "sweep" /\ task'[d].tracked = "no"
                           \/ d \in Trying /\ task'[d] = task[d]
    BY <2>3 DEF Trying
  <2>6. cause # "idle"
    BY <1>1, <2>1 DEF Ended, Alive
  <2> QED
    BY <1>1, <2>1, <2>4, <2>5, <2>6
    DEF DrainInv, Typed, Tracked, Awaits, Ended, DrainAwaitsTheDispatcher, Alive
<1>7. CASE Signal \/ UncaughtException
  BY <1>1, <1>7
  DEF Signal, UncaughtException, StopWith, DrainInv, Typed, Tracked, Awaits, Ended,
      DrainAwaitsTheDispatcher, Trying
<1>8. CASE Drain
  <2>1. ASSUME NEW d \in Deliveries
        PROVE  /\ task'[d] \in TaskRecords
               /\ task'[d] = task[d] \/ task'[d].state = "waiting"
    BY <1>1, <1>8 DEF Drain, Cancelled, Typed, TaskRecords, States
  <2>2. task' \in [Deliveries -> TaskRecords]
    BY <1>8, <2>1 DEF Drain, Cancelled
  <2>3. \A d \in Trying' : d \in Trying /\ task'[d] = task[d]
    BY <2>1 DEF Trying
  <2>4. awaited' = InFlight /\ awaited' \subseteq Deliveries /\ phase' = "draining"
        /\ cause' = cause /\ phase # "exited" /\ deadline' \in 0..DrainTimeout
    BY <1>8, ShutdownAssumption DEF Drain, InFlight, Trying
  <2> QED
    BY <1>1, <2>2, <2>3, <2>4
    DEF DrainInv, Typed, Tracked, Awaits, Ended, DrainAwaitsTheDispatcher, InFlight
<1>9. CASE DrainEnds \/ FailsafeFires
  <2>1. Trying' = Trying /\ task' = task /\ phase' = "exited" /\ cause' # "none"
        /\ UNCHANGED <<awaited, deadline>>
    BY <1>9 DEF DrainEnds, FailsafeFires, Trying
  <2>2. cause' = "idle" => phase = "draining" /\ awaited = {}
    BY <1>9 DEF DrainEnds, FailsafeFires
  <2> QED
    BY <1>1, <2>1, <2>2
    DEF DrainInv, Typed, Tracked, Awaits, Ended, DrainAwaitsTheDispatcher
<1>10. CASE Tick
  <2>1. ASSUME NEW d \in Deliveries
        PROVE  /\ task'[d] \in TaskRecords
               /\ task'[d].state = task[d].state /\ task'[d].by = task[d].by
               /\ task'[d].tracked = task[d].tracked /\ task'[d].since = task[d].since
    BY <1>1, <1>10 DEF Tick, CountDown, Typed, TaskRecords
  <2>2. task' \in [Deliveries -> TaskRecords]
    BY <1>10, <2>1 DEF Tick
  <2>3. deadline' \in 0..DrainTimeout
    BY <1>1, <1>10, ShutdownAssumption DEF Tick, CountDown, Typed
  <2> QED
    BY <1>1, <1>10, <2>1, <2>2, <2>3, NothingStarts DEF Tick, Trying, Typed
<1>11. CASE SweepStarts \/ UNCHANGED vars
  BY <1>1, <1>11
  DEF SweepStarts, vars, DrainInv, Typed, Tracked, Awaits, Ended,
      DrainAwaitsTheDispatcher, Trying
<1> QED
  BY <1>2, <1>3, <1>4, <1>5, <1>6, <1>7, <1>8, <1>9, <1>10, <1>11 DEF Next

(* A drain that ends before its deadline leaves no attempt behind that the *)
(* dispatcher had started before it, whatever the backoffs and the sweep.  *)
THEOREM DispatcherIsDrained == Spec => []DrainAwaitsTheDispatcher
<1>1. DrainInv => DrainAwaitsTheDispatcher
  BY DEF DrainInv
<1> QED
  BY <1>1, DrainInvInit, DrainInvStep, PTL DEF Spec

-----------------------------------------------------------------------------
(* Without the sweep, and with backoffs longer than the drain may last.    *)

Quiet == ~SweepEnabled /\ \A delay \in RetryDelays : delay > DrainTimeout

(* No sweep; no retry timer is due before the deadline of the drain; every *)
(* attempt that is running while the drain waits is one it awaits.         *)
QuietInv ==
    /\ DrainInv
    /\ interval = "off" /\ sweep = "idle"
    /\ \A d \in Trying : task[d].by = "dispatcher"
    /\ phase = "draining" =>
           /\ \A d \in Deliveries : task[d].state # "open"
           /\ \A d \in Deliveries : task[d].state = "backoff" => task[d].left > deadline
           /\ Trying \subseteq awaited
    /\ DrainAwaitsEverything

LEMMA QuietStep == Quiet /\ QuietInv /\ [Next]_vars => QuietInv'
<1> SUFFICES ASSUME Quiet, QuietInv, [Next]_vars PROVE QuietInv'
  OBVIOUS
<1>1. DrainInv' /\ Typed /\ Ended
  BY DrainInvStep DEF QuietInv, DrainInv
<1>2. cause = "idle" => phase = "exited"
  BY <1>1 DEF Ended
<1>3. ASSUME NEW d \in Deliveries, Request(d) \/ Accept(d) \/ TimerFires(d) \/ Reject(d)
      PROVE  QuietInv'
  <2>1. phase # "draining" /\ Alive
    BY <1>1, <1>3
    DEF QuietInv, Request, Accept, Reject, TimerFires, Typed, TaskRecords, Alive
  <2>2. \A c \in Deliveries : c # d => task'[c] = task[c]
    BY <1>1, <1>3 DEF Request, Accept, Reject, TimerFires, Typed
  <2>3. task'[d].state # "trying" \/ task'[d].by = "dispatcher"
    <3>1. CASE Accept(d) \/ TimerFires(d)
      <4>1. task'[d] = Attempt(d, "dispatcher")
        BY <1>1, <3>1 DEF Accept, TimerFires, Typed
      <4> QED
        BY <1>1, <4>1, AttemptIsTask
    <3>2. CASE Request(d) \/ Reject(d)
      BY <1>1, <3>2 DEF Request, Reject, Typed, TaskRecords
    <3> QED
      BY <1>3, <3>1, <3>2
  <2>4. UNCHANGED <<interval, sweep, phase, cause>>
    BY <1>3 DEF Request, Accept, Reject, TimerFires
  <2> QED
    BY <1>1, <1>2, <2>1, <2>2, <2>3, <2>4
    DEF QuietInv, Trying, DrainAwaitsEverything, Alive
<1>4. ASSUME NEW d \in Deliveries, Settle(d) \/ Retry(d) PROVE QuietInv'
  <2>1. PICK state \in {"settled", "stuck", "backoff"}, left \in Nat :
           /\ task' = [task EXCEPT ![d].state = state, ![d].left = left]
           /\ state = "backoff" => left > DrainTimeout
    BY <1>4, ShutdownAssumption DEF Settle, Retry, Quiet
  <2>2. /\ task'[d].state = state /\ task'[d].left = left
        /\ \A c \in Deliveries : c # d => task'[c] = task[c]
    BY <1>1, <2>1 DEF Typed, TaskRecords
  <2>3. Alive /\ awaited' = awaited \ {d} /\ UNCHANGED <<interval, sweep, phase, cause, deadline>>
    BY <1>4 DEF Settle, Retry
  <2>4. Trying' = Trying \ {d}
    BY <2>1, <2>2 DEF Trying
  <2>5. deadline \in Nat /\ deadline <= DrainTimeout
    BY <1>1, ShutdownAssumption DEF Typed
  <2>6. \A c \in Deliveries : task[c].left \in Nat
    BY <1>1 DEF Typed, TaskRecords
  <2>7. \A c \in Trying' : task'[c].by = "dispatcher"
    BY <2>2, <2>4 DEF QuietInv, Trying
  <2>8. ASSUME phase = "draining", NEW c \in Deliveries
        PROVE  /\ task'[c].state # "open"
               /\ task'[c].state = "backoff" => task'[c].left > deadline'
    <3>1. CASE c = d
      BY <3>1, <2>1, <2>2, <2>3, <2>5, ShutdownAssumption
    <3>2. CASE c # d
      BY <3>2, <2>2, <2>3, <2>8 DEF QuietInv
    <3> QED
      BY <3>1, <3>2
  <2>9. phase = "draining" => Trying' \subseteq awaited'
    BY <2>3, <2>4 DEF QuietInv
  <2>10. DrainAwaitsEverything'
    BY <1>2, <2>3 DEF DrainAwaitsEverything, Alive
  <2>11. interval' = "off" /\ sweep' = "idle"
    BY <2>3 DEF QuietInv
  <2> QED
    BY <1>1, <2>3, <2>7, <2>8, <2>9, <2>10, <2>11 DEF QuietInv
<1>5. CASE SweepStarts \/ SweepResumes
  BY <1>5 DEF SweepStarts, SweepResumes, QuietInv
<1>6. CASE Signal \/ UncaughtException
  BY <1>1, <1>6 DEF Signal, UncaughtException, StopWith, QuietInv, Trying, DrainAwaitsEverything
<1>7. CASE Drain
  <2>1. ASSUME NEW d \in Deliveries
        PROVE  /\ task'[d].state \notin {"open", "backoff"}
               /\ task'[d].state = "trying" => d \in Trying /\ task'[d] = task[d]
    BY <1>1, <1>7 DEF Drain, Cancelled, Typed, TaskRecords, Trying
  <2>2. Trying' \subseteq awaited'
    BY <1>7, <2>1 DEF Drain, InFlight, QuietInv, DrainInv, Tracked, Trying
  <2> QED
    BY <1>1, <1>2, <1>7, <2>1, <2>2 DEF Drain, QuietInv, Trying, DrainAwaitsEverything
<1>8. CASE DrainEnds \/ FailsafeFires
  BY <1>1, <1>8 DEF DrainEnds, FailsafeFires, QuietInv, Trying, DrainAwaitsEverything
<1>9. CASE Tick
  <2>1. ASSUME NEW d \in Deliveries
        PROVE  /\ task'[d].state = task[d].state /\ task'[d].by = task[d].by
               /\ task[d].left \in Nat /\ task'[d].left = CountDown(task[d].left)
    BY <1>1, <1>9 DEF Tick, Typed, TaskRecords
  <2>2. Trying' = Trying
    BY <2>1 DEF Trying
  <2>3. phase = "draining" => deadline > 0 /\ deadline' = deadline - 1
    BY <1>1, <1>9, ShutdownAssumption DEF Tick, CountDown, Typed
  <2>4. deadline \in Nat
    BY <1>1, ShutdownAssumption DEF Typed
  <2>5. phase = "draining" =>
           \A d \in Deliveries : task'[d].state = "backoff" => task'[d].left > deadline'
    BY <2>1, <2>3, <2>4 DEF QuietInv, CountDown
  <2>6. Alive /\ UNCHANGED <<interval, sweep, phase, cause, awaited>>
    BY <1>9 DEF Tick
  <2>7. \A d \in Trying' : task'[d].by = "dispatcher"
    BY <2>1, <2>2 DEF QuietInv, Trying
  <2>8. phase = "draining" => /\ \A d \in Deliveries : task'[d].state # "open"
                             /\ Trying' \subseteq awaited'
    BY <2>1, <2>2, <2>6 DEF QuietInv
  <2>9. DrainAwaitsEverything'
    BY <1>2, <2>6 DEF DrainAwaitsEverything, Alive
  <2>10. interval' = "off" /\ sweep' = "idle"
    BY <2>6 DEF QuietInv
  <2> QED
    BY <1>1, <2>5, <2>6, <2>7, <2>8, <2>9, <2>10 DEF QuietInv
<1>10. CASE UNCHANGED vars
  BY <1>1, <1>10 DEF vars, QuietInv, Trying, DrainAwaitsEverything
<1> QED
  BY <1>3, <1>4, <1>5, <1>6, <1>7, <1>8, <1>9, <1>10 DEF Next

(* With the sweep off and every backoff longer than the drain, a drain     *)
(* that ends before its deadline cuts no attempt at all.                   *)
THEOREM QuietDrainCutsNothing ==
    ASSUME Quiet
    PROVE  Spec => []DrainAwaitsEverything
<1>1. Init => QuietInv
  BY DrainInvInit
  DEF Quiet, QuietInv, Init, Trying, NoTask, DrainAwaitsEverything
<1>2. QuietInv /\ [Next]_vars => QuietInv'
  BY QuietStep
<1>3. QuietInv => DrainAwaitsEverything
  BY DEF QuietInv
<1> QED
  BY <1>1, <1>2, <1>3, PTL DEF Spec

(* Under the same conditions no retry starts while the drain waits.        *)
THEOREM QuietDrainStartsNoRetry ==
    ASSUME Quiet
    PROVE  Spec => NoRetryDuringDrain
<1>1. Init => QuietInv
  BY DrainInvInit
  DEF Quiet, QuietInv, Init, Trying, NoTask, DrainAwaitsEverything
<1>2. QuietInv /\ [Next]_vars => QuietInv'
  BY QuietStep
<1> DEFINE StartsNoRetry ==
        phase = "draining" =>
            \A d \in Deliveries : task[d].state = "backoff" => task'[d].state # "trying"
<1>3. QuietInv /\ QuietInv' /\ [Next]_vars => [StartsNoRetry]_vars
  <2> SUFFICES ASSUME QuietInv, QuietInv', Next, phase = "draining",
                      NEW d \in Deliveries, task[d].state = "backoff"
               PROVE  task'[d].state # "trying"
    OBVIOUS
  <2>1. Typed
    BY DEF QuietInv, DrainInv
  <2>2. task[d].left # 0 /\ sweep = "idle"
    BY <2>1, ShutdownAssumption DEF QuietInv, Typed
  <2>3. ASSUME NEW c \in Deliveries, Request(c) \/ Accept(c) \/ Reject(c) \/ Settle(c) \/ Retry(c)
        PROVE  task'[d] = task[d]
    <3>1. c # d
      BY <2>3 DEF Request, Accept, Reject, Settle, Retry, Trying
    <3> QED
      BY <2>1, <2>3, <3>1 DEF Request, Accept, Reject, Settle, Retry, Typed
  <2>4. ASSUME NEW c \in Deliveries, TimerFires(c) PROVE task'[d] = task[d]
    <3>1. c # d
      BY <2>2, <2>4 DEF TimerFires
    <3> QED
      BY <2>1, <2>4, <3>1 DEF TimerFires, Typed
  <2>5. CASE Tick
    BY <2>1, <2>5 DEF Tick, Typed, TaskRecords
  <2>6. ~SweepResumes /\ ~Drain /\ ~Signal /\ ~UncaughtException
    BY <2>2 DEF SweepResumes, Drain, Signal, UncaughtException, StopWith
  <2>7. CASE SweepStarts \/ DrainEnds \/ FailsafeFires
    BY <2>7 DEF SweepStarts, DrainEnds, FailsafeFires
  <2> QED
    BY <2>3, <2>4, <2>5, <2>6, <2>7 DEF Next
<1>4. [StartsNoRetry]_vars <=>
          [phase = "draining" =>
              \A d \in Deliveries : task[d].state = "backoff" => task'[d].state # "trying"]_vars
  OBVIOUS
<1> HIDE DEF StartsNoRetry
<1> QED
  BY <1>1, <1>2, <1>3, <1>4, PTL DEF Spec, NoRetryDuringDrain

-----------------------------------------------------------------------------
(* The code and the cause of the exit are settled in one step, the last.   *)
ExitInv == code \in {0, 1} /\ CleanExitIsADrain

(* Exit code 0 is only ever the end of a drain that a signal asked for,    *)
(* never that of the failsafe (index.ts 55-72).                            *)
THEOREM CleanExits == Spec => []CleanExitIsADrain
<1>1. Init => ExitInv
  BY DEF Init, ExitInv, CleanExitIsADrain
<1>2. ExitInv /\ [Next]_vars => ExitInv'
  <2> SUFFICES ASSUME ExitInv, [Next]_vars PROVE ExitInv'
    OBVIOUS
  <2>1. CASE UNCHANGED <<phase, code, cause>>
    BY <2>1 DEF ExitInv, CleanExitIsADrain
  <2>2. ASSUME NEW d \in Deliveries,
               \/ Request(d) \/ Accept(d) \/ Reject(d) \/ Settle(d) \/ Retry(d)
               \/ TimerFires(d)
        PROVE  UNCHANGED <<phase, code, cause>>
    BY <2>2 DEF Request, Accept, Reject, Settle, Retry, TimerFires
  <2>3. CASE SweepStarts \/ SweepResumes \/ Tick \/ UNCHANGED vars
    BY <2>1, <2>3 DEF SweepStarts, SweepResumes, Tick, vars
  <2>4. CASE Signal \/ UncaughtException
    BY <2>4 DEF Signal, UncaughtException, StopWith, ExitInv, CleanExitIsADrain
  <2>5. CASE Drain
    BY <2>5 DEF Drain, ExitInv, CleanExitIsADrain
  <2>6. CASE DrainEnds
    BY <2>6 DEF DrainEnds, ExitInv, CleanExitIsADrain
  <2>7. CASE FailsafeFires
    BY <2>7 DEF FailsafeFires, ExitInv, CleanExitIsADrain
  <2> QED
    BY <2>1, <2>2, <2>3, <2>4, <2>5, <2>6, <2>7 DEF Next
<1> QED
  BY <1>1, <1>2, PTL DEF Spec, ExitInv

-----------------------------------------------------------------------------
(* Types.                                                                  *)

(* The budget behind the types: a delivery whose POST is being handled has *)
(* had no attempt, and a retry timer is only armed with attempts left.     *)
TypeInv ==
    /\ TypeOK
    /\ \A d \in Deliveries :
          /\ task[d].state \in {"none", "open"} => task[d].tries = 0
          /\ task[d].state = "backoff" => task[d].tries < MaxAttempts

(* The times a task may have left, and that they only run down.            *)
LEMMA TimesFacts ==
    /\ 0 \in Times /\ AttemptTime \in Times /\ RetryDelays \subseteq Times
    /\ \A n \in Times : n \in Nat /\ CountDown(n) \in Times
<1>1. \A n \in RetryDelays \cup {AttemptTime} : n \in Nat /\ n \in 0..n /\ 0 \in 0..n
  BY ShutdownAssumption
<1>2. 0 \in Times /\ AttemptTime \in Times /\ RetryDelays \subseteq Times
  BY <1>1 DEF Times
<1>3. ASSUME NEW n \in Times PROVE n \in Nat /\ CountDown(n) \in Times
  <2>1. PICK m \in RetryDelays \cup {AttemptTime} : n \in 0..m
    BY <1>3 DEF Times
  <2>2. m \in Nat
    BY <1>1, <2>1
  <2>3. n \in Nat /\ CountDown(n) \in 0..m
    BY <2>1, <2>2 DEF CountDown
  <2> QED
    BY <2>1, <2>3 DEF Times
<1> QED
  BY <1>2, <1>3

(* One task changes, to one that is typed and within its budget.           *)
LEMMA TaskTyped ==
    ASSUME TypeInv, NEW d \in Deliveries, NEW new \in Tasks,
           task' = [task EXCEPT ![d] = new],
           new.state \in {"none", "open"} => new.tries = 0,
           new.state = "backoff" => new.tries < MaxAttempts,
           awaited' \subseteq Deliveries,
           UNCHANGED <<interval, sweep, phase, code, cause, deadline, failsafe>>
    PROVE  TypeInv'
BY DEF TypeInv, TypeOK

(* An attempt within the budget is typed.                                  *)
LEMMA AttemptTyped ==
    ASSUME TypeInv, NEW d \in Deliveries, NEW by \in {"dispatcher", "sweep"},
           task[d].tries < MaxAttempts
    PROVE  Attempt(d, by) \in Tasks /\ Attempt(d, by).state = "trying"
<1>1. task[d].tries + 1 \in 0..MaxAttempts
  BY ShutdownAssumption DEF TypeInv, TypeOK, Tasks
<1> QED
  BY <1>1, TimesFacts DEF Attempt, Tasks, States

LEMMA TypeInvInit == Init => TypeInv
<1> SUFFICES ASSUME Init PROVE TypeInv
  OBVIOUS
<1>1. 0 \in 0..MaxAttempts /\ DrainTimeout \in 0..DrainTimeout /\ Failsafe \in 0..Failsafe
  BY ShutdownAssumption
<1>2. \A t \in {NoTask, [NoTask EXCEPT !.state = "waiting"]} :
         t \in Tasks /\ t.tries = 0 /\ t.state # "backoff"
  BY <1>1, TimesFacts DEF NoTask, Tasks, States
<1> QED
  BY <1>1, <1>2 DEF Init, TypeInv, TypeOK

LEMMA TypeInvStep == TypeInv /\ [Next]_vars => TypeInv'
<1> SUFFICES ASSUME TypeInv, [Next]_vars PROVE TypeInv'
  OBVIOUS
<1>1. /\ task \in [Deliveries -> Tasks] /\ awaited \subseteq Deliveries
      /\ deadline \in 0..DrainTimeout /\ failsafe \in 0..Failsafe
  BY DEF TypeInv, TypeOK
<1>2. ASSUME NEW d \in Deliveries, Request(d) \/ Reject(d) PROVE TypeInv'
  <2>1. PICK state \in {"open", "settled"} :
           /\ task' = [task EXCEPT ![d] = [task[d] EXCEPT !.state = state]]
           /\ state = "open" => task[d].state = "none"
    BY <1>2 DEF Request, Reject
  <2>2. /\ [task[d] EXCEPT !.state = state] \in Tasks
        /\ [task[d] EXCEPT !.state = state].state = state
        /\ [task[d] EXCEPT !.state = state].tries = task[d].tries
    BY <1>1 DEF Tasks, States
  <2> QED
    BY <1>1, <1>2, <2>1, <2>2, TaskTyped DEF Request, Reject, TypeInv
<1>3. ASSUME NEW d \in Deliveries, Accept(d) \/ TimerFires(d) PROVE TypeInv'
  <2>1. task[d].tries < MaxAttempts
    BY <1>3, ShutdownAssumption DEF Accept, TimerFires, TypeInv
  <2> QED
    BY <1>1, <1>3, <2>1, AttemptTyped, TaskTyped DEF Accept, TimerFires
<1>4. ASSUME NEW d \in Deliveries, Settle(d) \/ Retry(d) PROVE TypeInv'
  <2>1. PICK state \in {"settled", "stuck", "backoff"}, left \in Times :
           /\ task' = [task EXCEPT ![d].state = state, ![d].left = left]
           /\ state = "backoff" => task[d].tries < MaxAttempts
    BY <1>4, TimesFacts DEF Settle, Retry
  <2> DEFINE new == [task[d] EXCEPT !.state = state, !.left = left]
  <2>2. /\ new \in Tasks /\ new.state = state /\ new.tries = task[d].tries
        /\ task' = [task EXCEPT ![d] = new]
    BY <1>1, <2>1 DEF Tasks, States
  <2> HIDE DEF new
  <2> QED
    BY <1>1, <1>4, <2>1, <2>2, TaskTyped DEF Settle, Retry
<1>5. CASE SweepResumes
  <2>1. ASSUME NEW d \in Deliveries
        PROVE  /\ task'[d] \in Tasks
               /\ task'[d] = task[d] \/ task'[d].state \in {"trying", "settled"}
    <3>1. CASE d \in Due /\ task[d].tries < MaxAttempts
      BY <1>5, <3>1, AttemptTyped DEF SweepResumes
    <3>2. CASE d \in Due /\ ~(task[d].tries < MaxAttempts)
      BY <1>1, <1>5, <3>2 DEF SweepResumes, Tasks, States
    <3>3. CASE d \notin Due
      BY <1>1, <1>5, <3>3 DEF SweepResumes
    <3> QED
      BY <3>1, <3>2, <3>3
  <2>2. task' \in [Deliveries -> Tasks]
    BY <1>5, <2>1 DEF SweepResumes
  <2> QED
    BY <1>5, <2>1, <2>2 DEF SweepResumes, TypeInv, TypeOK
<1>6. CASE Drain
  <2>1. ASSUME NEW d \in Deliveries
        PROVE  /\ task'[d] \in Tasks
               /\ task'[d] = task[d] \/ task'[d].state = "waiting"
    BY <1>1, <1>6 DEF Drain, Cancelled, Tasks, States
  <2>2. task' \in [Deliveries -> Tasks]
    BY <1>6, <2>1 DEF Drain, Cancelled
  <2>3. awaited' \subseteq Deliveries /\ deadline' \in 0..DrainTimeout
    BY <1>6, ShutdownAssumption DEF Drain, InFlight, Trying
  <2> QED
    BY <1>6, <2>1, <2>2, <2>3 DEF Drain, TypeInv, TypeOK
<1>7. CASE Tick
  <2>1. ASSUME NEW d \in Deliveries
        PROVE  /\ task'[d] \in Tasks
               /\ task'[d].state = task[d].state /\ task'[d].tries = task[d].tries
    <3>1. CountDown(task[d].left) \in Times
      BY <1>1, TimesFacts DEF Tasks
    <3>2. task'[d] = [task[d] EXCEPT !.left = CountDown(task[d].left)]
      BY <1>7 DEF Tick
    <3> QED
      BY <1>1, <3>1, <3>2 DEF Tasks
  <2>2. task' \in [Deliveries -> Tasks]
    BY <1>7, <2>1 DEF Tick
  <2>3. deadline' \in 0..DrainTimeout /\ failsafe' \in 0..Failsafe
    BY <1>1, <1>7, ShutdownAssumption DEF Tick, CountDown
  <2> QED
    BY <1>7, <2>1, <2>2, <2>3 DEF Tick, TypeInv, TypeOK
<1>8. CASE SweepStarts \/ Signal \/ UncaughtException \/ DrainEnds \/ FailsafeFires
  BY <1>8
  DEF SweepStarts, Signal, UncaughtException, StopWith, DrainEnds, FailsafeFires,
      TypeInv, TypeOK
<1>9. CASE UNCHANGED vars
  BY <1>9 DEF vars, TypeInv, TypeOK
<1> QED
  BY <1>2, <1>3, <1>4, <1>5, <1>6, <1>7, <1>8, <1>9 DEF Next

(* The process keeps its types: above all, neither a retry timer nor the   *)
(* sweep starts an attempt beyond MaxAttempts, at shutdown or before.      *)
THEOREM ShutdownTypes == Spec => []TypeOK
<1>1. TypeInv => TypeOK
  BY DEF TypeInv
<1> QED
  BY <1>1, TypeInvInit, TypeInvStep, PTL DEF Spec
=============================================================================
