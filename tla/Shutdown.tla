------------------------------ MODULE Shutdown ------------------------------
(***************************************************************************)
(* The life of the process: serving, closing the HTTP server, draining the *)
(* dispatcher, exit (src/index.ts, Application.drain of src/container.ts), *)
(* against what goes on meanwhile: open requests, attempts, retry timers   *)
(* and the recovery sweep.                                                 *)
(*                                                                         *)
(* A delivery is a task here: one event with one subscriber, whose attempt *)
(* is a single stretch of work of at most AttemptTime ticks.  Dispatcher   *)
(* models what happens inside of it, and Recovery the sweep's two phases.  *)
(***************************************************************************)
EXTENDS Naturals

CONSTANTS
    Deliveries,
    SweepEnabled,    \* RECOVERY_INTERVAL_MS > 0
    MaxAttempts,     \* MAX_DELIVERY_ATTEMPTS
    AttemptTime,     \* WEBHOOK_TIMEOUT_MS and the store calls around the POST
    RetryDelays,     \* the backoffs computeBackoffMs may return
    DrainTimeout,    \* the default timeoutMs of drain: 5 s
    Failsafe         \* the failsafe timer of shutdown: 15 s

ASSUME ShutdownAssumption ==
    /\ SweepEnabled \in BOOLEAN
    /\ MaxAttempts \in Nat \ {0}
    /\ AttemptTime \in Nat \ {0}
    /\ RetryDelays \subseteq Nat /\ RetryDelays # {}
    /\ DrainTimeout \in Nat
    /\ Failsafe \in Nat

VARIABLES
    task,       \* Deliveries -> what becomes of it
    interval,   \* "on" while the sweep's setInterval runs
    sweep,      \* "idle", or "reclaiming": a sweep is before its second query
    phase,      \* of the process
    code,       \* the exit code it will have
    cause,      \* what ended the drain
    awaited,    \* the tracked attempts whenIdle found when it was called
    deadline,   \* ticks left of the drain
    failsafe    \* ticks left of the failsafe timer

vars == <<task, interval, sweep, phase, code, cause, awaited, deadline, failsafe>>

(* "open": the POST of its event is being handled; "trying": an attempt is *)
(* running; "backoff": pending, with a retry timer; "waiting": pending,    *)
(* without one; "stuck": left delivering by an attempt whose save failed.  *)
States == {"none", "open", "trying", "backoff", "waiting", "stuck", "settled"}

(* `by' is who started the attempt, `tracked' whether inFlight holds it,   *)
(* `since' whether it started before the drain, `left' the ticks that its  *)
(* attempt may still take or that nextAttemptAt is away.                   *)
Times == UNION {0..n : n \in RetryDelays \cup {AttemptTime}}

Tasks ==
    [state : States, by : {"nobody", "dispatcher", "sweep"}, tracked : {"yes", "no"},
     since : {"never", "before", "drain"}, left : Times, tries : 0..MaxAttempts]

NoTask == [state |-> "none", by |-> "nobody", tracked |-> "no", since |-> "never",
           left |-> 0, tries |-> 0]

Alive  == phase # "exited"
Trying == {d \in Deliveries : task[d].state = "trying"}
InFlight == {d \in Trying : task[d].tracked = "yes"}
Due    == {d \in Deliveries : task[d].state \in {"backoff", "waiting"} /\ task[d].left = 0}

-----------------------------------------------------------------------------
(* A delivery left pending by an earlier process may be in the store.      *)
Init ==
    /\ task \in [Deliveries -> {NoTask, [NoTask EXCEPT !.state = "waiting"]}]
    /\ interval = IF SweepEnabled THEN "on" ELSE "off"
    /\ sweep = "idle"
    /\ phase = "running"
    /\ code = 0
    /\ cause = "none"
    /\ awaited = {}
    /\ deadline = DrainTimeout
    /\ failsafe = Failsafe

(* An attempt begins: `by' the dispatcher, in inFlight, or the sweep, not. *)
Attempt(d, by) ==
    [state |-> "trying", by |-> by,
     tracked |-> IF by = "dispatcher" THEN "yes" ELSE "no",
     since |-> IF phase = "draining" THEN "drain" ELSE "before",
     left |-> AttemptTime, tries |-> task[d].tries + 1]

(* A request arrives; a closed server takes none.                          *)
Request(d) ==
    /\ phase = "running"
    /\ task[d].state = "none"
    /\ task' = [task EXCEPT ![d].state = "open"]
    /\ UNCHANGED <<interval, sweep, phase, code, cause, awaited, deadline, failsafe>>

(* It is answered 202 and its dispatch is tracked, or it fails.            *)
Accept(d) ==
    /\ Alive
    /\ task[d].state = "open"
    /\ task' = [task EXCEPT ![d] = Attempt(d, "dispatcher")]
    /\ UNCHANGED <<interval, sweep, phase, code, cause, awaited, deadline, failsafe>>

Reject(d) ==
    /\ Alive
    /\ task[d].state = "open"
    /\ task' = [task EXCEPT ![d].state = "settled"]
    /\ UNCHANGED <<interval, sweep, phase, code, cause, awaited, deadline, failsafe>>

(* An attempt ends; the promise that tracked it, if any, settles.          *)
Settle(d) ==
    /\ Alive
    /\ d \in Trying
    /\ \E state \in {"settled", "stuck"} :
           task' = [task EXCEPT ![d].state = state, ![d].left = 0]
    /\ awaited' = awaited \ {d}
    /\ UNCHANGED <<interval, sweep, phase, code, cause, deadline, failsafe>>

(* Mutant: the retry is armed whatever the budget.                         *)
Retry_NoBudget(d) ==
    /\ Alive
    /\ d \in Trying
    /\ \E delay \in RetryDelays :
           task' = [task EXCEPT ![d].state = "backoff", ![d].left = delay]
    /\ awaited' = awaited \ {d}
    /\ UNCHANGED <<interval, sweep, phase, code, cause, deadline, failsafe>>

(* A retryable answer: whoever ran the attempt, the dispatcher arms a      *)
(* timer, before the drain cancels the timers or after.                    *)
Retry(d) ==
    /\ Alive
    /\ d \in Trying
    /\ task[d].tries < MaxAttempts
    /\ \E delay \in RetryDelays :
           task' = [task EXCEPT ![d].state = "backoff", ![d].left = delay]
    /\ awaited' = awaited \ {d}
    /\ UNCHANGED <<interval, sweep, phase, code, cause, deadline, failsafe>>

(* Mutant: the timer's attempt is not put in inFlight.                     *)
TimerFires_Untracked(d) ==
    /\ Alive
    /\ task[d].state = "backoff" /\ task[d].left = 0
    /\ task' = [task EXCEPT ![d] = [Attempt(d, "dispatcher") EXCEPT !.tracked = "no"]]
    /\ UNCHANGED <<interval, sweep, phase, code, cause, awaited, deadline, failsafe>>

TimerFires(d) ==
    /\ Alive
    /\ task[d].state = "backoff" /\ task[d].left = 0
    /\ task' = [task EXCEPT ![d] = Attempt(d, "dispatcher")]
    /\ UNCHANGED <<interval, sweep, phase, code, cause, awaited, deadline, failsafe>>

-----------------------------------------------------------------------------
(* The sweep, one at a time.                                               *)

SweepStarts ==
    /\ Alive
    /\ interval = "on"
    /\ sweep = "idle" /\ \A d \in Trying : task[d].by # "sweep"
    /\ sweep' = "reclaiming"
    /\ UNCHANGED <<task, interval, phase, code, cause, awaited, deadline, failsafe>>

(* Its second query, and the attempts of all the rows it lists: stop only  *)
(* clears the interval, so a sweep in progress goes on.                    *)
SweepResumes ==
    /\ Alive
    /\ sweep = "reclaiming"
    /\ sweep' = "idle"
    /\ task' = [d \in Deliveries |->
                   IF d \in Due /\ task[d].tries < MaxAttempts THEN Attempt(d, "sweep")
                   ELSE IF d \in Due THEN [task[d] EXCEPT !.state = "settled"]
                   ELSE task[d]]
    /\ UNCHANGED <<interval, phase, code, cause, awaited, deadline, failsafe>>

-----------------------------------------------------------------------------
(* shutdown: a signal, or an exception nobody caught; only the first one.  *)
StopWith(exitCode) ==
    /\ phase = "running"
    /\ phase' = "closing"
    /\ code' = exitCode
    /\ UNCHANGED <<task, interval, sweep, cause, awaited, deadline, failsafe>>

Signal            == StopWith(0)
UncaughtException == StopWith(1)

Cancelled == [d \in Deliveries |->
                 IF task[d].state = "backoff" THEN [task[d] EXCEPT !.state = "waiting"]
                 ELSE task[d]]

(* The server is closed when the last open request is answered; then drain *)
(* stops the interval, cancels the timers and calls whenIdle, which looks  *)
(* at inFlight once.                                                       *)
Drain ==
    /\ phase = "closing"
    /\ \A d \in Deliveries : task[d].state # "open"
    /\ phase' = "draining"
    /\ interval' = "off"
    /\ task' = Cancelled
    /\ awaited' = InFlight
    /\ deadline' = DrainTimeout
    /\ UNCHANGED <<sweep, code, cause, failsafe>>

(* The race between whenIdle and the deadline, and the exit.               *)
DrainEnds ==
    /\ phase = "draining"
    /\ awaited = {} \/ deadline = 0
    /\ cause' = IF awaited = {} THEN "idle" ELSE "deadline"
    /\ phase' = "exited"
    /\ UNCHANGED <<task, interval, sweep, code, awaited, deadline, failsafe>>

(* Mutants: the failsafe guards the drain only; it exits with the code.    *)
FailsafeFires_DrainOnly ==
    /\ phase = "draining" /\ failsafe = 0
    /\ cause' = "failsafe"
    /\ phase' = "exited"
    /\ code' = IF code = 0 THEN 1 ELSE code
    /\ UNCHANGED <<task, interval, sweep, awaited, deadline, failsafe>>
FailsafeFires_SameCode ==
    /\ phase \in {"closing", "draining"} /\ failsafe = 0
    /\ cause' = "failsafe"
    /\ phase' = "exited"
    /\ UNCHANGED <<task, interval, sweep, code, awaited, deadline, failsafe>>

FailsafeFires ==
    /\ phase \in {"closing", "draining"} /\ failsafe = 0
    /\ cause' = "failsafe"
    /\ phase' = "exited"
    /\ code' = IF code = 0 THEN 1 ELSE code
    /\ UNCHANGED <<task, interval, sweep, awaited, deadline, failsafe>>

-----------------------------------------------------------------------------
CountDown(n) == IF n > 0 THEN n - 1 ELSE 0

(* Nothing outlives its time: an attempt ends within AttemptTime, and the  *)
(* two timers of the shutdown fire when they are due.  A client may keep   *)
(* its request open, and a retry timer or the sweep may be late.           *)
Tick ==
    /\ Alive
    /\ \A d \in Trying : task[d].left > 0
    /\ phase \in {"closing", "draining"} => failsafe > 0
    /\ phase = "draining" => deadline > 0 /\ awaited # {}
    /\ task' = [d \in Deliveries |-> [task[d] EXCEPT !.left = CountDown(task[d].left)]]
    /\ deadline' = IF phase = "draining" THEN CountDown(deadline) ELSE deadline
    /\ failsafe' = IF phase = "running" THEN failsafe ELSE CountDown(failsafe)
    /\ UNCHANGED <<interval, sweep, phase, code, cause, awaited>>

Next ==
    \/ \E d \in Deliveries : Request(d)
    \/ \E d \in Deliveries : Accept(d)
    \/ \E d \in Deliveries : Reject(d)
    \/ \E d \in Deliveries : Settle(d)
    \/ \E d \in Deliveries : Retry(d)
    \/ \E d \in Deliveries : TimerFires(d)
    \/ SweepStarts
    \/ SweepResumes
    \/ Signal
    \/ UncaughtException
    \/ Drain
    \/ DrainEnds
    \/ FailsafeFires
    \/ Tick

(* Attempts end, the callbacks of close and of the two timers run, and the *)
(* clock goes on; nothing is assumed of clients, signals, retry timers or  *)
(* the sweep.                                                              *)
Fairness ==
    /\ \A d \in Deliveries : WF_vars(Settle(d))
    /\ WF_vars(Drain)
    /\ WF_vars(DrainEnds)
    /\ WF_vars(FailsafeFires)
    /\ WF_vars(Tick)

Spec     == Init /\ [][Next]_vars
FairSpec == Spec /\ Fairness

-----------------------------------------------------------------------------
TypeOK ==
    /\ task \in [Deliveries -> Tasks]
    /\ interval \in {"on", "off"}
    /\ sweep \in {"idle", "reclaiming"}
    /\ phase \in {"running", "closing", "draining", "exited"}
    /\ code \in {0, 1}
    /\ cause \in {"none", "idle", "deadline", "failsafe"}
    /\ awaited \subseteq Deliveries
    /\ deadline \in 0..DrainTimeout
    /\ failsafe \in 0..Failsafe

(* No drain that ends before its deadline leaves behind an attempt that    *)
(* the dispatcher, not the sweep, had started before the drain began: the  *)
(* first attempts and those of the retry timers alike.                     *)
DrainAwaitsTheDispatcher ==
    cause = "idle" =>
        \A d \in Trying : ~(task[d].by = "dispatcher" /\ task[d].since = "before")

(* container.ts:76: drain waits, up to its deadline, for the deliveries in *)
(* flight: none is cut when it ends before.                                *)
DrainAwaitsEverything == cause = "idle" => Trying = {}

(* README.md:146: pending retry timers are cancelled, so no retry starts   *)
(* while the drain waits.                                                  *)
NoRetryDuringDrain ==
    [][phase = "draining" =>
           \A d \in Deliveries : task[d].state = "backoff" => task'[d].state # "trying"]_vars

(* A zero exit code tells that a signal asked for the stop and that the    *)
(* drain came to an end of its own, never that the failsafe ended it.      *)
CleanExitIsADrain ==
    phase = "exited" /\ code = 0 => cause \in {"idle", "deadline"}

(* Once asked to stop the process exits, even if a client never finishes   *)
(* its request.                                                            *)
ShutdownEnds == phase = "closing" ~> phase = "exited"
=============================================================================
