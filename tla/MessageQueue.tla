----------------------------- MODULE MessageQueue -----------------------------
(***************************************************************************)
(* bot/message_queue.py: every call to Discord is a job of one of two FIFO *)
(* queues, made by one worker task.  The worker empties the interactions,  *)
(* then takes one notification, and starts over; before each call it waits *)
(* for the rate limiter; a call that fails goes to the back of its queue.  *)
(* The caller awaits the future of its job.                                *)
(*                                                                         *)
(* From the end of one call to the taking of the next the worker does not  *)
(* suspend.  The model gives the two a step each: what callers do in       *)
(* between commutes with the end of the call.                              *)
(***************************************************************************)
EXTENDS Integers, Sequences, FiniteSets, SequencesExt

CONSTANTS
  Job,        \* bound: calls outstanding at a time; one that is over may be made again
  Uses,       \* job -> the function of message_helpers.py it is queued with
  MaxRetries, \* attempts after the first: 3 in the code
  Interval,   \* _min_interval, in ticks of the clock
  MaxOdd,     \* bound: calls that fail in the client library, cancelled waiters
  None        \* Python's None

InteractionHelpers ==
  {"queue_interaction_response", "queue_interaction_defer", "queue_interaction_edit",
   "queue_followup", "queue_interaction_modal", "queue_edit_original"}

NotificationHelpers ==
  {"queue_channel_send", "queue_user_send", "queue_message_edit", "queue_message_delete"}

ASSUME MessageQueueAssumption ==
  /\ Uses \in [Job -> InteractionHelpers \cup NotificationHelpers]
  /\ MaxRetries \in Nat /\ Interval \in Nat \ {0} /\ MaxOdd \in Nat
  /\ None \notin Job

VARIABLES
  interactions,  \* _interaction_queue
  notifications, \* _notification_queue
  running,       \* _running
  worker,        \* where _worker_loop is suspended, or about to go on
  current,       \* the job it has taken, or None
  retries,       \* job -> retry_count
  future,        \* job -> state of its future
  gap,           \* _next_allowed_time - now, at least -Interval
  \* history and bounds
  broken,        \* jobs lost to an error of the client library
  since,         \* time since the last call and the one before it, up to Interval
  odd            \* odd events so far

queues  == <<interactions, notifications>>
limiter == <<gap, since>>
vars == <<queues, running, worker, current, retries, future, limiter, broken, odd>>

Interactive == {j \in Job : Uses[j] \in InteractionHelpers}

Waiting == Range(interactions) \cup Range(notifications)
Pending == {j \in Job : future[j] = "pending"}
Stopped == ~running /\ worker # "new"

Init ==
  /\ interactions = <<>> /\ notifications = <<>>
  /\ running = FALSE /\ worker = "new" /\ current = None
  /\ retries = [j \in Job |-> 0]
  /\ future = [j \in Job |-> "unasked"]
  /\ gap = 0 /\ since = [last |-> Interval, before |-> Interval]
  /\ broken = {} /\ odd = 0

-------------------------------------------------------------------------------
(* Callers, and the life of the queue.                                     *)

\* Mutant: the tier is not looked at.
PutLow(j) == notifications' = Append(notifications, j) /\ UNCHANGED interactions
\* The job goes to the back of the queue of its tier.
Put(j) ==
  IF j \in Interactive
  THEN interactions' = Append(interactions, j) /\ UNCHANGED notifications
  ELSE notifications' = Append(notifications, j) /\ UNCHANGED interactions

\* A helper queues its operation as a new job and awaits its future, whether or
\* not a worker is there to make the call, and as often as there is something to say.
Enqueue(j) ==
  /\ future[j] \in {"unasked", "done", "failed"}
  /\ Put(j)
  /\ retries' = [retries EXCEPT ![j] = 0]
  /\ future' = [future EXCEPT ![j] = "pending"]
  /\ UNCHANGED <<running, worker, current, limiter, broken, odd>>

\* The task that awaits the future is cancelled; the job stays queued.
CancelWaiter(j) ==
  /\ odd < MaxOdd /\ odd' = odd + 1
  /\ future[j] = "pending"
  /\ future' = [future EXCEPT ![j] = "cancelled"]
  /\ UNCHANGED <<queues, running, worker, current, retries, limiter, broken>>

\* setup_hook starts the queue once.
Start ==
  /\ worker = "new" /\ ~running
  /\ running' = TRUE /\ worker' = "outer"
  /\ UNCHANGED <<queues, current, retries, future, limiter, broken, odd>>

\* stop() lowers the flag and awaits the worker; whatever is still queued
\* is only logged.
Stop ==
  /\ running
  /\ running' = FALSE
  /\ UNCHANGED <<queues, worker, current, retries, future, limiter, broken, odd>>

-------------------------------------------------------------------------------
(* The worker loop.                                                        *)

\* The inner loop over the interactions does not look at the flag.
MayTake == worker = "inner" \/ (worker = "outer" /\ running)

LoopEnds ==
  /\ worker = "outer" /\ ~running
  /\ worker' = "off"
  /\ UNCHANGED <<queues, running, current, retries, future, limiter, broken, odd>>

TakeInteraction ==
  /\ MayTake /\ interactions # <<>>
  /\ current' = Head(interactions) /\ interactions' = Tail(interactions)
  /\ worker' = "limit"
  /\ UNCHANGED <<notifications, running, retries, future, limiter, broken, odd>>

\* Mutant: a notification is taken without a look at the interactions.
NoLook == TRUE
NoInteractionWaits == interactions = <<>>

TakeNotification ==
  /\ MayTake /\ NoInteractionWaits /\ notifications # <<>>
  /\ current' = Head(notifications) /\ notifications' = Tail(notifications)
  /\ worker' = "limit"
  /\ UNCHANGED <<interactions, running, retries, future, limiter, broken, odd>>

Sleep ==
  /\ MayTake /\ interactions = <<>> /\ notifications = <<>>
  /\ worker' = "sleep"
  /\ UNCHANGED <<queues, running, current, retries, future, limiter, broken, odd>>

Wake ==
  /\ worker = "sleep"
  /\ worker' = "outer"
  /\ UNCHANGED <<queues, running, current, retries, future, limiter, broken, odd>>

\* _enforce_rate_limit, then the call.  The next call is allowed an interval
\* after this one was allowed, or now if that has passed.
\* Mutant: the interval is left out.
AllowedNow(g) == 0
NextAllowed(g) == IF g + Interval > 0 THEN g + Interval ELSE 0

Call ==
  /\ worker = "limit" /\ gap <= 0
  /\ worker' = "calling"
  /\ gap' = NextAllowed(gap)
  /\ since' = [last |-> 0, before |-> since.last]
  /\ UNCHANGED <<queues, running, current, retries, future, broken, odd>>

\* After an interaction the inner loop goes on; after a notification the outer.
AfterCall ==
  /\ worker' = IF current \in Interactive THEN "inner" ELSE "outer"
  /\ current' = None

\* Mutant: the last error is logged and not raised at the caller.
OnlyLogged(j, result) ==
  future' = [future EXCEPT ![j] = IF result = "done" THEN result ELSE @]
\* A future that is done, because its waiter was cancelled, keeps its state.
Resolve(j, result) ==
  future' = [future EXCEPT ![j] = IF @ = "pending" THEN result ELSE @]

\* The call returns; or Discord says that the message is gone, or the client
\* library trips over its own state after sending: both count as done.
Succeeds ==
  /\ worker = "calling"
  /\ Resolve(current, "done")
  /\ AfterCall
  /\ UNCHANGED <<queues, running, retries, limiter, broken, odd>>

\* Mutant: one attempt too many.
OneMore(j) == retries[j] <= MaxRetries
MayRetry(j) == retries[j] < MaxRetries

FailsAndRetries ==
  /\ worker = "calling" /\ MayRetry(current)
  /\ retries' = [retries EXCEPT ![current] = @ + 1]
  /\ Put(current)
  /\ AfterCall
  /\ UNCHANGED <<running, future, limiter, broken, odd>>

FailsForGood ==
  /\ worker = "calling" /\ ~MayRetry(current)
  /\ Resolve(current, "failed")
  /\ AfterCall
  /\ UNCHANGED <<queues, running, retries, limiter, broken, odd>>

\* Any other AttributeError leaves _execute_job: the loop logs it and sleeps,
\* nobody resolves the future.
Breaks ==
  /\ odd < MaxOdd /\ odd' = odd + 1
  /\ worker = "calling" /\ worker' = "sleep"
  /\ current' = None /\ broken' = broken \cup {current}
  /\ UNCHANGED <<queues, running, retries, future, limiter>>

Tick ==
  /\ gap > -Interval \/ since.before < Interval
  /\ gap' = IF gap > -Interval THEN gap - 1 ELSE gap
  /\ since' = [i \in DOMAIN since |-> IF since[i] < Interval THEN since[i] + 1 ELSE since[i]]
  /\ UNCHANGED <<queues, running, worker, current, retries, future, broken, odd>>

-------------------------------------------------------------------------------
CallEnds == Succeeds \/ FailsAndRetries \/ FailsForGood \/ Breaks
WorkerStep ==
  \/ LoopEnds \/ TakeInteraction \/ TakeNotification \/ Sleep \/ Wake
  \/ Call \/ CallEnds
Next ==
  \/ \E j \in Job : Enqueue(j) \/ CancelWaiter(j)
  \/ Start \/ Stop \/ WorkerStep \/ Tick

Spec == Init /\ [][Next]_vars

\* The event loop runs every task that is ready, a call to Discord returns or
\* raises, and time passes.
FairSpec == Spec /\ WF_vars(Start) /\ WF_vars(WorkerStep) /\ WF_vars(Tick)

-------------------------------------------------------------------------------
(* Properties.                                                             *)

\* The variables hold what the code puts in them.
TypeOK ==
  /\ interactions \in Seq(Job) /\ notifications \in Seq(Job)
  /\ running \in BOOLEAN
  /\ worker \in {"new", "outer", "inner", "limit", "calling", "sleep", "off"}
  /\ current \in Job \cup {None}
  /\ retries \in [Job -> 0..MaxRetries]
  /\ future \in [Job -> {"unasked", "pending", "cancelled", "done", "failed"}]
  /\ gap \in -Interval..Interval
  /\ since \in [last : 0..Interval, before : 0..Interval]
  /\ broken \in SUBSET Job /\ odd \in 0..MaxOdd

\* A caller that still awaits its call can count on it: the job is in exactly
\* one place, the queue of its tier or the hands of the worker, unless the
\* client library broke it.  Nothing that has an outcome is still queued.
PlacedOnce ==
  LET Times(q, j) == Cardinality({i \in DOMAIN q : q[i] = j})
      InHand(j) == Cardinality({j} \cap {current})
      Places(j) == InHand(j) + Times(IF j \in Interactive THEN interactions ELSE notifications, j)
      Strays(j) == Times(IF j \in Interactive THEN notifications ELSE interactions, j)
  IN \A j \in Job :
       /\ Places(j) <= 1 /\ Strays(j) = 0
       /\ future[j] = "pending" => Places(j) + Cardinality({j} \cap broken) = 1
       /\ future[j] \in {"unasked", "done", "failed"} => Places(j) = 0

\* Whatever the pauses and the length of the calls, three calls in a row span
\* at least the interval of the rate limiter.
ThreeSpanTheInterval ==
  [][worker = "limit" /\ worker' = "calling" => since.before = Interval]_vars

\* The caller of j has an answer, or none is to be had: the queue is stopped or
\* the client library broke the call.
Ended(j) == future[j] # "pending" \/ Stopped \/ j \in broken

\* "all jobs must eventually be sent" (message_queue.py): a notification ends though
\* interactions keep coming.  The code does not keep this: it starves behind them.
NotificationsEnd == \A j \in Job \ Interactive : (future[j] = "pending") ~> Ended(j)

\* An interaction ends, whatever else is asked for in the meantime.  So does a
\* notification if the worker gets through with the interactions ever again; it
\* always does once they cease, and if they do not, nothing is said of notifications.
JobsEnd ==
  /\ \A j \in Interactive : (future[j] = "pending") ~> Ended(j)
  /\ []<><<TakeNotification \/ Sleep>>_vars => NotificationsEnd

\* The promise of the message queue, OutboundCalls.tla.
Contract == INSTANCE OutboundCalls WITH
  waiting <- Waiting, inHand <- current, attempts <- retries, outcome <- future
Promise == Contract!Spec

===============================================================================
