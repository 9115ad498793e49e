-------------------------- MODULE MessageQueue_proof --------------------------
(***************************************************************************)
(* Proofs about MessageQueue, for any calls, tiers, number of retries and  *)
(* interval: type correctness, that a call is in one place, the spacing of *)
(* the rate limiter, and that the queue implements OutboundCalls.          *)
(***************************************************************************)
EXTENDS MessageQueue, FiniteSetTheorems, SequenceTheorems, TLAPS

\* What Append, Head and Tail do to the set of the elements of a sequence
\* without repetition.
Distinct(q) == \A i, k \in DOMAIN q : q[i] = q[k] => i = k

LEMMA AppendDistinct ==
  ASSUME NEW q \in Seq(Job), NEW j \in Job, Distinct(q), j \notin Range(q)
  PROVE  /\ Append(q, j) \in Seq(Job)
         /\ Distinct(Append(q, j))
         /\ Range(Append(q, j)) = Range(q) \cup {j}
<1>1. /\ Append(q, j) \in Seq(Job) /\ Len(q) \in Nat
      /\ Len(Append(q, j)) = Len(q) + 1
      /\ \A i \in 1..Len(q) : Append(q, j)[i] = q[i]
      /\ Append(q, j)[Len(q) + 1] = j
  OBVIOUS
<1>2. DOMAIN q = 1..Len(q) /\ DOMAIN Append(q, j) = 1..(Len(q) + 1)
  BY <1>1
<1>3. \A i \in 1..Len(q) : q[i] # j
  BY <1>2 DEF Range
<1>4. Distinct(Append(q, j))
  BY <1>1, <1>2, <1>3 DEF Distinct
<1>5. Range(Append(q, j)) = Range(q) \cup {j}
  BY <1>1, <1>2 DEF Range
<1> QED BY <1>1, <1>4, <1>5

LEMMA TailDistinct ==
  ASSUME NEW q \in Seq(Job), Distinct(q), q # <<>>
  PROVE  /\ Head(q) \in Range(q) /\ Tail(q) \in Seq(Job)
         /\ Distinct(Tail(q))
         /\ Range(Tail(q)) = Range(q) \ {Head(q)}
<1>1. /\ Len(q) \in Nat /\ Len(q) >= 1 /\ Tail(q) \in Seq(Job)
      /\ Head(q) = q[1] /\ Len(Tail(q)) = Len(q) - 1
      /\ \A i \in 1..(Len(q) - 1) : Tail(q)[i] = q[i + 1]
  OBVIOUS
<1>2. DOMAIN q = 1..Len(q) /\ DOMAIN Tail(q) = 1..(Len(q) - 1)
  BY <1>1
<1>3. Head(q) \in Range(q)
  BY <1>1, <1>2 DEF Range
<1>4. Distinct(Tail(q))
  <2> SUFFICES ASSUME NEW i \in 1..(Len(q) - 1), NEW k \in 1..(Len(q) - 1),
                      Tail(q)[i] = Tail(q)[k]
               PROVE  i = k
    BY <1>2 DEF Distinct
  <2>1. q[i + 1] = q[k + 1] /\ i + 1 \in 1..Len(q) /\ k + 1 \in 1..Len(q)
    BY <1>1
  <2> QED BY <1>2, <2>1 DEF Distinct
<1>5. ASSUME NEW x \in Range(Tail(q)) PROVE x \in Range(q) \ {Head(q)}
  <2>1. PICK i \in 1..(Len(q) - 1) : x = Tail(q)[i]
    BY <1>2 DEF Range
  <2>2. x = q[i + 1] /\ i + 1 \in 1..Len(q) /\ i + 1 # 1
    BY <1>1, <2>1
  <2>3. x # q[1]
    BY <1>1, <1>2, <2>2 DEF Distinct
  <2> QED BY <1>1, <1>2, <2>2, <2>3 DEF Range
<1>6. ASSUME NEW x \in Range(q) \ {Head(q)} PROVE x \in Range(Tail(q))
  <2>1. PICK i \in 1..Len(q) : x = q[i]
    BY <1>2 DEF Range
  <2>2. i # 1
    BY <1>1, <2>1
  <2>3. i - 1 \in 1..(Len(q) - 1) /\ Tail(q)[i - 1] = q[i]
    BY <1>1, <2>2
  <2> QED BY <1>2, <2>1, <2>3 DEF Range
<1> QED BY <1>1, <1>3, <1>4, <1>5, <1>6

LEMMA EmptyRange == Range(<<>>) = {} /\ Distinct(<<>>) /\ <<>> \in Seq(Job)
BY DEF Range, Distinct
-------------------------------------------------------------------------------
(* Where the calls are.  One that is asked for waits in the queue of its tier,  *)
(* is in hand, or was broken, until it has an outcome.                         *)
Queues ==
  /\ Distinct(interactions) /\ Range(interactions) \subseteq Interactive
  /\ Distinct(notifications) /\ Range(notifications) \subseteq Job \ Interactive
Open(j) == future[j] \in {"pending", "cancelled"}
Calls ==
  /\ current # None <=> worker \in {"limit", "calling"}
  /\ current \notin Waiting
  /\ broken \cap (Waiting \cup {current}) = {}
  /\ \A j \in Job : j \in Waiting \cup broken \cup {current} => Open(j)
  /\ \A j \in Job : future[j] = "pending" => j \in Waiting \cup broken \cup {current}
Inv == TypeOK /\ Queues /\ Calls

LEMMA WaitingType ==
  ASSUME TypeOK PROVE Waiting \subseteq Job /\ None \notin Waiting
<1>1. ASSUME NEW q \in Seq(Job) PROVE Range(q) \subseteq Job
  BY DEF Range
<1> QED BY <1>1, MessageQueueAssumption DEF TypeOK, Waiting

\* A job put at the back of its queue keeps both queues typed, apart and free
\* of repetition.
LEMMA PutOK ==
  ASSUME TypeOK, Queues, NEW j \in Job, j \notin Waiting, Put(j)
  PROVE  /\ interactions' \in Seq(Job) /\ notifications' \in Seq(Job)
         /\ Queues' /\ Waiting' = Waiting \cup {j}
<1>1. CASE j \in Interactive
  <2>1. interactions' = Append(interactions, j) /\ notifications' = notifications
    BY <1>1 DEF Put
  <2>2. /\ interactions' \in Seq(Job) /\ Distinct(interactions')
        /\ Range(interactions') = Range(interactions) \cup {j}
    BY <2>1, AppendDistinct DEF TypeOK, Queues, Waiting
  <2> QED BY <1>1, <2>1, <2>2 DEF TypeOK, Queues, Waiting, Interactive
<1>2. CASE j \notin Interactive
  <2>1. notifications' = Append(notifications, j) /\ interactions' = interactions
    BY <1>2 DEF Put
  <2>2. /\ notifications' \in Seq(Job) /\ Distinct(notifications')
        /\ Range(notifications') = Range(notifications) \cup {j}
    BY <2>1, AppendDistinct DEF TypeOK, Queues, Waiting
  <2> QED BY <1>2, <2>1, <2>2 DEF TypeOK, Queues, Waiting, Interactive
<1> QED BY <1>1, <1>2

\* The job at the head is taken out of the waiting ones.
LEMMA TakeInteractionOK ==
  ASSUME TypeOK, Queues, TakeInteraction
  PROVE  /\ interactions' \in Seq(Job) /\ notifications' \in Seq(Job)
         /\ current' \in Waiting \cap Interactive
         /\ Queues' /\ Waiting' = Waiting \ {current'}
<1>1. /\ current' = Head(interactions) /\ interactions' = Tail(interactions)
      /\ notifications' = notifications /\ interactions # <<>>
  BY DEF TakeInteraction
<1>2. /\ current' \in Range(interactions) /\ interactions' \in Seq(Job)
      /\ Distinct(interactions') /\ Range(interactions') = Range(interactions) \ {current'}
  BY <1>1, TailDistinct DEF TypeOK, Queues
<1>3. Interactive \subseteq Job
  BY DEF Interactive
<1> QED BY <1>1, <1>2, <1>3 DEF TypeOK, Queues, Waiting

LEMMA TakeNotificationOK ==
  ASSUME TypeOK, Queues, TakeNotification
  PROVE  /\ interactions' \in Seq(Job) /\ notifications' \in Seq(Job)
         /\ current' \in Waiting /\ Waiting \cap Interactive = {}
         /\ Queues' /\ Waiting' = Waiting \ {current'}
<1>1. /\ current' = Head(notifications) /\ notifications' = Tail(notifications)
      /\ interactions' = interactions /\ interactions = <<>> /\ notifications # <<>>
  BY DEF TakeNotification, NoInteractionWaits
<1>2. /\ current' \in Range(notifications) /\ notifications' \in Seq(Job)
      /\ Distinct(notifications') /\ Range(notifications') = Range(notifications) \ {current'}
  BY <1>1, TailDistinct DEF TypeOK, Queues
<1> QED BY <1>1, <1>2, EmptyRange DEF TypeOK, Queues, Waiting

\* Inv is inductive.
LEMMA InvInit == Init => Inv
<1> SUFFICES ASSUME Init PROVE Inv
  OBVIOUS
<1>1. interactions = <<>> /\ notifications = <<>> /\ Waiting = {}
  BY EmptyRange DEF Init, Waiting
<1>2. TypeOK
  <2> MaxRetries \in Nat /\ Interval \in Nat /\ MaxOdd \in Nat
    BY MessageQueueAssumption
  <2>1. retries \in [Job -> 0..MaxRetries]
    BY DEF Init
  <2>2. future \in [Job -> {"unasked", "pending", "cancelled", "done", "failed"}]
    BY DEF Init
  <2>3. since \in [last : 0..Interval, before : 0..Interval] /\ gap \in -Interval..Interval
    BY DEF Init
  <2>4. odd \in 0..MaxOdd
    BY DEF Init
  <2> QED BY <1>1, <2>1, <2>2, <2>3, <2>4, EmptyRange DEF Init, TypeOK
<1>3. Queues /\ Calls
  BY <1>1, EmptyRange, MessageQueueAssumption DEF Init, Queues, Calls, Open
<1> QED BY <1>2, <1>3 DEF Inv

\* A step that leaves the queues alone.
LEMMA QueuesStay ==
  ASSUME UNCHANGED queues
  PROVE  Waiting' = Waiting /\ Queues' = Queues
BY DEF queues, Waiting, Queues

LEMMA InvStep == Inv /\ [Next]_vars => Inv'
<1> SUFFICES ASSUME Inv, [Next]_vars PROVE Inv'
  OBVIOUS
<1> USE DEF Inv
<1> None \notin Job /\ MaxRetries \in Nat /\ Interval \in Nat \ {0} /\ MaxOdd \in Nat
  BY MessageQueueAssumption
<1> Waiting \subseteq Job /\ None \notin Waiting
  BY WaitingType
<1>1. ASSUME NEW j \in Job, Enqueue(j) PROVE Inv'
  <2>1. /\ future[j] \in {"unasked", "done", "failed"} /\ Put(j)
        /\ future' = [future EXCEPT ![j] = "pending"] /\ retries' = [retries EXCEPT ![j] = 0]
    BY <1>1 DEF Enqueue
  <2>2. j \notin Waiting \cup broken \cup {current}
    BY <2>1 DEF Calls, Open
  <2>3. /\ interactions' \in Seq(Job) /\ notifications' \in Seq(Job)
        /\ Queues' /\ Waiting' = Waiting \cup {j}
    BY <2>1, <2>2, PutOK
  <2>4. TypeOK'
    BY <1>1, <2>1, <2>3 DEF Enqueue, TypeOK, limiter
  <2>5. Calls'
    BY <1>1, <2>1, <2>2, <2>3 DEF Enqueue, TypeOK, Calls, Open
  <2> QED BY <2>3, <2>4, <2>5
<1>2. ASSUME NEW j \in Job, CancelWaiter(j) PROVE Inv'
  <2>1. Waiting' = Waiting /\ Queues'
    BY <1>2, QueuesStay DEF CancelWaiter
  <2>2. TypeOK'
    BY <1>2 DEF CancelWaiter, TypeOK, queues, limiter
  <2>3. Calls'
    BY <1>2, <2>1 DEF CancelWaiter, TypeOK, Calls, Open
  <2> QED BY <2>1, <2>2, <2>3
<1>3. CASE Start \/ Stop \/ LoopEnds \/ Sleep \/ Wake
  <2>1. UNCHANGED queues
    BY <1>3 DEF Start, Stop, LoopEnds, Sleep, Wake
  <2>2. Waiting' = Waiting /\ Queues'
    BY <2>1, QueuesStay
  <2>3. TypeOK'
    BY <1>3 DEF Start, Stop, LoopEnds, Sleep, Wake, TypeOK, queues, limiter
  <2>4. Calls'
    BY <1>3, <2>2 DEF Start, Stop, LoopEnds, Sleep, Wake, MayTake, Calls, Open
  <2> QED BY <2>2, <2>3, <2>4
<1>4. CASE TakeInteraction
  <2>1. /\ interactions' \in Seq(Job) /\ notifications' \in Seq(Job)
        /\ current' \in Waiting /\ Queues' /\ Waiting' = Waiting \ {current'}
    BY <1>4, TakeInteractionOK
  <2>2. TypeOK'
    BY <1>4, <2>1 DEF TakeInteraction, TypeOK, limiter
  <2>3. Calls'
    BY <1>4, <2>1 DEF TakeInteraction, MayTake, Calls, Open
  <2> QED BY <2>1, <2>2, <2>3
<1>5. CASE TakeNotification
  <2>1. /\ interactions' \in Seq(Job) /\ notifications' \in Seq(Job)
        /\ current' \in Waiting /\ Queues' /\ Waiting' = Waiting \ {current'}
    BY <1>5, TakeNotificationOK
  <2>2. TypeOK'
    BY <1>5, <2>1 DEF TakeNotification, TypeOK, limiter
  <2>3. Calls'
    BY <1>5, <2>1 DEF TakeNotification, MayTake, Calls, Open
  <2> QED BY <2>1, <2>2, <2>3
<1>6. CASE Call
  <2>1. Waiting' = Waiting /\ Queues'
    BY <1>6, QueuesStay DEF Call
  <2>2. gap' \in -Interval..Interval
    BY <1>6 DEF Call, NextAllowed, TypeOK
  <2>3. TypeOK'
    BY <1>6, <2>2 DEF Call, TypeOK, queues
  <2>4. Calls'
    BY <1>6, <2>1 DEF Call, Calls, Open
  <2> QED BY <2>1, <2>3, <2>4
<1>7. CASE Succeeds \/ FailsForGood
  <2>1. Waiting' = Waiting /\ Queues'
    BY <1>7, QueuesStay DEF Succeeds, FailsForGood
  <2>2. PICK result \in {"done", "failed"} :
          future' = [future EXCEPT ![current] = IF @ = "pending" THEN result ELSE @]
    BY <1>7 DEF Succeeds, FailsForGood, Resolve
  <2>3. /\ worker = "calling" /\ worker' \in {"inner", "outer"} /\ current' = None
        /\ UNCHANGED <<queues, running, retries, limiter, broken, odd>>
    BY <1>7 DEF Succeeds, FailsForGood, AfterCall
  <2>4. current \in Job /\ current \notin Waiting \cup broken
    BY <2>3 DEF Calls, TypeOK
  <2>5. TypeOK'
    BY <2>2, <2>3, <2>4 DEF TypeOK, queues, limiter
  <2>6. Calls'
    BY <2>1, <2>2, <2>3, <2>4 DEF TypeOK, Calls, Open
  <2> QED BY <2>1, <2>5, <2>6
<1>8. CASE FailsAndRetries
  <2>1. /\ worker = "calling" /\ worker' \in {"inner", "outer"} /\ current' = None
        /\ retries[current] < MaxRetries /\ retries' = [retries EXCEPT ![current] = @ + 1]
        /\ Put(current) /\ UNCHANGED <<running, future, limiter, broken, odd>>
    BY <1>8 DEF FailsAndRetries, MayRetry, AfterCall
  <2>2. current \in Job /\ current \notin Waiting \cup broken
    BY <2>1 DEF Calls, TypeOK
  <2>3. /\ interactions' \in Seq(Job) /\ notifications' \in Seq(Job)
        /\ Queues' /\ Waiting' = Waiting \cup {current}
    BY <2>1, <2>2, PutOK
  <2>4. retries' \in [Job -> 0..MaxRetries]
    <3>1. retries[current] + 1 \in 0..MaxRetries
      BY <2>1, <2>2 DEF TypeOK
    <3> QED BY <2>1, <2>2, <3>1 DEF TypeOK
  <2>5. TypeOK'
    <3>1. /\ worker' \in {"inner", "outer"} /\ current' = None
          /\ UNCHANGED <<running, future, gap, since, broken, odd>>
      BY <2>1 DEF limiter
    <3> QED BY <2>3, <2>4, <3>1 DEF TypeOK
  <2>6. Calls'
    BY <2>1, <2>2, <2>3 DEF Calls, Open, TypeOK
  <2> QED BY <2>3, <2>5, <2>6
<1>9. CASE Breaks
  <2>1. Waiting' = Waiting /\ Queues'
    BY <1>9, QueuesStay DEF Breaks
  <2>2. current \in Job /\ current \notin Waiting
    BY <1>9 DEF Breaks, Calls, TypeOK
  <2>3. TypeOK'
    <3>1. odd' \in 0..MaxOdd
      BY <1>9 DEF Breaks, TypeOK
    <3>2. broken' \in SUBSET Job
      BY <1>9, <2>2 DEF Breaks, TypeOK
    <3>3. /\ worker' = "sleep" /\ current' = None
          /\ UNCHANGED <<interactions, notifications, running, retries, future, gap, since>>
      BY <1>9 DEF Breaks, queues, limiter
    <3> QED BY <3>1, <3>2, <3>3 DEF TypeOK
  <2>4. Calls'
    BY <1>9, <2>1, <2>2 DEF Breaks, Calls, Open, TypeOK
  <2> QED BY <2>1, <2>3, <2>4
<1>10. CASE Tick
  <2>1. Waiting' = Waiting /\ Queues'
    BY <1>10, QueuesStay DEF Tick
  <2>2. gap' \in -Interval..Interval
    BY <1>10 DEF Tick, TypeOK
  <2>3. since' \in [last : 0..Interval, before : 0..Interval]
    BY <1>10 DEF Tick, TypeOK
  <2>4. TypeOK'
    BY <1>10, <2>2, <2>3 DEF Tick, TypeOK, queues
  <2>5. Calls'
    BY <1>10, <2>1 DEF Tick, Calls, Open
  <2> QED BY <2>1, <2>4, <2>5
<1>11. CASE UNCHANGED vars
  <2>1. UNCHANGED <<queues, running, worker, current, retries, future, limiter, broken, odd>>
    BY <1>11 DEF vars
  <2>2. Waiting' = Waiting /\ Queues'
    BY <2>1, QueuesStay
  <2> QED BY <2>1, <2>2 DEF TypeOK, Calls, Open, queues, limiter
<1> QED BY <1>1, <1>2, <1>3, <1>4, <1>5, <1>6, <1>7, <1>8, <1>9, <1>10, <1>11
        DEF Next, WorkerStep, CallEnds

LEMMA InvAlways == Spec => []Inv
BY InvInit, InvStep, PTL DEF Spec

\* The variables of message_queue.py keep their types in every run.
THEOREM TypeCorrect == Spec => []TypeOK
<1>1. Inv => TypeOK
  BY DEF Inv
<1> QED BY <1>1, InvAlways, PTL

-------------------------------------------------------------------------------
(* A call is in one place.                                                 *)

\* How often a call is in a sequence without repetition.
LEMMA TimesOne ==
  ASSUME NEW q \in Seq(Job), NEW j \in Job, Distinct(q)
  PROVE  Cardinality({i \in DOMAIN q : q[i] = j}) = IF j \in Range(q) THEN 1 ELSE 0
<1>1. CASE j \in Range(q)
  <2>1. PICK k \in DOMAIN q : q[k] = j
    BY <1>1 DEF Range
  <2>2. {i \in DOMAIN q : q[i] = j} = {k}
    BY <2>1 DEF Distinct
  <2> QED BY <1>1, <2>2, FS_Singleton
<1>2. CASE j \notin Range(q)
  <2>1. {i \in DOMAIN q : q[i] = j} = {}
    BY <1>2 DEF Range
  <2> QED BY <1>2, <2>1, FS_EmptySet
<1> QED BY <1>1, <1>2

LEMMA OnceIn ==
  ASSUME NEW j, NEW S PROVE Cardinality({j} \cap S) = IF j \in S THEN 1 ELSE 0
<1>1. CASE j \in S
  <2>1. {j} \cap S = {j}
    BY <1>1
  <2> QED BY <1>1, <2>1, FS_Singleton
<1>2. CASE j \notin S
  <2>1. {j} \cap S = {}
    BY <1>2
  <2> QED BY <1>2, <2>1, FS_EmptySet
<1> QED BY <1>1, <1>2

\* A call that is awaited is in the queue of its tier, in hand or broken, in
\* one of them and once; a call with an outcome is in none.
THEOREM CallsPlacedOnce == Spec => []PlacedOnce
<1>1. Inv => PlacedOnce
  <2> SUFFICES ASSUME Inv PROVE PlacedOnce
    OBVIOUS
  <2> USE DEF Inv
  <2> DEFINE Times(q, j) == Cardinality({i \in DOMAIN q : q[i] = j})
             Own(j) == IF j \in Interactive THEN interactions ELSE notifications
             Other(j) == IF j \in Interactive THEN notifications ELSE interactions
             InHand(j) == Cardinality({j} \cap {current})
             Places(j) == InHand(j) + Times(Own(j), j)
  <2> SUFFICES ASSUME NEW j \in Job
               PROVE  /\ Places(j) <= 1 /\ Times(Other(j), j) = 0
                      /\ future[j] = "pending" => Places(j) + Cardinality({j} \cap broken) = 1
                      /\ future[j] \in {"unasked", "done", "failed"} => Places(j) = 0
    BY DEF PlacedOnce
  <2>1. Times(Own(j), j) = IF j \in Waiting THEN 1 ELSE 0
    <3>1. j \in Range(Own(j)) <=> j \in Waiting
      BY DEF Queues, Waiting
    <3>2. Own(j) \in Seq(Job) /\ Distinct(Own(j))
      BY DEF TypeOK, Queues
    <3> HIDE DEF Own
    <3> QED BY <3>1, <3>2, TimesOne
  <2>2. Times(Other(j), j) = 0
    <3>1. j \notin Range(Other(j))
      BY DEF Queues
    <3>2. Other(j) \in Seq(Job) /\ Distinct(Other(j))
      BY DEF TypeOK, Queues
    <3> HIDE DEF Other
    <3> QED BY <3>1, <3>2, TimesOne
  <2>3. InHand(j) = IF j = current THEN 1 ELSE 0
    BY OnceIn
  <2>4. Cardinality({j} \cap broken) = IF j \in broken THEN 1 ELSE 0
    BY OnceIn
  <2>5. /\ ~(j = current /\ j \in Waiting)
        /\ j \in broken => j # current /\ j \notin Waiting
        /\ future[j] = "pending" => j \in Waiting \cup broken \cup {current}
        /\ j \in Waiting \cup {current} => future[j] \in {"pending", "cancelled"}
    BY DEF Calls, Open
  <2> HIDE DEF Own, Other, Times, InHand
  <2> QED BY <2>1, <2>2, <2>3, <2>4, <2>5
<1> QED BY <1>1, InvAlways, PTL

-------------------------------------------------------------------------------
(* The rate limiter.  The allowed time lags behind the last call by no more *)
(* than the time since, and covers what the call before still lacks.       *)
Spaced ==
  /\ gap >= -since.last
  /\ since.before = Interval \/ gap >= Interval - since.before

LEMMA SpacedInit == Init => Spaced
BY MessageQueueAssumption DEF Init, Spaced

LEMMA SpacedStep == Inv /\ Spaced /\ [Next]_vars => Spaced'
<1> SUFFICES ASSUME Inv, Spaced, [Next]_vars PROVE Spaced'
  OBVIOUS
<1>1. /\ Interval \in Nat \ {0} /\ gap \in -Interval..Interval
      /\ since \in [last : 0..Interval, before : 0..Interval]
  BY MessageQueueAssumption DEF Inv, TypeOK
<1>2. CASE Call
  <2>1. gap' = NextAllowed(gap) /\ since'.last = 0 /\ since'.before = since.last /\ gap <= 0
    BY <1>2 DEF Call
  <2> QED BY <1>1, <2>1 DEF Spaced, NextAllowed
<1>3. CASE Tick
  <2>1. /\ gap' = IF gap > -Interval THEN gap - 1 ELSE gap
        /\ since'.last = IF since.last < Interval THEN since.last + 1 ELSE since.last
        /\ since'.before = IF since.before < Interval THEN since.before + 1 ELSE since.before
    BY <1>1, <1>3 DEF Tick
  <2> QED BY <1>1, <2>1 DEF Spaced
<1>4. CASE UNCHANGED limiter
  BY <1>4 DEF limiter, Spaced
<1> QED BY <1>2, <1>3, <1>4
        DEF Next, WorkerStep, CallEnds, vars, limiter, Enqueue, CancelWaiter, Start, Stop, LoopEnds,
            TakeInteraction, TakeNotification, Sleep, Wake, Succeeds, FailsAndRetries, FailsForGood, Breaks

\* Whatever the callers do and however long the calls take, the worker places
\* no three calls within the interval of _enforce_rate_limit.
THEOREM CallsSpaced == Spec => ThreeSpanTheInterval
<1>1. Inv /\ Spaced /\ [Next]_vars
      => [worker = "limit" /\ worker' = "calling" => since.before = Interval]_vars
  <2> SUFFICES ASSUME Inv, Spaced, [Next]_vars, worker = "limit", worker' = "calling"
               PROVE  since.before = Interval
    OBVIOUS
  <2>1. Call
    BY DEF Next, WorkerStep, CallEnds, vars, Enqueue, CancelWaiter, Start, Stop, LoopEnds, AfterCall,
           TakeInteraction, TakeNotification, Sleep, Wake, Succeeds, FailsAndRetries, FailsForGood, Breaks, Tick
  <2>2. /\ Interval \in Nat /\ gap \in Int /\ gap <= 0
        /\ since.before \in 0..Interval
    BY <2>1, MessageQueueAssumption DEF Call, Inv, TypeOK
  <2> QED BY <2>2 DEF Spaced
<1> QED BY <1>1, InvAlways, SpacedInit, SpacedStep, PTL DEF Spec, ThreeSpanTheInterval

-------------------------------------------------------------------------------
(* The queue keeps the promise of OutboundCalls.                           *)

LEMMA ContractInit == Init => Contract!Init
BY EmptyRange DEF Init, Contract!Init, Waiting

LEMMA ContractStep == Inv /\ [Next]_vars => [Contract!Next]_(Contract!outVars)
<1> SUFFICES ASSUME Inv, [Next]_vars PROVE [Contract!Next]_(Contract!outVars)
  OBVIOUS
<1> USE DEF Inv
<1> None \notin Job /\ MaxRetries \in Nat
  BY MessageQueueAssumption
<1> Waiting \subseteq Job /\ None \notin Waiting
  BY WaitingType
<1>1. ASSUME NEW j \in Job, Enqueue(j) PROVE Contract!Ask(j)
  <2>1. future[j] \in {"unasked", "done", "failed"} /\ Put(j)
    BY <1>1 DEF Enqueue
  <2>2. Waiting' = Waiting \cup {j}
    BY <2>1, PutOK DEF Calls, Open
  <2> QED BY <1>1, <2>2 DEF Enqueue, Contract!Ask
<1>2. ASSUME NEW j \in Job, CancelWaiter(j) PROVE Contract!Withdraw(j)
  BY <1>2, QueuesStay DEF CancelWaiter, Contract!Withdraw
<1>3. CASE TakeInteraction \/ TakeNotification
  <2>1. current = None
    BY <1>3 DEF TakeInteraction, TakeNotification, MayTake, Calls
  <2>2. /\ current' \in Waiting /\ Waiting' = Waiting \ {current'}
        /\ current' \in Interactive \/ Waiting \cap Interactive = {}
    BY <1>3, TakeInteractionOK, TakeNotificationOK
  <2>3. Contract!Take(current')
    BY <1>3, <2>1, <2>2 DEF TakeInteraction, TakeNotification, Contract!Take
  <2> QED BY <2>2, <2>3 DEF Contract!Next
<1>4. CASE CallEnds
  <2>1. /\ current \in Job /\ current \notin Waiting /\ current' = None
        /\ future[current] \in {"pending", "cancelled"}
    BY <1>4 DEF CallEnds, Succeeds, FailsAndRetries, FailsForGood, Breaks, AfterCall, TypeOK, Calls, Open
  <2>2. CASE Succeeds
    <3>1. Contract!Settle(current, "done")
      BY <2>1, <2>2, QueuesStay DEF Succeeds, Resolve, Contract!Settle
    <3> QED BY <2>1, <3>1 DEF Contract!Next
  <2>3. CASE FailsForGood
    <3>1. retries[current] = MaxRetries
      BY <2>1, <2>3 DEF FailsForGood, MayRetry, TypeOK
    <3>2. Contract!Settle(current, "failed")
      BY <2>1, <2>3, <3>1, QueuesStay DEF FailsForGood, Resolve, Contract!Settle
    <3> QED BY <2>1, <3>2 DEF Contract!Next
  <2>4. CASE FailsAndRetries
    <3>1. Waiting' = Waiting \cup {current}
      BY <2>1, <2>4, PutOK DEF FailsAndRetries
    <3>2. Contract!TryAgain(current)
      BY <2>1, <2>4, <3>1 DEF FailsAndRetries, MayRetry, Contract!TryAgain
    <3> QED BY <2>1, <3>2 DEF Contract!Next
  <2>5. CASE Breaks
    <3>1. Contract!Abandon(current)
      BY <2>1, <2>5, QueuesStay DEF Breaks, Contract!Abandon
    <3> QED BY <2>1, <3>1 DEF Contract!Next
  <2> QED BY <1>4, <2>2, <2>3, <2>4, <2>5 DEF CallEnds
<1>5. CASE Start \/ Stop \/ LoopEnds \/ Sleep \/ Wake \/ Call \/ Tick \/ UNCHANGED vars
  <2>1. UNCHANGED <<queues, current, retries, future>>
    BY <1>5 DEF Start, Stop, LoopEnds, Sleep, Wake, Call, Tick, vars
  <2> QED BY <2>1, QueuesStay DEF Contract!outVars
<1> QED BY <1>1, <1>2, <1>3, <1>4, <1>5 DEF Next, WorkerStep, Contract!Next

\* message_queue.py keeps what OutboundCalls.tla promises to its callers: one
\* call at a time, interactions first, MaxRetries retries, one outcome.
THEOREM Implements == Spec => Promise
<1>1. Init => Contract!Init
  BY ContractInit
<1>2. Inv /\ [Next]_vars => [Contract!Next]_(Contract!outVars)
  BY ContractStep
<1> QED BY <1>1, <1>2, InvAlways, PTL DEF Spec, Promise, Contract!Spec
===============================================================================
