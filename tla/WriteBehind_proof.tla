-------------------------- MODULE WriteBehind_proof --------------------------
(***************************************************************************)
(* Proofs about WriteBehind: type correctness, and that while nothing      *)
(* fails the database follows the memory in order (LastWriteWins) and      *)
(* never goes back to an older write (DbMovesForward), and that what       *)
(* became of every write is known: failing calls lose only the writes      *)
(* whose own method swallows the failure (WritesAreAccounted).             *)
(***************************************************************************)
EXTENDS WriteBehind, SequenceTheorems, FiniteSetTheorems, TLAPS

\* A queue that is not empty is its head before its tail.
LEMMA HeadThenTail ==
  ASSUME NEW s \in Seq(Job), s # <<>>
  PROVE  /\ Head(s) \in Job /\ Tail(s) \in Seq(Job)
         /\ s = <<Head(s)>> \o Tail(s)
<1>1. Head(s) \in Job /\ Tail(s) \in Seq(Job)
  BY HeadTailProperties
<1>2. Len(s) \in Nat \ {0}
  BY EmptySeq
<1>3. SubSeq(s, 1, Len(s)) = <<s[1]>> \o SubSeq(s, 2, Len(s))
  BY <1>2, SubSeqRecursiveFirst
<1>4. SubSeq(s, 1, Len(s)) = s /\ Tail(s) = SubSeq(s, 2, Len(s)) /\ s[1] = Head(s)
  BY SubSeqFull, TailIsSubSeq
<1> QED BY <1>1, <1>3, <1>4

\* The worker takes the next job of a queue.
LEMMA TakeNextOK ==
  ASSUME NEW q \in Seq(Job), TakeNext(q)
  PROVE  /\ queue' \in Seq(Job) /\ job' \in Job \cup {None}
         /\ worker' \in {"wait", "log", "stopped"}
         /\ worker' \in {"log", "execute"} <=> job' # None
         /\ Pending' = q
<1> None \notin Job
  BY WriteBehindAssumption DEF Job, Write
<1>1. CASE q = <<>>
  <2>1. queue' = <<>> /\ job' = None /\ worker' \in {"wait", "stopped"}
    BY <1>1 DEF TakeNext
  <2>2. Pending' = <<>> \o <<>>
    BY <2>1 DEF Pending
  <2> QED BY <1>1, <2>1, <2>2, ConcatEmptySeq
<1>2. CASE q # <<>>
  <2>1. queue' = Tail(q) /\ job' = Head(q) /\ worker' = "log"
    BY <1>2 DEF TakeNext
  <2>2. Head(q) \in Job /\ Tail(q) \in Seq(Job)
    BY <1>2, HeadTailProperties
  <2>3. Pending' = <<Head(q)>> \o Tail(q)
    BY <2>1, <2>2 DEF Pending
  <2>4. <<Head(q)>> \o Tail(q) = q
    BY <1>2, HeadThenTail
  <2> QED BY <2>1, <2>2, <2>3, <2>4
<1> QED BY <1>1, <1>2

\* The jobs that are pending form a sequence of jobs.
LEMMA PendingType ==
  ASSUME TypeOK
  PROVE  /\ Pending \in Seq(Job)
         /\ Len(Pending) \in Nat /\ DOMAIN Pending = 1..Len(Pending)
         /\ \A i \in DOMAIN Pending : Pending[i] \in Job /\ Pending[i].id \in Nat
<1>1. (IF job = None THEN <<>> ELSE <<job>>) \in Seq(Job)
  BY DEF TypeOK
<1>2. Pending \in Seq(Job)
  BY <1>1, ConcatProperties DEF Pending, TypeOK
<1>3. Len(Pending) \in Nat /\ DOMAIN Pending = 1..Len(Pending)
  BY <1>2, LenProperties
<1>4. \A i \in DOMAIN Pending : Pending[i] \in Job
  BY <1>2, <1>3, ElementOfSeq
<1>5. \A k \in Job : k.id \in Nat
  BY WriteBehindAssumption DEF Job, Write
<1> QED BY <1>2, <1>3, <1>4, <1>5

\* Writes and replayed jobs are jobs.
LEMMA NewJobType ==
  ASSUME TypeOK, written < MaxWrites, NEW r \in Row
  PROVE  NewJob(r) \in Job /\ NewJob(r).id = written + 1 /\ NewJob(r).row = r
BY WriteBehindAssumption DEF TypeOK, NewJob, Job, Write

LEMMA ReplayedType ==
  ASSUME TypeOK
  PROVE  Replayed \in Seq(Job)
<1>1. Len(wal) \in Nat /\ DOMAIN wal = 1..Len(wal) /\ \A i \in 1..Len(wal) : wal[i] \in Job
  BY LenProperties DEF TypeOK
<1>2. \A i \in 1..Len(wal) : Fresh(wal[i]) \in Job
  BY <1>1, WriteBehindAssumption DEF Fresh, Job
<1> QED BY <1>1, <1>2 DEF Replayed

LEMMA TypeInit == Init => TypeOK
<1> SUFFICES ASSUME Init PROVE TypeOK
  OBVIOUS
<1>1. spawned \in Seq(Job) /\ queue \in Seq(Job) /\ wal \in Seq(Job)
  BY DEF Init
<1>2. /\ mem \in [Row -> 0..MaxWrites] /\ db \in [Row -> 0..MaxWrites]
      /\ executed \in [Write -> Nat]
  BY WriteBehindAssumption DEF Init
<1>3. /\ written \in 0..MaxWrites /\ faults \in 0..MaxFaults /\ crashes \in 0..MaxCrashes
      /\ shutdowns \in 0..MaxShutdowns
  BY WriteBehindAssumption DEF Init
<1> QED BY <1>1, <1>2, <1>3 DEF Init, TypeOK

LEMMA TypeNext == TypeOK /\ [Next]_vars => TypeOK'
<1> SUFFICES ASSUME TypeOK, [Next]_vars PROVE TypeOK'
  OBVIOUS
<1> USE WriteBehindAssumption DEF tables, feeding, working, stopped, history, bounds
<1>0. <<>> \in Seq(Job)
  OBVIOUS
<1>1. CASE ReplayWal
  <2>1. event' \in BOOLEAN /\ queue' \in Seq(Job) /\ wal' \in Seq(Job)
    BY <1>0, <1>1, ReplayedType DEF ReplayWal
  <2>2. /\ phase = "down" /\ phase' = "loading"
        /\ UNCHANGED <<tables, spawned, working, stopped, history, bounds>>
    BY <1>1 DEF ReplayWal
  <2> QED BY <2>1, <2>2 DEF TypeOK
<1>2. CASE LoadTables
  BY <1>2 DEF LoadTables, TypeOK
<1>3. ASSUME NEW r \in Row, WriteRow(r) PROVE TypeOK'
  <2>1. NewJob(r) \in Job /\ written + 1 \in 0..MaxWrites
    BY <1>3, NewJobType DEF WriteRow, TypeOK
  <2>2. Append(spawned, NewJob(r)) \in Seq(Job) /\ Append(queue, NewJob(r)) \in Seq(Job)
    BY <2>1, AppendProperties DEF TypeOK
  <2>3. mem' \in [Row -> 0..MaxWrites]
    BY <1>3, <2>1 DEF WriteRow, TypeOK
  <2>4. event' \in BOOLEAN /\ spawned' \in Seq(Job) /\ queue' \in Seq(Job)
    BY <1>3, <2>2 DEF WriteRow, Notified, TypeOK
  <2>5. catching' \subseteq Write
    <3>1. written + 1 \in Write
      BY <1>3 DEF WriteRow, Write, TypeOK
    <3>2. catching' = catching \/ catching' = catching \cup {written + 1}
      BY <1>3 DEF WriteRow
    <3> QED BY <3>1, <3>2 DEF TypeOK
  <2> QED BY <1>3, <2>1, <2>3, <2>4, <2>5 DEF WriteRow, TypeOK
<1>4. CASE QueueWrite
  <2>1. Head(spawned) \in Job /\ Tail(spawned) \in Seq(Job)
    BY <1>4, HeadTailProperties DEF QueueWrite, TypeOK
  <2>2. Append(queue, Head(spawned)) \in Seq(Job)
    BY <2>1, AppendProperties DEF TypeOK
  <2> QED BY <1>4, <2>1, <2>2 DEF QueueWrite, TypeOK
<1>5. CASE WorkerWakes
  BY <1>5, TakeNextOK DEF WorkerWakes, TypeOK
<1>6. CASE WorkerStops
  BY <1>6 DEF WorkerStops, TypeOK
<1>7. CASE LogJob
  <2>1. job \in Job /\ job.id \in Write
    BY <1>7 DEF LogJob, TypeOK, Job
  <2>2. Append(wal, job) \in Seq(Job)
    BY <2>1, AppendProperties DEF TypeOK
  <2> QED BY <1>7, <2>1, <2>2 DEF LogJob, TypeOK
<1>8. CASE LogFails
  BY <1>8 DEF LogFails, TypeOK
<1>9. CASE ExecuteJob
  <2>1. job.id \in Write /\ job.row \in Row
    BY <1>9 DEF ExecuteJob, TypeOK, Job
  <2>2. db' \in [Row -> 0..MaxWrites]
    BY <1>9, <2>1 DEF ExecuteJob, TypeOK, Write
  <2>3. executed' \in [Write -> Nat]
    BY <1>9, <2>1 DEF ExecuteJob, TypeOK
  <2> QED BY <1>9, <2>2, <2>3, TakeNextOK DEF ExecuteJob, TypeOK
<1>10. CASE ExecuteFails
  <2>1. job \in Job /\ job.id \in Write /\ job.tries \in 0..MaxRetries
    BY <1>10 DEF ExecuteFails, TypeOK, Job
  <2>2. ASSUME ~GivesUp(job) PROVE Requeued(job) \in Seq(Job)
    <3>1. [job EXCEPT !.tries = @ + 1] \in Job
      BY <2>1, <2>2 DEF GivesUp, Job
    <3> QED BY <3>1, AppendProperties DEF Requeued, TypeOK
  <2> DEFINE q == IF GivesUp(job) THEN queue ELSE Requeued(job)
  <2>3. q \in Seq(Job) /\ TakeNext(q)
    BY <1>10, <2>2 DEF ExecuteFails, TypeOK
  <2> HIDE DEF q
  <2> QED BY <1>10, <2>1, <2>3, TakeNextOK DEF ExecuteFails, TypeOK
<1>10a. CASE FailureSwallowed
  <2>1. job.id \in Write /\ queue \in Seq(Job)
    BY <1>10a DEF FailureSwallowed, TypeOK, Job
  <2> QED BY <1>10a, <2>1, TakeNextOK DEF FailureSwallowed, TypeOK
<1>11. CASE BeginShutdown
  BY <1>11 DEF BeginShutdown, TypeOK, Write
<1>12. CASE Drained \/ Joined
  BY <1>12 DEF Drained, Joined, TypeOK
<1>13. CASE JoinTimesOut
  <2>1. job.id \in Write /\ job.row \in Row
    BY <1>13 DEF JoinTimesOut, TypeOK, Job
  <2>2. db' \in [Row -> 0..MaxWrites] /\ executed' \in [Write -> Nat]
    <3>1. CASE UNCHANGED <<db, executed>>
      BY <3>1 DEF TypeOK
    <3>2. CASE /\ db' = [db EXCEPT ![job.row] = job.id]
               /\ executed' = [executed EXCEPT ![job.id] = @ + 1]
      <4>1. db' \in [Row -> 0..MaxWrites]
        BY <2>1, <3>2 DEF TypeOK, Write
      <4>2. executed' \in [Write -> Nat]
        BY <2>1, <3>2 DEF TypeOK
      <4> QED BY <4>1, <4>2
    <3> QED BY <1>13, <3>1, <3>2 DEF JoinTimesOut
  <2>3. /\ faults' \in 0..MaxFaults /\ UNCHANGED <<mem, spawned, queue, event, wal, phase>>
        /\ worker' = "stopped" /\ job' = None /\ closer' = "close"
        /\ UNCHANGED <<stopping, written, logged, dead, catching, swallowed, crashes, shutdowns>>
    BY <1>13 DEF JoinTimesOut, TypeOK
  <2> QED BY <2>2, <2>3 DEF TypeOK
<1>14. CASE CloseWal \/ Crash
  <2>1. /\ wal' \in Seq(Job) /\ crashes' \in 0..MaxCrashes
        /\ UNCHANGED <<mem, db, written, logged, executed, dead, catching, swallowed, faults,
                       shutdowns>>
    <3>1. CASE CloseWal
      BY <1>0, <3>1 DEF CloseWal, TypeOK
    <3>2. CASE Crash
      BY <3>2 DEF Crash, TypeOK
    <3> QED BY <1>14, <3>1, <3>2
  <2>2. ProcessEnds
    BY <1>14 DEF CloseWal, Crash
  <2> QED BY <1>0, <2>1, <2>2 DEF ProcessEnds, TypeOK
<1>15. CASE UNCHANGED vars
  BY <1>15 DEF vars, TypeOK
<1> QED BY <1>1, <1>2, <1>3, <1>4, <1>5, <1>6, <1>7, <1>8, <1>9, <1>10, <1>10a, <1>11, <1>12,
           <1>13, <1>14, <1>15 DEF Next, WorkerStep

\* The variables keep their types; in particular a job is never tried more than
\* MaxRetries times again, and the worker holds a job exactly while it works on it.
THEOREM TypeCorrect == Spec => []TypeOK
BY TypeInit, TypeNext, PTL DEF Spec

-----------------------------------------------------------------------------
(* The order of the writes *)

Calm == faults = 0 /\ crashes = 0

\* What makes LastWriteWins inductive: numbers are handed out in order, only deferred
\* rows wait in tasks, a process that is not up has nothing queued, and its log is
\* empty, since the log only survives a crash.
Numbered ==
  /\ \A i \in DOMAIN Pending : Pending[i].row \notin Deferred => Pending[i].id <= written
  /\ \A r \in Row \ Deferred : mem[r] <= written /\ db[r] <= written
DeferredWait == \A i \in DOMAIN spawned : spawned[i].row \in Deferred
NothingQueued ==
  phase # "up" => /\ spawned = <<>> /\ Pending = <<>> /\ worker = "stopped"
                  /\ closer = "none"
                  /\ phase = "down" => wal = <<>>
InOrder(r) == OldestFirst(r) /\ NewerThanDb(r) /\ EndsAtMem(r)

OrderInv ==
  Calm => /\ Numbered /\ DeferredWait /\ NothingQueued
          /\ phase = "up" => \A r \in Row \ Deferred : InOrder(r)

\* Nothing that matters to the order changes.
LEMMA OrderKept ==
  ASSUME OrderInv, Calm, UNCHANGED <<mem, db, spawned, written, phase>>, Pending' = Pending,
         phase = "up"
  PROVE  OrderInv'
BY DEF OrderInv, Calm, Numbered, DeferredWait, NothingQueued, InOrder, OldestFirst, NewerThanDb,
       EndsAtMem

LEMMA OrderWrite ==
  ASSUME TypeOK, OrderInv, Calm, NEW r \in Row, WriteRow(r)
  PROVE  OrderInv'
<1> DEFINE P == Pending
           j == NewJob(r)
<1>0. /\ written \in Nat /\ written' = written + 1 /\ written < MaxWrites
      /\ phase = "up" /\ phase' = "up" /\ db' = db /\ job' = job
      /\ mem' = [mem EXCEPT ![r] = written + 1]
  BY WriteBehindAssumption DEF WriteRow, TypeOK, working
<1>1. /\ j \in Job /\ j.id = written + 1 /\ j.row = r
      /\ P \in Seq(Job) /\ Len(P) \in Nat /\ DOMAIN P = 1..Len(P)
      /\ \A i \in DOMAIN P : P[i].id \in Nat
      /\ written \in Nat /\ written' = written + 1
      /\ phase = "up" /\ phase' = "up" /\ db' = db /\ job' = job
  BY <1>0, NewJobType, PendingType
<1>2. /\ mem'[r] = written + 1
      /\ \A s \in Row : s # r => mem'[s] = mem[s]
      /\ \A s \in Row : mem[s] \in Nat /\ db[s] \in Nat
  BY <1>0, WriteBehindAssumption DEF TypeOK
<1>3. CASE r \in Deferred
  <2>1. UNCHANGED queue /\ spawned' = Append(spawned, j)
    BY <1>3 DEF WriteRow
  <2>2. Pending' = P
    BY <1>1, <2>1 DEF Pending
  <2>3. DeferredWait'
    <3>1. spawned \in Seq(Job) /\ DeferredWait
      BY DEF TypeOK, OrderInv
    <3>2. DOMAIN spawned' = 1..(Len(spawned) + 1) /\ DOMAIN spawned = 1..Len(spawned)
          /\ Len(spawned) \in Nat
      BY <1>1, <2>1, <3>1, AppendProperties, LenProperties
    <3>3. \A i \in 1..Len(spawned) : spawned'[i] = spawned[i]
      BY <1>1, <2>1, <3>1, AppendProperties
    <3>4. spawned'[Len(spawned) + 1] = j
      BY <1>1, <2>1, <3>1, AppendProperties
    <3> HIDE DEF j
    <3> QED BY <1>1, <1>3, <3>1, <3>2, <3>3, <3>4 DEF DeferredWait
  <2> HIDE DEF P, j
  <2>4. Numbered'
    BY <1>1, <1>2, <2>2 DEF OrderInv, Numbered, P
  <2>5. \A s \in Row \ Deferred : InOrder(s)'
    BY <1>1, <1>2, <1>3, <2>2 DEF OrderInv, InOrder, OldestFirst, NewerThanDb, EndsAtMem, P
  <2> QED BY <1>1, <2>3, <2>4, <2>5 DEF OrderInv, NothingQueued
<1>4. CASE r \notin Deferred
  <2>1. queue' = Append(queue, j) /\ UNCHANGED spawned
    BY <1>4 DEF WriteRow
  <2>2. Pending' = Append(P, j)
    <3> DEFINE a == IF job = None THEN <<>> ELSE <<job>>
    <3>1. a \in Seq(Job) /\ queue \in Seq(Job) /\ <<j>> \in Seq(Job)
      BY <1>1 DEF TypeOK
    <3>2. Append(queue, j) = queue \o <<j>> /\ Append(P, j) = P \o <<j>>
      BY <1>1, <3>1, AppendIsConcat
    <3>3. Pending' = a \o Append(queue, j) /\ P = a \o queue
      BY <1>1, <2>1 DEF Pending
    <3> QED BY <3>1, <3>2, <3>3, ConcatAssociative
  <2>3. /\ DOMAIN Pending' = 1..(Len(P) + 1)
        /\ \A i \in 1..Len(P) : Pending'[i] = P[i]
        /\ Pending'[Len(P) + 1] = j
    BY <1>1, <2>2, AppendProperties, LenProperties
  <2> HIDE DEF P, j
  <2>4. Numbered'
    <3>1. \A i \in DOMAIN Pending' : Pending'[i].row \notin Deferred => Pending'[i].id <= written'
      BY <1>1, <2>3 DEF OrderInv, Numbered, P
    <3>2. \A s \in Row \ Deferred : mem'[s] <= written' /\ db'[s] <= written'
      BY <1>1, <1>2 DEF OrderInv, Numbered
    <3> QED BY <3>1, <3>2 DEF Numbered
  <2>5. ASSUME NEW s \in Row \ Deferred PROVE InOrder(s)'
    <3>1. InOrder(s) /\ Numbered
      BY <1>1 DEF OrderInv
    <3>2. OldestFirst(s)'
      BY <1>1, <1>2, <2>3, <2>5, <3>1 DEF InOrder, OldestFirst, Numbered, P
    <3>3. NewerThanDb(s)'
      BY <1>1, <1>2, <2>3, <2>5, <3>1 DEF InOrder, NewerThanDb, Numbered, P
    <3>4. EndsAtMem(s)'
      <4>1. CASE s = r
        <5>1. Len(P) + 1 \in DOMAIN Pending' /\ Pending'[Len(P) + 1].id = mem'[s]
          BY <1>1, <1>2, <2>3, <4>1
        <5>2. \A i \in 1..Len(P) : P[i].row = s => P[i].id <= mem'[s]
          BY <1>1, <1>2, <2>5, <3>1, <4>1 DEF Numbered, P
        <5> QED BY <1>1, <1>2, <2>3, <4>1, <5>1, <5>2 DEF EndsAtMem
      <4>2. CASE s # r
        <5>1. mem'[s] = mem[s] /\ db'[s] = db[s]
          BY <1>1, <1>2, <4>2
        <5>2. \A i \in DOMAIN Pending' : Pending'[i].row = s => i \in DOMAIN P
          BY <1>1, <2>3, <4>2
        <5>3. \A i \in DOMAIN P : i \in DOMAIN Pending' /\ Pending'[i] = P[i]
          BY <1>1, <2>3
        <5> QED BY <3>1, <5>1, <5>2, <5>3 DEF InOrder, EndsAtMem, P
      <4> QED BY <4>1, <4>2
    <3> QED BY <3>2, <3>3, <3>4 DEF InOrder
  <2>6. DeferredWait'
    BY <2>1 DEF OrderInv, DeferredWait
  <2> QED BY <1>1, <2>4, <2>5, <2>6 DEF OrderInv, NothingQueued
<1> QED BY <1>3, <1>4

\* The head of the pending jobs is executed.
LEMMA OrderExecute ==
  ASSUME TypeOK, OrderInv, Calm, phase = "up", ExecuteJob
  PROVE  OrderInv' /\ \A r \in Row \ Deferred : db'[r] >= db[r]
<1> DEFINE P == Pending
<1>1. job \in Job /\ job.id \in Write /\ job.row \in Row /\ queue \in Seq(Job)
  BY DEF ExecuteJob, TypeOK, Job
<1>2. Pending' = queue /\ P = <<job>> \o queue
  BY <1>1, TakeNextOK, WriteBehindAssumption DEF ExecuteJob, Pending, Job, Write
<1>3. /\ Len(queue) \in Nat /\ DOMAIN queue = 1..Len(queue) /\ DOMAIN P = 1..(Len(queue) + 1)
      /\ P[1] = job /\ \A i \in 1..Len(queue) : P[i + 1] = queue[i]
  <2>1. <<job>> \in Seq(Job) /\ Len(<<job>>) = 1
    BY <1>1
  <2>2. P \in Seq(Job) /\ Len(P) = 1 + Len(queue)
    BY <1>1, <1>2, <2>1, ConcatProperties
  <2> HIDE DEF P
  <2> QED BY <1>1, <1>2, <2>1, <2>2, ConcatProperties, LenProperties
<1>4. /\ UNCHANGED <<mem, spawned, written, phase>>
      /\ db'[job.row] = job.id /\ \A s \in Row : s # job.row => db'[s] = db[s]
      /\ \A s \in Row : mem[s] \in Nat /\ db[s] \in Nat
      /\ written \in Nat /\ \A i \in DOMAIN P : P[i].id \in Nat
  <2>1. /\ UNCHANGED <<mem, spawned, written, phase>>
        /\ db' = [db EXCEPT ![job.row] = job.id]
    BY DEF ExecuteJob
  <2>2. \A s \in Row : mem[s] \in Nat /\ db[s] \in Nat
    BY WriteBehindAssumption DEF TypeOK
  <2>3. db'[job.row] = job.id /\ \A s \in Row : s # job.row => db'[s] = db[s]
    BY <1>1, <2>1 DEF TypeOK
  <2> QED BY <2>1, <2>2, <2>3, PendingType, WriteBehindAssumption DEF TypeOK
<1> HIDE DEF P
<1>5. \A i \in DOMAIN Pending' : Pending'[i] = P[i + 1] /\ i + 1 \in DOMAIN P
  BY <1>2, <1>3
<1>6. ASSUME NEW s \in Row \ Deferred PROVE InOrder(s)' /\ db'[s] >= db[s]
  <2>1. InOrder(s)
    BY DEF OrderInv
  <2>2. OldestFirst(s)'
    <3>1. SUFFICES ASSUME NEW i \in DOMAIN Pending', NEW k \in DOMAIN Pending', i < k,
                          Pending'[i].row = s, Pending'[k].row = s
                   PROVE  Pending'[i].id < Pending'[k].id
      BY DEF OldestFirst
    <3>2. i + 1 \in DOMAIN P /\ k + 1 \in DOMAIN P /\ i + 1 < k + 1
      BY <1>2, <1>3, <1>5, <3>1
    <3> QED BY <1>5, <2>1, <3>1, <3>2 DEF InOrder, OldestFirst, P
  <2>3. NewerThanDb(s)' /\ db'[s] >= db[s]
    <3>1. CASE s = job.row
      <4>1. 1 \in DOMAIN P /\ P[1].row = s /\ db'[s] = P[1].id /\ db[s] < P[1].id
        BY <1>3, <1>4, <2>1, <3>1 DEF InOrder, NewerThanDb, P
      <4>2. ASSUME NEW i \in DOMAIN Pending', Pending'[i].row = s PROVE db'[s] < Pending'[i].id
        <5>1. i + 1 \in DOMAIN P /\ 1 < i + 1 /\ P[i + 1].row = s /\ Pending'[i] = P[i + 1]
          BY <1>2, <1>3, <1>5, <4>2
        <5> QED BY <2>1, <4>1, <5>1 DEF InOrder, OldestFirst, P
      <4>3. db[s] \in Nat /\ db'[s] \in Nat
        BY <1>4, <4>1
      <4> QED BY <4>1, <4>2, <4>3 DEF NewerThanDb
    <3>2. CASE s # job.row
      <4>1. db'[s] = db[s] /\ db[s] \in Nat
        BY <1>4, <3>2
      <4> QED BY <1>5, <2>1, <4>1 DEF InOrder, NewerThanDb, P
    <3> QED BY <3>1, <3>2
  <2>4. EndsAtMem(s)'
    <3>1. \A i \in DOMAIN Pending' : Pending'[i].row = s => Pending'[i].id <= mem'[s]
      BY <1>4, <1>5, <2>1 DEF InOrder, EndsAtMem, P
    <3>2. ASSUME mem[s] # db'[s]
          PROVE  \E i \in DOMAIN queue : queue[i].row = s /\ queue[i].id = mem[s]
      <4>1. mem[s] = db[s] => s = job.row
        BY <1>4, <3>2
      <4>2. mem[s] # db[s]
        BY <1>3, <1>4, <2>1, <3>2, <4>1 DEF InOrder, NewerThanDb, EndsAtMem, P
      <4>3. PICK i \in DOMAIN P : P[i].row = s /\ P[i].id = mem[s]
        BY <2>1, <4>2 DEF InOrder, EndsAtMem, P
      <4>4. i # 1
        BY <1>3, <1>4, <3>2, <4>3
      <4>5. i - 1 \in DOMAIN queue /\ queue[i - 1] = P[i]
        BY <1>3, <4>4
      <4> QED BY <4>3, <4>5
    <3> QED BY <1>2, <1>4, <3>1, <3>2 DEF EndsAtMem
  <2> QED BY <2>2, <2>3, <2>4 DEF InOrder
<1>7. Numbered'
  <2>1. Numbered
    BY DEF OrderInv
  <2>2. \A i \in DOMAIN Pending' : Pending'[i].row \notin Deferred => Pending'[i].id <= written'
    BY <1>4, <1>5, <2>1 DEF Numbered, P
  <2>3. job.row \notin Deferred => job.id <= written
    BY <1>1, <1>3, <2>1 DEF Numbered, P
  <2> QED BY <1>4, <2>1, <2>2, <2>3 DEF Numbered
<1>8. DeferredWait' /\ NothingQueued'
  BY <1>4 DEF OrderInv, DeferredWait, NothingQueued
<1> QED BY <1>4, <1>6, <1>7, <1>8 DEF OrderInv

\* At the start of the process nothing is pending and memory is what the database holds.
LEMMA OrderLoad ==
  ASSUME TypeOK, OrderInv, Calm, LoadTables
  PROVE  OrderInv'
<1>1. Pending = <<>> /\ spawned = <<>> /\ Numbered /\ DeferredWait
  BY DEF OrderInv, NothingQueued, LoadTables
<1>2. Pending' = <<>> /\ spawned' = <<>>
  BY <1>1 DEF LoadTables, Pending, feeding
<1>3. mem' = db /\ db' = db /\ written' = written /\ phase' = "up"
  BY DEF LoadTables, history
<1>4. \A r \in Row : db[r] \in Nat
  BY WriteBehindAssumption DEF TypeOK
<1>5. Numbered' /\ DeferredWait'
  BY <1>1, <1>2, <1>3 DEF Numbered, DeferredWait
<1>6. \A r \in Row : InOrder(r)'
  BY <1>2, <1>3, <1>4 DEF InOrder, OldestFirst, NewerThanDb, EndsAtMem
<1> QED BY <1>3, <1>5, <1>6 DEF OrderInv, NothingQueued

\* A deferred job joins the queue.
LEMMA OrderQueue ==
  ASSUME TypeOK, OrderInv, Calm, QueueWrite
  PROVE  OrderInv'
<1> DEFINE P == Pending
           j == Head(spawned)
<1>1. /\ spawned # <<>> /\ phase = "up"
      /\ UNCHANGED <<mem, db, written, phase, job>>
      /\ spawned' = Tail(spawned) /\ queue' = Append(queue, j)
  BY DEF QueueWrite, OrderInv, NothingQueued, tables, history, working
<1>2. /\ Len(spawned) \in Nat \ {0} /\ DOMAIN spawned = 1..Len(spawned) /\ j = spawned[1]
      /\ j \in Job /\ Tail(spawned) \in Seq(Job) /\ Len(Tail(spawned)) = Len(spawned) - 1
      /\ \A i \in 1..(Len(spawned) - 1) : Tail(spawned)[i] = spawned[i + 1]
  BY <1>1, EmptySeq, LenProperties, HeadTailProperties DEF TypeOK
<1>3. j.row \in Deferred
  BY <1>2 DEF OrderInv, DeferredWait
<1>4. DeferredWait'
  <2>1. DOMAIN spawned' = 1..(Len(spawned) - 1)
    BY <1>1, <1>2, LenProperties
  <2>2. \A i \in DOMAIN spawned' : spawned'[i] = spawned[i + 1] /\ i + 1 \in DOMAIN spawned
    BY <1>1, <1>2, <2>1
  <2> QED BY <2>2 DEF OrderInv, DeferredWait
<1>5. Pending' = Append(P, j)
  <2> DEFINE a == IF job = None THEN <<>> ELSE <<job>>
  <2>1. a \in Seq(Job) /\ queue \in Seq(Job) /\ <<j>> \in Seq(Job)
    BY <1>2 DEF TypeOK
  <2>2. Append(queue, j) = queue \o <<j>> /\ Append(P, j) = P \o <<j>>
    BY <1>2, <2>1, PendingType, AppendIsConcat
  <2>3. Pending' = a \o Append(queue, j) /\ P = a \o queue
    BY <1>1 DEF Pending
  <2> QED BY <2>1, <2>2, <2>3, ConcatAssociative
<1>6. /\ Len(P) \in Nat /\ DOMAIN P = 1..Len(P)
      /\ DOMAIN Pending' = 1..(Len(P) + 1)
      /\ \A i \in 1..Len(P) : Pending'[i] = P[i]
      /\ Pending'[Len(P) + 1] = j
  BY <1>2, <1>5, PendingType, AppendProperties, LenProperties
<1> HIDE DEF P, j
<1>7. \A i \in DOMAIN Pending' : Pending'[i].row \notin Deferred =>
        i \in DOMAIN P /\ Pending'[i] = P[i]
  BY <1>3, <1>6
<1>8. \A i \in DOMAIN P : i \in DOMAIN Pending' /\ Pending'[i] = P[i]
  BY <1>6
<1>9. Numbered'
  BY <1>1, <1>7 DEF OrderInv, Numbered, P
<1>10. ASSUME NEW s \in Row \ Deferred PROVE InOrder(s)'
  <2>1. InOrder(s)
    BY <1>1 DEF OrderInv
  <2>2. OldestFirst(s)'
    BY <1>7, <1>10, <2>1 DEF InOrder, OldestFirst, P
  <2>3. NewerThanDb(s)'
    BY <1>1, <1>7, <1>10, <2>1 DEF InOrder, NewerThanDb, P
  <2>4. EndsAtMem(s)'
    BY <1>1, <1>7, <1>8, <1>10, <2>1 DEF InOrder, EndsAtMem, P
  <2> QED BY <2>2, <2>3, <2>4 DEF InOrder
<1> QED BY <1>1, <1>4, <1>9, <1>10 DEF OrderInv, NothingQueued

LEMMA OrderInit == Init => OrderInv
<1> SUFFICES ASSUME Init PROVE OrderInv
  OBVIOUS
<1>1. Pending = <<>> /\ spawned = <<>> /\ wal = <<>>
  BY DEF Init, Pending
<1>2. \A r \in Row : mem[r] = 0 /\ db[r] = 0
  BY DEF Init
<1> QED BY <1>1, <1>2 DEF Init, OrderInv, Numbered, DeferredWait, NothingQueued

\* Before the first fault or crash a step keeps the order, and no write of a row that is
\* not deferred is undone in the database.
LEMMA OrderNext ==
  ASSUME TypeOK, TypeOK', OrderInv, [Next]_vars
  PROVE  /\ OrderInv'
         /\ Calm => \A r \in Row \ Deferred : db'[r] >= db[r]
<1> SUFFICES ASSUME Calm
             PROVE  OrderInv' /\ \A r \in Row \ Deferred : db'[r] >= db[r]
  <2>1. faults \in Nat /\ crashes \in Nat
    BY WriteBehindAssumption DEF TypeOK
  <2>2. ~Calm => ~Calm'
    <3>1. faults' = faults \/ faults' = faults + 1
      BY DEF Next, vars, WorkerStep, ReplayWal, LoadTables, WriteRow, QueueWrite, WorkerWakes,
             WorkerStops, LogJob, LogFails, ExecuteJob, ExecuteFails, FailureSwallowed, BeginShutdown,
             Drained, Joined, JoinTimesOut, CloseWal, Crash, bounds
    <3>2. crashes' = crashes \/ crashes' = crashes + 1
      BY DEF Next, vars, WorkerStep, ReplayWal, LoadTables, WriteRow, QueueWrite, WorkerWakes,
             WorkerStops, LogJob, LogFails, ExecuteJob, ExecuteFails, FailureSwallowed, BeginShutdown,
             Drained, Joined, JoinTimesOut, CloseWal, Crash, bounds
    <3> QED BY <2>1, <3>1, <3>2 DEF Calm
  <2> QED BY <2>2 DEF OrderInv
<1> USE DEF tables, feeding, working, stopped, history, bounds
<1>0. \A r \in Row : db[r] \in Nat
  BY WriteBehindAssumption DEF TypeOK
<1>a. ASSUME db' = db PROVE \A r \in Row \ Deferred : db'[r] >= db[r]
  BY <1>0, <1>a
<1>1. CASE ReplayWal
  <2>1. /\ UNCHANGED <<mem, db, spawned, written, worker, job, closer>>
        /\ phase' = "loading" /\ queue' = Replayed
    BY <1>1 DEF ReplayWal
  <2>2. wal = <<>> /\ Pending = <<>> /\ spawned = <<>> /\ worker = "stopped" /\ closer = "none"
        /\ Numbered /\ DeferredWait
    BY <1>1 DEF ReplayWal, OrderInv, NothingQueued
  <2>3. job = None /\ queue' = <<>>
    BY <2>1, <2>2 DEF TypeOK, Replayed
  <2>4. Pending' = <<>>
    BY <2>1, <2>3 DEF Pending
  <2>5. Numbered' /\ DeferredWait' /\ NothingQueued'
    BY <2>1, <2>2, <2>4 DEF Numbered, DeferredWait, NothingQueued
  <2> QED BY <1>a, <2>1, <2>5 DEF OrderInv
<1>2. CASE LoadTables
  BY <1>2, <1>a, OrderLoad DEF LoadTables
<1>3. CASE \E r \in Row : WriteRow(r)
  BY <1>3, <1>a, OrderWrite DEF WriteRow
<1>4. CASE QueueWrite
  BY <1>4, <1>a, OrderQueue DEF QueueWrite
<1>5. CASE WorkerWakes
  <2>1. job = None /\ queue \in Seq(Job) /\ phase = "up"
    BY <1>5 DEF WorkerWakes, TypeOK
  <2>2. Pending' = queue
    BY <1>5, <2>1, TakeNextOK DEF WorkerWakes
  <2>3. Pending = queue
    BY <2>1, ConcatEmptySeq DEF Pending
  <2> QED BY <1>5, <1>a, <2>1, <2>2, <2>3, OrderKept DEF WorkerWakes
<1>6. CASE WorkerStops \/ LogJob
  <2>1. UNCHANGED <<mem, db, spawned, written, phase, queue, job>> /\ phase = "up"
    BY <1>6 DEF WorkerStops, LogJob, TypeOK
  <2> QED BY <1>a, <2>1, OrderKept DEF Pending
<1>7. CASE ExecuteJob
  <2>1. phase = "up"
    BY <1>7 DEF ExecuteJob, TypeOK
  <2> QED BY <1>7, <2>1, OrderExecute
<1>8. CASE BeginShutdown \/ Drained \/ Joined
  <2>1. UNCHANGED <<mem, db, spawned, written, phase, queue, job>> /\ phase = "up"
    BY <1>8 DEF BeginShutdown, Drained, Joined, OrderInv, NothingQueued
  <2> QED BY <1>a, <2>1, OrderKept DEF Pending
<1>9. CASE CloseWal
  <2>1. /\ spawned' = <<>> /\ queue' = <<>> /\ wal' = <<>> /\ job' = None
        /\ phase' = "down" /\ worker' = "stopped" /\ closer' = "none"
        /\ UNCHANGED <<mem, db, written>>
    BY <1>9 DEF CloseWal, ProcessEnds
  <2>2. Pending' = <<>>
    BY <2>1 DEF Pending
  <2>3. Numbered
    BY DEF OrderInv
  <2>4. Numbered' /\ DeferredWait' /\ NothingQueued'
    BY <2>1, <2>2, <2>3 DEF Numbered, DeferredWait, NothingQueued
  <2> QED BY <1>a, <2>1, <2>4 DEF OrderInv
<1>10. CASE LogFails \/ ExecuteFails \/ FailureSwallowed \/ Crash
  <2>1. db' = db /\ (faults' = faults + 1 \/ crashes' = crashes + 1)
    BY <1>10 DEF LogFails, ExecuteFails, FailureSwallowed, Crash
  <2>2. ~Calm'
    BY <2>1 DEF Calm
  <2> QED BY <1>a, <2>1, <2>2 DEF OrderInv
<1>11. CASE JoinTimesOut
  <2>1. ~Calm'
    BY <1>11 DEF JoinTimesOut, Calm
  <2>2. CASE db' = db
    BY <1>a, <2>1, <2>2 DEF OrderInv
  <2>3. CASE worker = "execute" /\ db' = [db EXCEPT ![job.row] = job.id]
    <3>1. phase = "up" /\ job \in Job /\ job.id \in Nat /\ job.row \in Row
      BY <2>3, WriteBehindAssumption DEF TypeOK, Job, Write
    <3>2. 1 \in DOMAIN Pending /\ Pending[1] = job
      <4>1. <<job>> \in Seq(Job) /\ Len(<<job>>) = 1 /\ <<job>>[1] = job /\ queue \in Seq(Job)
        BY <3>1 DEF TypeOK
      <4>2. Pending = <<job>> \o queue
        BY <2>3 DEF Pending, TypeOK
      <4>3. Len(queue) \in Nat
        BY <4>1, LenProperties
      <4> QED BY <4>1, <4>2, <4>3, ConcatProperties, LenProperties
    <3>3. job.row \notin Deferred => db[job.row] < job.id
      BY <3>1, <3>2 DEF OrderInv, InOrder, NewerThanDb
    <3>4. \A r \in Row : r # job.row => db'[r] = db[r]
      BY <2>3, <3>1 DEF TypeOK
    <3>5. db'[job.row] = job.id
      BY <2>3, <3>1 DEF TypeOK
    <3> QED BY <1>0, <2>1, <3>1, <3>3, <3>4, <3>5 DEF OrderInv
  <2> QED BY <1>11, <2>2, <2>3 DEF JoinTimesOut
<1>12. CASE UNCHANGED vars
  <2>1. UNCHANGED <<mem, db, spawned, written, phase, Pending, wal, worker, closer>>
    BY <1>12 DEF vars, Pending
  <2> QED BY <1>a, <2>1 DEF OrderInv, Numbered, DeferredWait, NothingQueued, InOrder, OldestFirst,
              NewerThanDb, EndsAtMem
<1> QED BY <1>1, <1>2, <1>3, <1>4, <1>5, <1>6, <1>7, <1>8, <1>9, <1>10, <1>11, <1>12
           DEF Next, WorkerStep

\* Until the first failed call or crash, the jobs pending for a row that is not deferred
\* are in the order of its writes, newer than the database, and end at what memory shows:
\* the worker leaves each such row as the newest write left it.
THEOREM WritesKeepOrder == Spec => []LastWriteWins
<1>1. OrderInv => LastWriteWins
  BY DEF OrderInv, Calm, InOrder, LastWriteWins
<1>2. TypeOK /\ OrderInv /\ [Next]_vars => OrderInv'
  BY TypeNext, OrderNext
<1> QED BY TypeInit, TypeNext, OrderInit, <1>1, <1>2, PTL DEF Spec

\* Until then the database never goes back to an older write of such a row.
THEOREM DatabaseMovesForward == Spec => DbMovesForward
<1>1. TypeOK /\ OrderInv /\ [Next]_vars
        => [faults = 0 /\ crashes = 0 => \A r \in Row \ Deferred : db'[r] >= db[r]]_vars
  BY TypeNext, OrderNext DEF Calm
<1>2. TypeOK /\ OrderInv /\ [Next]_vars => OrderInv'
  BY TypeNext, OrderNext
<1> QED BY TypeInit, TypeNext, OrderInit, <1>1, <1>2, PTL DEF Spec, DbMovesForward

-----------------------------------------------------------------------------
(* What became of the writes *)

\* How many jobs of a queue carry write n.
Places(s, n) == {i \in DOMAIN s : s[i].id = n}
Count(s, n) == Cardinality(Places(s, n))

\* What the queues of jobs count and name, as a job joins at the back or the front.
LEMMA CountType ==
  ASSUME NEW s \in Seq(Job), NEW n
  PROVE  /\ IsFiniteSet(Places(s, n)) /\ Count(s, n) \in Nat
         /\ Count(<<>>, n) = 0 /\ IdsOf(<<>>) = {}
<1>1. Len(s) \in Nat /\ DOMAIN s = 1..Len(s)
  BY LenProperties
<1>2. IsFiniteSet(DOMAIN s)
  BY <1>1, FS_Interval
<1>3. IsFiniteSet(Places(s, n))
  BY <1>2, FS_Subset DEF Places
<1>4. Places(<<>>, n) = {}
  BY DEF Places
<1>5. Cardinality(Places(s, n)) \in Nat
  BY <1>3, FS_CardinalityType
<1>6. Count(<<>>, n) = 0
  BY <1>4, FS_EmptySet DEF Count
<1>7. IdsOf(<<>>) = {}
  BY DEF IdsOf
<1> QED BY <1>3, <1>5, <1>6, <1>7 DEF Count

LEMMA CountAppend ==
  ASSUME NEW s \in Seq(Job), NEW j \in Job, NEW n
  PROVE  /\ Count(Append(s, j), n) = Count(s, n) + (IF j.id = n THEN 1 ELSE 0)
         /\ IdsOf(Append(s, j)) = IdsOf(s) \cup {j.id}
<1> DEFINE t == Append(s, j)
<1>1. /\ Len(s) \in Nat /\ DOMAIN s = 1..Len(s) /\ DOMAIN t = 1..(Len(s) + 1)
      /\ \A i \in 1..Len(s) : t[i] = s[i]
      /\ t[Len(s) + 1] = j
  BY AppendProperties, LenProperties
<1> HIDE DEF t
<1>2. Len(s) + 1 \notin Places(s, n)
  BY <1>1 DEF Places
<1>3. Places(t, n) = IF j.id = n THEN Places(s, n) \cup {Len(s) + 1} ELSE Places(s, n)
  BY <1>1 DEF Places
<1>4. Count(t, n) = Count(s, n) + (IF j.id = n THEN 1 ELSE 0)
  <2>1. IsFiniteSet(Places(s, n)) /\ Count(s, n) \in Nat
    BY CountType
  <2>2. Cardinality(Places(s, n) \cup {Len(s) + 1}) = Count(s, n) + 1
    BY <1>2, <2>1, FS_AddElement DEF Count
  <2>3. CASE j.id = n
    BY <1>3, <2>2, <2>3 DEF Count
  <2>4. CASE j.id # n
    BY <1>3, <2>1, <2>4 DEF Count
  <2> QED BY <2>3, <2>4
<1>5. IdsOf(t) = IdsOf(s) \cup {j.id}
  <2>1. IdsOf(t) \subseteq IdsOf(s) \cup {j.id}
    BY <1>1 DEF IdsOf
  <2>2. IdsOf(s) \subseteq IdsOf(t)
    BY <1>1 DEF IdsOf
  <2>3. j.id \in IdsOf(t)
    BY <1>1 DEF IdsOf
  <2> QED BY <2>1, <2>2, <2>3
<1> QED BY <1>4, <1>5 DEF t

LEMMA CountCons ==
  ASSUME NEW s \in Seq(Job), NEW j \in Job, NEW n
  PROVE  /\ Count(<<j>> \o s, n) = Count(s, n) + (IF j.id = n THEN 1 ELSE 0)
         /\ IdsOf(<<j>> \o s) = IdsOf(s) \cup {j.id}
<1> DEFINE t == <<j>> \o s
           moved == {i + 1 : i \in Places(s, n)}
<1>1. /\ Len(s) \in Nat /\ DOMAIN s = 1..Len(s) /\ DOMAIN t = 1..(Len(s) + 1)
      /\ t[1] = j /\ \A i \in 1..Len(s) : t[i + 1] = s[i]
  <2>1. <<j>> \in Seq(Job) /\ Len(<<j>>) = 1 /\ <<j>>[1] = j
    OBVIOUS
  <2>2. t \in Seq(Job) /\ Len(t) = 1 + Len(s)
    BY <2>1, ConcatProperties
  <2>3. Len(s) \in Nat /\ DOMAIN s = 1..Len(s) /\ DOMAIN t = 1..(Len(s) + 1)
    BY <2>2, LenProperties
  <2>4. t[1] = j /\ \A i \in 1..Len(s) : t[i + 1] = s[i]
    BY <2>1, <2>3, ConcatProperties
  <2> QED BY <2>3, <2>4
<1> HIDE DEF t
<1>2. IsFiniteSet(moved) /\ Cardinality(moved) = Count(s, n)
  <2> DEFINE f == [i \in Places(s, n) |-> i + 1]
  <2>1. f \in Bijection(Places(s, n), moved)
    <3>1. Places(s, n) \subseteq Int
      BY <1>1 DEF Places
    <3>2. f \in [Places(s, n) -> moved]
      OBVIOUS
    <3>3. \A a, b \in Places(s, n) : f[a] = f[b] => a = b
      BY <3>1
    <3>4. \A y \in moved : \E a \in Places(s, n) : f[a] = y
      OBVIOUS
    <3> HIDE DEF f, moved
    <3>5. f \in Injection(Places(s, n), moved)
      BY <3>2, <3>3 DEF Injection, IsInjective
    <3>6. f \in Surjection(Places(s, n), moved)
      BY <3>2, <3>4 DEF Surjection
    <3> QED BY <3>5, <3>6 DEF Bijection
  <2> HIDE DEF f, moved
  <2> QED BY <2>1, CountType, FS_Bijection DEF ExistsBijection, Count
<1>3. 1 \notin moved
  BY <1>1 DEF Places
<1>4. Places(t, n) = IF j.id = n THEN moved \cup {1} ELSE moved
  <2>1. ASSUME NEW i \in Places(t, n) PROVE (i = 1 /\ j.id = n) \/ i \in moved
    <3>1. i \in 1..(Len(s) + 1) /\ t[i].id = n
      BY <1>1, <2>1 DEF Places
    <3>2. i # 1 => i - 1 \in Places(s, n) /\ i = (i - 1) + 1
      BY <1>1, <3>1 DEF Places
    <3> QED BY <1>1, <3>1, <3>2
  <2>2. moved \subseteq Places(t, n)
    BY <1>1 DEF Places
  <2>3. 1 \in Places(t, n) <=> j.id = n
    BY <1>1 DEF Places
  <2> HIDE DEF moved
  <2> QED BY <1>3, <2>1, <2>2, <2>3
<1>5. Count(t, n) = Count(s, n) + (IF j.id = n THEN 1 ELSE 0)
  <2> HIDE DEF moved
  <2>1. Count(s, n) \in Nat
    BY CountType
  <2>2. Cardinality(moved \cup {1}) = Count(s, n) + 1
    BY <1>2, <1>3, FS_AddElement
  <2>3. CASE j.id = n
    BY <1>4, <2>2, <2>3 DEF Count
  <2>4. CASE j.id # n
    BY <1>2, <1>4, <2>1, <2>4 DEF Count
  <2> QED BY <2>3, <2>4
<1>6. IdsOf(t) = IdsOf(s) \cup {j.id}
  <2>1. ASSUME NEW i \in DOMAIN t PROVE t[i].id \in IdsOf(s) \cup {j.id}
    <3>1. i # 1 => i - 1 \in DOMAIN s /\ t[i] = s[i - 1]
      BY <1>1, <2>1
    <3> QED BY <1>1, <2>1, <3>1 DEF IdsOf
  <2>2. \A i \in DOMAIN s : i + 1 \in DOMAIN t /\ t[i + 1] = s[i]
    BY <1>1
  <2>3. 1 \in DOMAIN t /\ t[1] = j
    BY <1>1
  <2>4. IdsOf(s) \subseteq IdsOf(t) /\ j.id \in IdsOf(t)
    BY <2>2, <2>3 DEF IdsOf
  <2>5. IdsOf(t) \subseteq IdsOf(s) \cup {j.id}
    BY <2>1 DEF IdsOf
  <2> QED BY <2>4, <2>5
<1> QED BY <1>5, <1>6 DEF t

\* What is pending grows at the back of the queue.
LEMMA PendingGrows ==
  ASSUME TypeOK, NEW j \in Job, queue' = Append(queue, j), job' = job
  PROVE  Pending' = Append(Pending, j)
<1> DEFINE a == IF job = None THEN <<>> ELSE <<job>>
<1>1. a \in Seq(Job) /\ queue \in Seq(Job) /\ <<j>> \in Seq(Job)
  BY DEF TypeOK
<1>2. Append(queue, j) = queue \o <<j>> /\ Append(Pending, j) = Pending \o <<j>>
  BY <1>1, PendingType, AppendIsConcat
<1>3. Pending' = a \o Append(queue, j) /\ Pending = a \o queue
  BY DEF Pending
<1> QED BY <1>1, <1>2, <1>3, ConcatAssociative

\* The replayed jobs carry the writes of the log.
LEMMA ReplayedIds ==
  ASSUME TypeOK
  PROVE  IdsOf(Replayed) = IdsOf(wal)
<1>1. Len(wal) \in Nat /\ DOMAIN wal = 1..Len(wal) /\ \A i \in 1..Len(wal) : wal[i] \in Job
  BY LenProperties DEF TypeOK
<1>2. \A i \in DOMAIN wal : Fresh(wal[i]).id = wal[i].id
  BY <1>1 DEF Fresh, Job
<1>3. DOMAIN Replayed = DOMAIN wal /\ \A i \in DOMAIN wal : Replayed[i] = Fresh(wal[i])
  BY DEF Replayed
<1> QED BY <1>2, <1>3 DEF IdsOf

\* What makes WritesAreAccounted inductive.  Jobs are only of writes that were made, and a
\* failure is swallowed, or else kept, as the method of its write has it.  Until the process
\* is shut down or crashes, every number handed out is at one place and no other is
\* anywhere; before the first crash the log keeps what was written to it, and nothing was
\* logged before the process ran.
Issued == 1..written
Known == IdsOf(spawned) \cup IdsOf(Pending) \cup IdsOf(wal)
KnownInv ==
  /\ Known \subseteq Issued
  /\ catching \subseteq Issued /\ swallowed \subseteq catching
  /\ dead \subseteq Issued \ catching
Occurrences(n) ==
  Count(spawned, n) + Count(Pending, n) + executed[n] + (IF n \in GivenUp THEN 1 ELSE 0)
Unlocked == closer = "none" /\ (phase = "down" => spawned = <<>> /\ queue = <<>>)
AccountInv ==
  crashes = 0 /\ shutdowns = 0 =>
    /\ Unlocked
    /\ phase = "down" => wal = <<>>
    /\ \A n \in Write : Occurrences(n) = IF n <= written THEN 1 ELSE 0
LogKept == crashes = 0 => logged \subseteq IdsOf(wal) /\ (phase = "down" => logged = {})
Held == Executed \cup GivenUp \cup IdsOf(Pending) \cup IdsOf(wal)
RecoverInv ==
  crashes <= 1 /\ shutdowns = 0 => Unlocked /\ LogKept /\ logged \subseteq Held

\* Crashes and shutdowns are only counted up, and a shutdown is what moves closer.
LEMMA EndsCounted ==
  ASSUME TypeOK, [Next]_vars
  PROVE  /\ crashes \in Nat /\ shutdowns \in Nat
         /\ (crashes' = crashes /\ ~Crash) \/ (crashes' = crashes + 1 /\ Crash)
         /\ (shutdowns' = shutdowns /\ ~BeginShutdown)
              \/ (shutdowns' = shutdowns + 1 /\ BeginShutdown)
<1>1. /\ crashes \in Nat /\ shutdowns \in Nat
  BY WriteBehindAssumption DEF TypeOK
<1>2. crashes' = crashes \/ Crash
  BY DEF Next, vars, WorkerStep, ReplayWal, LoadTables, WriteRow, QueueWrite, WorkerWakes,
         WorkerStops, LogJob, LogFails, ExecuteJob, ExecuteFails, FailureSwallowed, BeginShutdown,
         Drained, Joined, JoinTimesOut, CloseWal, bounds
<1>3. shutdowns' = shutdowns \/ BeginShutdown
  BY DEF Next, vars, WorkerStep, ReplayWal, LoadTables, WriteRow, QueueWrite, WorkerWakes,
         WorkerStops, LogJob, LogFails, ExecuteJob, ExecuteFails, FailureSwallowed, Drained,
         Joined, JoinTimesOut, CloseWal, Crash, bounds
<1>4. (Crash => crashes' = crashes + 1) /\ (BeginShutdown => shutdowns' = shutdowns + 1)
  BY DEF Crash, BeginShutdown
<1> QED BY <1>1, <1>2, <1>3, <1>4

\* The job in work is the first of what is pending.
LEMMA JobIsFirst ==
  ASSUME TypeOK, job \in Job
  PROVE  /\ Pending = <<job>> \o queue /\ queue \in Seq(Job) /\ job.id \in Write
         /\ IdsOf(Pending) = IdsOf(queue) \cup {job.id}
         /\ \A n : /\ Count(Pending, n) = Count(queue, n) + (IF job.id = n THEN 1 ELSE 0)
                   /\ Count(queue, n) \in Nat
<1>1. job # None /\ job.id \in Write /\ queue \in Seq(Job)
  BY WriteBehindAssumption DEF Job, Write, TypeOK
<1>2. Pending = <<job>> \o queue
  BY <1>1 DEF Pending
<1>3. IdsOf(Pending) = IdsOf(queue) \cup {job.id}
  BY <1>1, <1>2, CountCons
<1>4. ASSUME NEW n
      PROVE  /\ Count(Pending, n) = Count(queue, n) + (IF job.id = n THEN 1 ELSE 0)
             /\ Count(queue, n) \in Nat
  BY <1>1, <1>2, CountCons, CountType
<1> QED BY <1>1, <1>2, <1>3, <1>4

\* A failed job goes to the dead-letter file, or to the back of the queue as the same write.
LEMMA FailedJob ==
  ASSUME TypeOK, ExecuteFails
  PROVE  /\ job \in Job
         /\ \/ /\ dead' = dead \cup {job.id} /\ Pending' = queue
            \/ /\ dead' = dead
               /\ IdsOf(Pending') = IdsOf(queue) \cup {job.id}
               /\ \A n : Count(Pending', n) = Count(queue, n) + (IF job.id = n THEN 1 ELSE 0)
<1>1. job \in Job /\ queue \in Seq(Job)
  BY DEF ExecuteFails, TypeOK
<1>2. CASE GivesUp(job)
  <2>1. TakeNext(queue) /\ dead' = dead \cup {job.id}
    BY <1>2 DEF ExecuteFails
  <2> QED BY <1>1, <2>1, TakeNextOK
<1>3. CASE ~GivesUp(job)
  <2> DEFINE j == [job EXCEPT !.tries = @ + 1]
             q == Append(queue, j)
  <2>1. j \in Job /\ j.id = job.id
    <3>1. job.tries \in 0..MaxRetries /\ job.tries < MaxRetries
      BY <1>1, <1>3, WriteBehindAssumption DEF GivesUp, Job
    <3> QED BY <1>1, <3>1, WriteBehindAssumption DEF Job
  <2>2. TakeNext(q) /\ dead' = dead
    BY <1>3 DEF ExecuteFails, Requeued
  <2> HIDE DEF j
  <2>3. q \in Seq(Job)
    BY <1>1, <2>1, AppendProperties
  <2>4. Pending' = q
    <3> HIDE DEF q
    <3> QED BY <2>2, <2>3, TakeNextOK
  <2>5. IdsOf(q) = IdsOf(queue) \cup {job.id}
    BY <1>1, <2>1, CountAppend
  <2>6. ASSUME NEW n
        PROVE  Count(q, n) = Count(queue, n) + (IF job.id = n THEN 1 ELSE 0)
    BY <1>1, <2>1, CountAppend
  <2> HIDE DEF q
  <2> QED BY <1>1, <2>2, <2>4, <2>5, <2>6
<1> QED BY <1>2, <1>3

\* No step but a new write adds to the writes there are jobs of.
LEMMA KnownKept ==
  ASSUME KnownInv, Known' \subseteq Known, UNCHANGED <<written, dead, catching, swallowed>>
  PROVE  KnownInv'
BY DEF KnownInv, Issued

LEMMA KnownNext ==
  ASSUME TypeOK, KnownInv, [Next]_vars
  PROVE  KnownInv'
<1> USE DEF tables, feeding, working, stopped, history, bounds
<1>0. /\ spawned \in Seq(Job) /\ queue \in Seq(Job) /\ wal \in Seq(Job) /\ Pending \in Seq(Job)
      /\ IdsOf(<<>>) = {}
  <2>1. IdsOf(<<>>) = {}
    BY DEF IdsOf
  <2> QED BY <2>1, PendingType DEF TypeOK
<1>1. CASE ReplayWal
  <2>1. job = None /\ job' = None /\ queue' = Replayed /\ wal' = <<>> /\ spawned' = spawned
    BY <1>1 DEF ReplayWal, TypeOK
  <2>2. Pending' = Replayed
    BY <2>1, ReplayedType, ConcatEmptySeq DEF Pending
  <2>3. Known' \subseteq Known
    BY <1>0, <2>1, <2>2, ReplayedIds DEF Known
  <2> QED BY <1>1, <2>3, KnownKept DEF ReplayWal
<1>2. CASE LoadTables \/ WorkerStops \/ LogFails \/ BeginShutdown \/ Drained \/ Joined
  <2>1. UNCHANGED <<spawned, queue, job, wal, written, dead, catching, swallowed>>
    BY <1>2 DEF LoadTables, WorkerStops, LogFails, BeginShutdown, Drained, Joined
  <2>2. Known' = Known
    BY <2>1 DEF Known, Pending
  <2> QED BY <2>1, <2>2, KnownKept
<1>3. ASSUME NEW r \in Row, WriteRow(r) PROVE KnownInv'
  <2> DEFINE j == NewJob(r)
  <2>1. /\ written \in Nat /\ written' = written + 1 /\ j \in Job /\ j.id = written + 1
        /\ UNCHANGED <<dead, swallowed, job, wal>>
        /\ catching \subseteq catching' /\ catching' \subseteq catching \cup {written + 1}
    <3>1. written < MaxWrites /\ written' = written + 1 /\ UNCHANGED <<dead, swallowed, job, wal>>
      BY <1>3 DEF WriteRow
    <3>2. catching' = catching \/ catching' = catching \cup {written + 1}
      BY <1>3 DEF WriteRow
    <3>3. written \in Nat /\ j \in Job /\ j.id = written + 1
      BY <3>1, NewJobType, WriteBehindAssumption DEF TypeOK
    <3> QED BY <3>1, <3>2, <3>3
  <2>2. \/ spawned' = Append(spawned, j) /\ queue' = queue
        \/ spawned' = spawned /\ queue' = Append(queue, j)
    BY <1>3 DEF WriteRow
  <2> HIDE DEF j
  <2>3. \/ spawned' = Append(spawned, j) /\ Pending' = Pending
        \/ spawned' = spawned /\ Pending' = Append(Pending, j)
    <3>1. CASE spawned' = Append(spawned, j) /\ queue' = queue
      BY <2>1, <3>1 DEF Pending
    <3>2. CASE spawned' = spawned /\ queue' = Append(queue, j)
      BY <2>1, <3>2, PendingGrows
    <3> QED BY <2>2, <3>1, <3>2
  <2>4. /\ IdsOf(Append(spawned, j)) = IdsOf(spawned) \cup {j.id}
        /\ IdsOf(Append(Pending, j)) = IdsOf(Pending) \cup {j.id}
    BY <1>0, <2>1, CountAppend
  <2>5. Known' \subseteq Known \cup {written + 1}
    BY <2>1, <2>3, <2>4 DEF Known
  <2>6. Issued' = Issued \cup {written + 1} /\ written + 1 \notin Issued
    BY <2>1 DEF Issued
  <2> QED BY <2>1, <2>5, <2>6 DEF KnownInv
<1>4. CASE QueueWrite
  <2> DEFINE j == Head(spawned)
  <2>1. /\ spawned # <<>> /\ spawned' = Tail(spawned) /\ queue' = Append(queue, j)
        /\ UNCHANGED <<job, wal, written, dead, catching, swallowed>>
    BY <1>4 DEF QueueWrite
  <2>2. j \in Job /\ Tail(spawned) \in Seq(Job) /\ spawned = <<j>> \o Tail(spawned)
    BY <1>0, <2>1, HeadThenTail
  <2> HIDE DEF j
  <2>3. Pending' = Append(Pending, j)
    BY <2>1, <2>2, PendingGrows
  <2>4. IdsOf(<<j>> \o Tail(spawned)) = IdsOf(Tail(spawned)) \cup {j.id}
    BY <2>2, CountCons
  <2>5. IdsOf(Append(Pending, j)) = IdsOf(Pending) \cup {j.id}
    BY <1>0, <2>2, CountAppend
  <2>6. Known' \subseteq Known
    BY <2>1, <2>2, <2>3, <2>4, <2>5 DEF Known
  <2> QED BY <2>1, <2>6, KnownKept
<1>5. CASE WorkerWakes
  <2>1. Pending' = queue /\ Pending = queue
    BY <1>0, <1>5, TakeNextOK, ConcatEmptySeq DEF WorkerWakes, Pending, TypeOK
  <2>2. Known' = Known
    BY <1>5, <2>1 DEF WorkerWakes, Known
  <2> QED BY <1>5, <2>2, KnownKept DEF WorkerWakes
<1>6. CASE LogJob
  <2>1. /\ job \in Job /\ wal' = Append(wal, job)
        /\ UNCHANGED <<spawned, queue, job, written, dead, catching, swallowed>>
    BY <1>6 DEF LogJob, TypeOK
  <2>2. Pending' = Pending /\ job.id \in IdsOf(Pending)
    BY <2>1, JobIsFirst DEF Pending
  <2>3. IdsOf(wal') = IdsOf(wal) \cup {job.id}
    BY <1>0, <2>1, CountAppend
  <2>4. Known' \subseteq Known
    BY <2>1, <2>2, <2>3 DEF Known
  <2> QED BY <2>1, <2>4, KnownKept
<1>7. CASE ExecuteJob
  <2>1. /\ TakeNext(queue) /\ job \in Job
        /\ UNCHANGED <<spawned, wal, written, dead, catching, swallowed>>
    BY <1>7 DEF ExecuteJob, TypeOK
  <2>2. Known' \subseteq Known
    BY <1>0, <2>1, TakeNextOK, JobIsFirst DEF Known
  <2> QED BY <2>1, <2>2, KnownKept
<1>8. CASE ExecuteFails
  <2>1. /\ job.id \notin catching
        /\ UNCHANGED <<spawned, wal, written, catching, swallowed>>
    BY <1>8 DEF ExecuteFails
  <2>2. /\ dead' \subseteq dead \cup {job.id} /\ IdsOf(Pending') \subseteq IdsOf(Pending)
        /\ job.id \in IdsOf(Pending)
    BY <1>8, FailedJob, JobIsFirst
  <2>3. Known' \subseteq Known /\ job.id \in Known
    BY <2>1, <2>2 DEF Known
  <2> QED BY <2>1, <2>2, <2>3 DEF KnownInv, Issued
<1>9. CASE FailureSwallowed
  <2>1. /\ TakeNext(queue) /\ job \in Job /\ job.id \in catching
        /\ swallowed' = swallowed \cup {job.id}
        /\ UNCHANGED <<spawned, wal, written, dead, catching>>
    BY <1>9 DEF FailureSwallowed, TypeOK
  <2>2. Known' \subseteq Known
    BY <1>0, <2>1, TakeNextOK, JobIsFirst DEF Known
  <2> QED BY <2>1, <2>2 DEF KnownInv, Issued
<1>10. CASE JoinTimesOut
  <2>1. /\ job' = None /\ UNCHANGED <<spawned, queue, wal, written, dead, catching, swallowed>>
        /\ job \in Job
    BY <1>10 DEF JoinTimesOut, TypeOK
  <2>2. Pending' = queue
    BY <1>0, <2>1, ConcatEmptySeq DEF Pending
  <2>3. Known' \subseteq Known
    BY <2>1, <2>2, JobIsFirst DEF Known
  <2> QED BY <2>1, <2>3, KnownKept
<1>11. CASE CloseWal \/ Crash
  <2>1. /\ ProcessEnds /\ wal' \in {wal, <<>>}
        /\ UNCHANGED <<written, dead, catching, swallowed>>
    BY <1>11 DEF CloseWal, Crash
  <2>2. Pending' = <<>> /\ spawned' = <<>>
    BY <2>1, ConcatEmptySeq DEF ProcessEnds, Pending
  <2>3. Known' \subseteq Known
    BY <1>0, <2>1, <2>2 DEF Known
  <2> QED BY <2>1, <2>3, KnownKept
<1>12. CASE UNCHANGED vars
  <2>1. Known' = Known
    BY <1>12 DEF vars, Known, Pending
  <2> QED BY <1>12, <2>1, KnownKept DEF vars
<1> QED BY <1>1, <1>2, <1>3, <1>4, <1>5, <1>6, <1>7, <1>8, <1>9, <1>10, <1>11, <1>12
        DEF Next, WorkerStep

\* What was given up is what the dead-letter file has and what was swallowed, and a step
\* that touches neither leaves it so.
LEMMA GivenUpIs ==
  ASSUME TypeOK, KnownInv, [Next]_vars
  PROVE  GivenUp = dead \cup swallowed /\ GivenUp' = dead' \cup swallowed'
<1>1. KnownInv'
  BY KnownNext
<1> QED BY <1>1 DEF KnownInv, GivenUp

\* An action that moves no job between the places.
LEMMA AccountKept ==
  ASSUME AccountInv, Unlocked', phase' = "down" => phase = "down" /\ wal' = wal,
         crashes' = crashes, shutdowns' = shutdowns,
         UNCHANGED <<spawned, written, executed>>, GivenUp' = GivenUp, Pending' = Pending
  PROVE  AccountInv'
BY DEF AccountInv, Occurrences

LEMMA AccountInit == Init => KnownInv /\ AccountInv /\ RecoverInv
<1> SUFFICES ASSUME Init PROVE KnownInv /\ AccountInv /\ RecoverInv
  OBVIOUS
<1>1. /\ Pending = <<>> /\ spawned = <<>> /\ queue = <<>> /\ wal = <<>> /\ closer = "none"
      /\ written = 0 /\ logged = {} /\ \A n \in Write : executed[n] = 0
      /\ dead = {} /\ catching = {} /\ swallowed = {} /\ GivenUp = {}
  BY DEF Init, Pending, GivenUp
<1>2. ASSUME NEW n \in Write PROVE Occurrences(n) = 0 /\ ~(n <= written)
  <2>1. <<>> \in Seq(Job)
    OBVIOUS
  <2>2. Count(<<>>, n) = 0
    BY <2>1, CountType
  <2> QED BY <2>2, <1>1, <2>1, WriteBehindAssumption DEF Occurrences, Write
<1>3. Unlocked
  BY <1>1 DEF Unlocked
<1>4. IdsOf(<<>>) = {}
  BY DEF IdsOf
<1>5. KnownInv
  BY <1>1, <1>4 DEF KnownInv, Known
<1> QED BY <1>1, <1>2, <1>3, <1>5 DEF AccountInv, RecoverInv, LogKept

\* Until the first crash or shutdown every step leaves every write at one place.
LEMMA AccountNext ==
  ASSUME TypeOK, KnownInv, AccountInv, [Next]_vars
  PROVE  AccountInv'
<1> SUFFICES ASSUME crashes = 0, shutdowns = 0, crashes' = 0, shutdowns' = 0
             PROVE  AccountInv'
  BY EndsCounted DEF AccountInv
<1> USE DEF tables, feeding, working, stopped, history, bounds
<1>0. /\ Unlocked /\ ~Crash /\ ~BeginShutdown
      /\ \A n \in Write : Occurrences(n) = IF n <= written THEN 1 ELSE 0
  BY EndsCounted DEF AccountInv
<1>g. GivenUp = dead \cup swallowed /\ GivenUp' = dead' \cup swallowed'
  BY GivenUpIs
<1>1. \A n \in Write : /\ executed[n] \in Nat /\ Count(spawned, n) \in Nat
                       /\ Count(Pending, n) \in Nat
  <2>1. spawned \in Seq(Job) /\ Pending \in Seq(Job)
    BY PendingType DEF TypeOK
  <2> QED BY <2>1, CountType DEF TypeOK
<1>2. CASE ReplayWal
  <2>1. wal = <<>> /\ queue = <<>> /\ spawned = <<>>
    BY <1>0, <1>2 DEF ReplayWal, AccountInv, Unlocked
  <2>2. queue' = <<>> /\ wal' = <<>> /\ UNCHANGED <<spawned, job, closer>> /\ phase' = "loading"
    BY <1>2, <2>1 DEF ReplayWal, Replayed
  <2>3. Pending' = Pending
    BY <2>1, <2>2 DEF Pending
  <2>4. Unlocked'
    BY <1>0, <2>1, <2>2 DEF Unlocked
  <2> QED BY <1>2, <1>g, <2>2, <2>3, <2>4, AccountKept DEF ReplayWal
<1>3. CASE LoadTables
  <2>1. Pending' = Pending /\ Unlocked'
    BY <1>0, <1>3 DEF LoadTables, Pending, Unlocked
  <2> QED BY <1>3, <1>g, <2>1, AccountKept DEF LoadTables
<1>4. ASSUME NEW r \in Row, WriteRow(r) PROVE AccountInv'
  <2> DEFINE j == NewJob(r)
  <2>1. /\ written \in Nat /\ written < MaxWrites /\ written' = written + 1
        /\ j \in Job /\ j.id = written + 1
        /\ spawned \in Seq(Job) /\ Pending \in Seq(Job)
    BY <1>4, NewJobType, PendingType, WriteBehindAssumption DEF WriteRow, TypeOK
  <2>2. UNCHANGED <<executed, GivenUp, job, closer, phase, wal>> /\ phase = "up"
    BY <1>4, <1>g DEF WriteRow
  <2>3. \/ spawned' = Append(spawned, j) /\ Pending' = Pending
        \/ spawned' = spawned /\ Pending' = Append(Pending, j)
    <3>1. CASE r \in Deferred
      <4>1. spawned' = Append(spawned, j) /\ queue' = queue
        BY <1>4, <3>1 DEF WriteRow
      <4> QED BY <2>2, <4>1 DEF Pending
    <3>2. CASE r \notin Deferred
      <4>1. queue' = Append(queue, j) /\ spawned' = spawned
        BY <1>4, <3>2 DEF WriteRow
      <4> HIDE DEF j
      <4> QED BY <2>1, <2>2, <4>1, PendingGrows
    <3> QED BY <3>1, <3>2
  <2> HIDE DEF j
  <2>4. ASSUME NEW n \in Write
        PROVE  Occurrences(n)' = Occurrences(n) + (IF n = written + 1 THEN 1 ELSE 0)
    <3>1. /\ Count(Append(spawned, j), n) = Count(spawned, n) + (IF j.id = n THEN 1 ELSE 0)
          /\ Count(Append(Pending, j), n) = Count(Pending, n) + (IF j.id = n THEN 1 ELSE 0)
      BY <2>1, CountAppend
    <3>2. Count(spawned, n) \in Nat /\ Count(Pending, n) \in Nat /\ executed[n] \in Nat
      BY <1>1
    <3>3. executed' = executed /\ GivenUp' = GivenUp
      BY <2>2
    <3>4. CASE spawned' = Append(spawned, j) /\ Pending' = Pending
      BY <2>1, <3>1, <3>2, <3>3, <3>4 DEF Occurrences
    <3>5. CASE spawned' = spawned /\ Pending' = Append(Pending, j)
      BY <2>1, <3>1, <3>2, <3>3, <3>5 DEF Occurrences
    <3> QED BY <2>3, <3>4, <3>5
  <2>5. \A n \in Write : Occurrences(n)' = IF n <= written' THEN 1 ELSE 0
    <3>1. \A n \in Write : n \in Nat
      BY WriteBehindAssumption DEF Write
    <3> QED BY <1>0, <2>1, <2>4, <3>1
  <2>6. Unlocked'
    BY <1>0, <2>2 DEF Unlocked
  <2> QED BY <2>2, <2>5, <2>6 DEF AccountInv
<1>5. CASE QueueWrite
  <2> DEFINE j == Head(spawned)
  <2>1. /\ spawned # <<>> /\ spawned' = Tail(spawned) /\ queue' = Append(queue, j)
        /\ UNCHANGED <<executed, GivenUp, written, job, closer, phase, wal>>
    BY <1>5, <1>g DEF QueueWrite
  <2>2. /\ j \in Job /\ Tail(spawned) \in Seq(Job) /\ spawned = <<j>> \o Tail(spawned)
        /\ Pending \in Seq(Job)
    BY <2>1, HeadThenTail, PendingType DEF TypeOK
  <2> HIDE DEF j
  <2>3. Pending' = Append(Pending, j)
    BY <2>1, <2>2, PendingGrows
  <2>4. ASSUME NEW n \in Write PROVE Occurrences(n)' = Occurrences(n)
    <3>1. Count(<<j>> \o Tail(spawned), n)
            = Count(Tail(spawned), n) + (IF j.id = n THEN 1 ELSE 0)
      BY <2>2, CountCons
    <3>2. Count(spawned, n) = Count(spawned', n) + (IF j.id = n THEN 1 ELSE 0)
      BY <2>1, <2>2, <3>1
    <3>3. Count(Append(Pending, j), n) = Count(Pending, n) + (IF j.id = n THEN 1 ELSE 0)
      BY <2>2, CountAppend
    <3>4. Count(spawned', n) \in Nat
      BY <2>1, <2>2, CountType
    <3>5. Count(Pending, n) \in Nat /\ executed[n] \in Nat
      BY <1>1
    <3> QED BY <2>1, <2>3, <3>2, <3>3, <3>4, <3>5 DEF Occurrences
  <2>5. phase # "down" /\ Unlocked'
    BY <1>0, <2>1 DEF Unlocked
  <2> QED BY <1>0, <2>1, <2>4, <2>5 DEF AccountInv
<1>6. CASE WorkerWakes
  <2>1. job = None /\ queue \in Seq(Job) /\ phase = "up"
    BY <1>6 DEF WorkerWakes, TypeOK
  <2>2. Pending' = queue /\ Pending = queue
    BY <1>6, <2>1, TakeNextOK, ConcatEmptySeq DEF WorkerWakes, Pending
  <2>3. Unlocked'
    BY <1>0, <1>6, <2>1 DEF WorkerWakes, Unlocked
  <2> QED BY <1>6, <1>g, <2>1, <2>2, <2>3, AccountKept DEF WorkerWakes
<1>7. CASE WorkerStops \/ LogJob \/ LogFails
  <2>1. /\ UNCHANGED <<spawned, queue, job, phase, closer, written, executed, GivenUp>>
        /\ phase = "up"
    BY <1>7, <1>g DEF WorkerStops, LogJob, LogFails, TypeOK
  <2>2. Pending' = Pending /\ Unlocked'
    BY <1>0, <2>1 DEF Pending, Unlocked
  <2> QED BY <2>1, <2>2, AccountKept
<1>8. CASE ExecuteJob
  <2>1. job \in Job /\ phase = "up"
    BY <1>8 DEF ExecuteJob, TypeOK
  <2>2. /\ UNCHANGED <<spawned, written, GivenUp, phase, closer>> /\ TakeNext(queue)
        /\ executed' = [executed EXCEPT ![job.id] = @ + 1]
    BY <1>8, <1>g DEF ExecuteJob
  <2>3. Pending' = queue
    BY <2>2, TakeNextOK DEF TypeOK
  <2>4. ASSUME NEW n \in Write PROVE Occurrences(n)' = Occurrences(n)
    <3>1. /\ Count(Pending, n) = Count(queue, n) + (IF job.id = n THEN 1 ELSE 0)
          /\ Count(queue, n) \in Nat
      BY <2>1, JobIsFirst
    <3>2. executed'[n] = executed[n] + (IF job.id = n THEN 1 ELSE 0)
      BY <1>1, <2>2 DEF TypeOK
    <3>3. Count(spawned, n) \in Nat /\ executed[n] \in Nat
      BY <1>1
    <3> QED BY <2>2, <2>3, <3>1, <3>2, <3>3 DEF Occurrences
  <2>5. Unlocked'
    BY <1>0, <2>1, <2>2 DEF Unlocked
  <2> QED BY <1>0, <2>1, <2>2, <2>4, <2>5 DEF AccountInv
<1>9. CASE ExecuteFails
  <2>1. /\ phase = "up"
        /\ UNCHANGED <<spawned, written, executed, swallowed, phase, closer>>
    BY <1>9 DEF ExecuteFails, TypeOK
  <2>2. ASSUME NEW n \in Write PROVE Occurrences(n)' = Occurrences(n)
    <3>1. /\ Count(Pending, n) = Count(queue, n) + (IF job.id = n THEN 1 ELSE 0)
          /\ Count(queue, n) \in Nat
      BY <1>9, FailedJob, JobIsFirst
    <3>2. Count(spawned, n) \in Nat /\ executed[n] \in Nat
      BY <1>1
    <3>3. CASE dead' = dead \cup {job.id} /\ Pending' = queue
      <4>1. Occurrences(n) = 0 \/ Occurrences(n) = 1
        BY <1>0
      <4>2. n = job.id => n \notin GivenUp
        BY <3>1, <3>2, <4>1 DEF Occurrences
      <4>3. GivenUp' = GivenUp \cup {job.id}
        BY <1>g, <2>1, <3>3
      <4> QED BY <2>1, <3>1, <3>2, <3>3, <4>2, <4>3 DEF Occurrences
    <3>4. CASE dead' = dead /\ Count(Pending', n) = Count(queue, n)
                                                      + (IF job.id = n THEN 1 ELSE 0)
      <4>1. GivenUp' = GivenUp
        BY <1>g, <2>1, <3>4
      <4> QED BY <2>1, <3>1, <3>2, <3>4, <4>1 DEF Occurrences
    <3> QED BY <1>9, <3>3, <3>4, FailedJob
  <2>3. Unlocked'
    BY <1>0, <2>1 DEF Unlocked
  <2> QED BY <1>0, <2>1, <2>2, <2>3 DEF AccountInv
<1>9a. CASE FailureSwallowed
  <2>1. job \in Job /\ phase = "up"
    BY <1>9a DEF FailureSwallowed, TypeOK
  <2>2. /\ UNCHANGED <<spawned, written, executed, dead, phase, closer>> /\ TakeNext(queue)
        /\ swallowed' = swallowed \cup {job.id}
    BY <1>9a DEF FailureSwallowed
  <2>3. Pending' = queue
    BY <2>2, TakeNextOK DEF TypeOK
  <2>4. GivenUp' = GivenUp \cup {job.id}
    BY <1>g, <2>2
  <2>5. ASSUME NEW n \in Write PROVE Occurrences(n)' = Occurrences(n)
    <3>1. /\ Count(Pending, n) = Count(queue, n) + (IF job.id = n THEN 1 ELSE 0)
          /\ Count(queue, n) \in Nat
      BY <2>1, JobIsFirst
    <3>2. Count(spawned, n) \in Nat /\ executed[n] \in Nat
      BY <1>1
    <3>3. Occurrences(n) = 0 \/ Occurrences(n) = 1
      BY <1>0
    <3>4. n = job.id => n \notin GivenUp
      BY <3>1, <3>2, <3>3 DEF Occurrences
    <3> QED BY <2>2, <2>3, <2>4, <3>1, <3>2, <3>4 DEF Occurrences
  <2>6. Unlocked'
    BY <1>0, <2>1, <2>2 DEF Unlocked
  <2> QED BY <1>0, <2>1, <2>2, <2>5, <2>6 DEF AccountInv
<1>10. ~(Drained \/ Joined \/ JoinTimesOut \/ CloseWal)
  BY <1>0 DEF Drained, Joined, JoinTimesOut, CloseWal, Unlocked
<1>11. CASE UNCHANGED vars
  BY <1>0, <1>11, <1>g, AccountKept DEF vars, Pending, Unlocked
<1> QED BY <1>0, <1>2, <1>3, <1>4, <1>5, <1>6, <1>7, <1>8, <1>9, <1>9a, <1>10,
           <1>11
        DEF Next, WorkerStep

\* Nothing that is kept is dropped, and nothing is logged.
LEMMA RecoverKept ==
  ASSUME RecoverInv, Unlocked', phase' = "down" => phase = "down",
         crashes' = crashes, shutdowns' = shutdowns, UNCHANGED <<logged, wal>>,
         Executed \subseteq Executed', GivenUp \subseteq GivenUp',
         IdsOf(Pending) \subseteq IdsOf(Pending') \cup Executed' \cup GivenUp'
  PROVE  RecoverInv'
BY DEF RecoverInv, LogKept, Held

\* Until the second crash or a shutdown every step keeps what was logged.
LEMMA RecoverNext ==
  ASSUME TypeOK, KnownInv, RecoverInv, [Next]_vars
  PROVE  RecoverInv'
<1> SUFFICES ASSUME crashes <= 1, shutdowns = 0, crashes' <= 1, shutdowns' = 0
             PROVE  RecoverInv'
  BY EndsCounted DEF RecoverInv
<1> USE DEF tables, feeding, working, stopped, history, bounds
<1>0. /\ ~BeginShutdown /\ Unlocked /\ LogKept /\ logged \subseteq Held
  BY EndsCounted DEF RecoverInv
<1>g. GivenUp = dead \cup swallowed /\ GivenUp' = dead' \cup swallowed'
  BY GivenUpIs
<1>1. CASE ReplayWal
  <2>1. /\ phase = "down" /\ queue = <<>> /\ job = None
        /\ UNCHANGED <<logged, crashes, shutdowns, executed, GivenUp, spawned, job, closer>>
        /\ queue' = Replayed /\ phase' = "loading"
    BY <1>0, <1>1, <1>g DEF ReplayWal, Unlocked, TypeOK
  <2>2. Pending = <<>> /\ Pending' = Replayed
    <3>1. Replayed \in Seq(Job) /\ queue \in Seq(Job)
      BY ReplayedType DEF TypeOK
    <3> QED BY <2>1, <3>1, ConcatEmptySeq DEF Pending
  <2>3. IdsOf(Pending) = {} /\ IdsOf(Pending') = IdsOf(wal)
    <3>1. IdsOf(<<>>) = {}
      BY DEF IdsOf
    <3> QED BY <2>2, <3>1, ReplayedIds
  <2>4. logged' \subseteq Held'
    BY <1>0, <2>1, <2>3 DEF Held, Executed
  <2>5. LogKept'
    BY <1>0, <2>1 DEF LogKept
  <2>6. Unlocked'
    BY <1>0, <2>1 DEF Unlocked
  <2> QED BY <2>4, <2>5, <2>6 DEF RecoverInv
<1>2. CASE LoadTables
  <2>1. Pending' = Pending /\ Executed' = Executed /\ Unlocked'
    BY <1>0, <1>2 DEF LoadTables, Pending, Unlocked, Executed
  <2> QED BY <1>2, <1>g, <2>1, RecoverKept DEF LoadTables
<1>3. ASSUME NEW r \in Row, WriteRow(r) PROVE RecoverInv'
  <2> DEFINE j == NewJob(r)
  <2>1. j \in Job /\ Pending \in Seq(Job)
    BY <1>3, NewJobType, PendingType DEF WriteRow
  <2>2. /\ UNCHANGED <<executed, GivenUp, logged, job, closer, phase, wal, crashes, shutdowns>>
        /\ phase = "up"
    BY <1>3, <1>g DEF WriteRow
  <2>3. IdsOf(Pending) \subseteq IdsOf(Pending')
    <3>1. CASE r \in Deferred
      <4>1. queue' = queue
        BY <1>3, <3>1 DEF WriteRow
      <4> QED BY <2>2, <4>1 DEF Pending
    <3>2. CASE r \notin Deferred
      <4>1. queue' = Append(queue, j)
        BY <1>3, <3>2 DEF WriteRow
      <4> HIDE DEF j
      <4>2. Pending' = Append(Pending, j)
        BY <2>1, <2>2, <4>1, PendingGrows
      <4>3. IdsOf(Append(Pending, j)) = IdsOf(Pending) \cup {j.id}
        BY <2>1, CountAppend
      <4> QED BY <4>2, <4>3
    <3> QED BY <3>1, <3>2
  <2>4. Unlocked' /\ Executed' = Executed
    BY <1>0, <2>2 DEF Unlocked, Executed
  <2> QED BY <2>2, <2>3, <2>4, RecoverKept
<1>4. CASE QueueWrite
  <2> DEFINE j == Head(spawned)
  <2>1. /\ spawned # <<>> /\ queue' = Append(queue, j)
        /\ UNCHANGED <<executed, GivenUp, logged, job, closer, phase, wal, crashes, shutdowns>>
    BY <1>4, <1>g DEF QueueWrite
  <2>2. j \in Job /\ Pending \in Seq(Job)
    BY <2>1, HeadThenTail, PendingType DEF TypeOK
  <2> HIDE DEF j
  <2>3. Pending' = Append(Pending, j)
    BY <2>1, <2>2, PendingGrows
  <2>4. IdsOf(Append(Pending, j)) = IdsOf(Pending) \cup {j.id}
    BY <2>2, CountAppend
  <2>5. Unlocked' /\ Executed' = Executed
    BY <1>0, <2>1 DEF Unlocked, Executed
  <2> QED BY <2>1, <2>3, <2>4, <2>5, RecoverKept
<1>5. CASE WorkerWakes
  <2>1. job = None /\ queue \in Seq(Job) /\ phase = "up"
    BY <1>5 DEF WorkerWakes, TypeOK
  <2>2. Pending' = queue /\ Pending = queue
    BY <1>5, <2>1, TakeNextOK, ConcatEmptySeq DEF WorkerWakes, Pending
  <2>3. Unlocked' /\ Executed' = Executed
    BY <1>0, <1>5, <2>1 DEF WorkerWakes, Unlocked, Executed
  <2> QED BY <1>5, <1>g, <2>1, <2>2, <2>3, RecoverKept DEF WorkerWakes
<1>6. CASE WorkerStops \/ LogFails
  <2>1. /\ UNCHANGED <<queue, job, phase, closer, executed, GivenUp, logged, wal, crashes,
                       shutdowns>>
        /\ phase = "up"
    BY <1>6, <1>g DEF WorkerStops, LogFails, TypeOK
  <2>2. Pending' = Pending /\ Unlocked' /\ Executed' = Executed
    BY <1>0, <2>1 DEF Pending, Unlocked, Executed
  <2> QED BY <2>1, <2>2, RecoverKept
<1>7. CASE LogJob
  <2>1. /\ job \in Job /\ phase = "up" /\ wal \in Seq(Job)
        /\ wal' = Append(wal, job) /\ logged' = logged \cup {job.id}
        /\ UNCHANGED <<queue, job, phase, closer, executed, GivenUp, crashes, shutdowns>>
    BY <1>7, <1>g DEF LogJob, TypeOK
  <2>2. IdsOf(wal') = IdsOf(wal) \cup {job.id}
    BY <2>1, CountAppend
  <2>3. Pending' = Pending /\ Unlocked' /\ Executed' = Executed
    BY <1>0, <2>1 DEF Pending, Unlocked, Executed
  <2>4. LogKept' /\ logged' \subseteq Held'
    BY <1>0, <2>1, <2>2, <2>3 DEF LogKept, Held
  <2> QED BY <2>3, <2>4 DEF RecoverInv
<1>8. CASE ExecuteJob
  <2>1. job \in Job /\ phase = "up" /\ \A n \in Write : executed[n] \in Nat
    BY <1>8 DEF ExecuteJob, TypeOK
  <2>2. /\ UNCHANGED <<GivenUp, phase, closer, logged, wal, crashes, shutdowns>>
        /\ TakeNext(queue) /\ executed' = [executed EXCEPT ![job.id] = @ + 1]
    BY <1>8, <1>g DEF ExecuteJob
  <2>3. Pending' = queue /\ IdsOf(Pending) = IdsOf(queue) \cup {job.id} /\ job.id \in Write
    BY <2>1, <2>2, TakeNextOK, JobIsFirst DEF TypeOK
  <2>4. \A n \in Write : executed'[n] = executed[n] + (IF n = job.id THEN 1 ELSE 0)
    BY <2>1, <2>2 DEF TypeOK
  <2>5. Executed \subseteq Executed' /\ job.id \in Executed'
    BY <2>1, <2>3, <2>4 DEF Executed
  <2>6. Unlocked'
    BY <1>0, <2>1, <2>2 DEF Unlocked
  <2> QED BY <2>1, <2>2, <2>3, <2>5, <2>6, RecoverKept
<1>9. CASE ExecuteFails
  <2>1. /\ phase = "up"
        /\ UNCHANGED <<executed, phase, closer, logged, wal, swallowed, crashes, shutdowns>>
    BY <1>9 DEF ExecuteFails, TypeOK
  <2>2. GivenUp \subseteq GivenUp' /\ IdsOf(Pending) \subseteq IdsOf(Pending') \cup GivenUp'
    <3>1. dead \subseteq dead' /\ IdsOf(Pending) \subseteq IdsOf(Pending') \cup dead'
      BY <1>9, FailedJob, JobIsFirst
    <3> QED BY <1>g, <2>1, <3>1
  <2>3. Unlocked' /\ Executed' = Executed
    BY <1>0, <2>1 DEF Unlocked, Executed
  <2> QED BY <2>1, <2>2, <2>3, RecoverKept
<1>9a. CASE FailureSwallowed
  <2>1. /\ job \in Job /\ phase = "up" /\ TakeNext(queue) /\ swallowed' = swallowed \cup {job.id}
        /\ UNCHANGED <<executed, dead, phase, closer, logged, wal, crashes, shutdowns>>
    BY <1>9a DEF FailureSwallowed, TypeOK
  <2>2. Pending' = queue /\ IdsOf(Pending) = IdsOf(queue) \cup {job.id}
    BY <2>1, TakeNextOK, JobIsFirst
  <2>3. GivenUp \subseteq GivenUp' /\ job.id \in GivenUp'
    BY <1>g, <2>1
  <2>4. Unlocked' /\ Executed' = Executed
    BY <1>0, <2>1 DEF Unlocked, Executed
  <2> QED BY <2>1, <2>2, <2>3, <2>4, RecoverKept
<1>10. ~(Drained \/ Joined \/ JoinTimesOut \/ CloseWal)
  BY <1>0 DEF Drained, Joined, JoinTimesOut, CloseWal, Unlocked
<1>11. CASE Crash
  <2>1. /\ crashes = 0 /\ crashes' = 1 /\ ProcessEnds
        /\ UNCHANGED <<executed, logged, wal, shutdowns>>
    BY <1>11, EndsCounted DEF Crash
  <2>2. Unlocked' /\ LogKept' /\ Executed' = Executed
    BY <2>1 DEF ProcessEnds, Unlocked, LogKept, Executed
  <2>3. logged' \subseteq IdsOf(wal')
    BY <1>0, <2>1 DEF LogKept
  <2> QED BY <2>2, <2>3 DEF RecoverInv, Held
<1>12. CASE UNCHANGED vars
  <2>1. Pending' = Pending /\ Executed' = Executed /\ Unlocked'
    BY <1>0, <1>12 DEF vars, Pending, Executed, Unlocked
  <2> QED BY <1>12, <1>g, <2>1, RecoverKept DEF vars
<1> QED BY <1>0, <1>1, <1>2, <1>3, <1>4, <1>5, <1>6, <1>7, <1>8, <1>9, <1>9a, <1>10,
           <1>11, <1>12
        DEF Next, WorkerStep

\* What became of every write is known.  Until the first crash or shutdown it is at exactly
\* one place, to be queued, queued or in work, executed once, or given up, whatever calls
\* fail; given up means in the dead-letter file, or dropped by a method of DatabaseWriter
\* that catches the error, and never the one in place of the other.  What reached the log
\* survives a first crash.
THEOREM NoOtherWriteIsLost == Spec => []WritesAreAccounted
<1>1. TypeOK /\ AccountInv => Accounted
  <2> SUFFICES ASSUME TypeOK, AccountInv, crashes = 0, shutdowns = 0, NEW n \in 1..written
               PROVE  Occurrences(n) = 1
    BY DEF Accounted, Occurrences, Count, Places
  <2>1. n \in Write /\ n <= written
    BY WriteBehindAssumption DEF TypeOK, Write
  <2> QED BY <2>1 DEF AccountInv
<1>2. RecoverInv => LoggedIsRecoverable
  BY DEF RecoverInv, LoggedIsRecoverable, Held
<1>3. TypeOK /\ KnownInv /\ AccountInv /\ RecoverInv /\ [Next]_vars
        => KnownInv' /\ AccountInv' /\ RecoverInv'
  BY KnownNext, AccountNext, RecoverNext
<1>4. TypeOK /\ AccountInv /\ RecoverInv => WritesAreAccounted
  BY <1>1, <1>2 DEF WritesAreAccounted
<1> QED BY TypeInit, TypeNext, AccountInit, <1>3, <1>4, PTL DEF Spec
=============================================================================
