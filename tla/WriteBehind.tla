----------------------------- MODULE WriteBehind -----------------------------
(***************************************************************************)
(* Write-behind of DataAccessService: a write changes the in-memory table  *)
(* at once and queues a job; one background worker logs each job to the    *)
(* write-ahead log (WAL, a local SQLite file) and then executes it on the  *)
(* database.  The module covers the queue and its wake-up event, retries   *)
(* and the dead-letter file, the failures a writer method keeps to itself, *)
(* the replay of the WAL and the load of the tables at startup, graceful   *)
(* shutdown, and crashes.                                                  *)
(*                                                                         *)
(* A write is a number, in the order of the writes to memory; a row of a   *)
(* table holds the number of the last write to it.                         *)
(***************************************************************************)
EXTENDS Integers, Sequences, FiniteSets, SequencesExt

CONSTANTS
  Row,          \* rows of the hot tables
  Deferred,     \* rows whose job is queued by a task of its own (match reports)
  Silent,       \* rows whose job is queued without waking the worker
  None,         \* Python's None
  MaxRetries,   \* executions of a job after the first: 3 in the code
  MaxWrites,    \* bound: writes
  MaxFaults,    \* bound: database or WAL calls that fail or outlast a shutdown
  MaxCrashes,   \* bound: crashes of the process
  MaxShutdowns  \* bound: graceful shutdowns

ASSUME WriteBehindAssumption ==
  /\ Deferred \subseteq Row /\ Silent \subseteq Row
  /\ MaxRetries \in Nat /\ MaxWrites \in Nat
  /\ MaxFaults \in Nat /\ MaxCrashes \in Nat /\ MaxShutdowns \in Nat
  /\ None \notin [id : 1..MaxWrites, row : Row, tries : 0..MaxRetries]

VARIABLES
  mem,       \* row -> last write in the in-memory table
  db,        \* row -> last write executed on the database
  spawned,   \* jobs of _queue_write tasks that have not run yet
  queue,     \* _write_queue
  event,     \* _write_event
  worker,    \* where _db_writer_worker is suspended
  job,       \* the job the worker has taken
  wal,       \* the rows of the WAL table write_jobs
  phase,     \* of the process
  stopping,  \* _shutdown_event
  closer,    \* where shutdown() is suspended
  \* history and bounds
  written,   \* writes so far
  logged,    \* writes that reached the WAL
  executed,  \* write -> times it was executed
  dead,      \* writes given up to failed_writes.log
  catching,  \* writes whose method of DatabaseWriter catches the error of the database
  swallowed, \* writes such a method failed to execute
  faults, crashes, shutdowns

tables   == <<mem, db>>
feeding  == <<spawned, queue, event>>
working  == <<worker, job>>
stopped  == <<stopping, closer>>
history  == <<written, logged, executed, dead, catching, swallowed>>
bounds   == <<faults, crashes, shutdowns>>
vars == <<tables, feeding, working, wal, phase, stopped, history, bounds>>

Write == 1..MaxWrites
Executed == {n \in Write : executed[n] > 0}
Job   == [id : Write, row : Row, tries : 0..MaxRetries]

\* Every variable has its type; no job is tried more often than the code allows; the
\* worker holds a job exactly while it works on it, and only runs once startup is over.
TypeOK ==
  /\ mem \in [Row -> 0..MaxWrites] /\ db \in [Row -> 0..MaxWrites]
  /\ spawned \in Seq(Job) /\ queue \in Seq(Job) /\ wal \in Seq(Job)
  /\ event \in BOOLEAN /\ stopping \in BOOLEAN
  /\ worker \in {"wait", "log", "execute", "stopped"}
  /\ job \in Job \cup {None}
  /\ worker \in {"log", "execute"} <=> job # None
  /\ phase # "up" => worker = "stopped"
  /\ phase \in {"down", "loading", "up"}
  /\ closer \in {"none", "drain", "join", "close"}
  /\ written \in 0..MaxWrites
  /\ logged \subseteq Write /\ dead \subseteq Write
  /\ catching \subseteq Write /\ swallowed \subseteq Write
  /\ executed \in [Write -> Nat]
  /\ faults \in 0..MaxFaults /\ crashes \in 0..MaxCrashes
  /\ shutdowns \in 0..MaxShutdowns

Init ==
  /\ mem = [r \in Row |-> 0] /\ db = [r \in Row |-> 0]
  /\ spawned = <<>> /\ queue = <<>> /\ event = FALSE
  /\ worker = "stopped" /\ job = None
  /\ wal = <<>>
  /\ phase = "down"
  /\ stopping = FALSE /\ closer = "none"
  /\ written = 0 /\ logged = {} /\ dead = {} /\ catching = {} /\ swallowed = {}
  /\ executed = [n \in Write |-> 0]
  /\ faults = 0 /\ crashes = 0 /\ shutdowns = 0

-----------------------------------------------------------------------------
(* Startup *)

\* The WAL stores neither the retry count nor what became of the job.
Fresh(j) == [j EXCEPT !.tries = 0]

\* Mutant: only the newest row is read back.
ReplayedNewest == IF wal = <<>> THEN <<>> ELSE <<Fresh(wal[Len(wal)])>>
Replayed == [i \in DOMAIN wal |-> Fresh(wal[i])]

\* _replay_wal: every job of the previous session is queued again, in order,
\* and the WAL is emptied.
ReplayWal ==
  /\ phase = "down"
  /\ phase' = "loading"
  /\ queue' = Replayed
  /\ event' = (wal # <<>>)
  /\ wal' = <<>>
  /\ UNCHANGED <<tables, spawned, working, stopped, history, bounds>>

\* _load_all_tables, then the worker starts.
LoadTables ==
  /\ phase = "loading"
  /\ phase' = "up"
  /\ mem' = db
  /\ worker' = "wait"
  /\ UNCHANGED <<db, feeding, job, wal, stopped, history, bounds>>

-----------------------------------------------------------------------------
(* Writers *)

NewJob(r) == [id |-> written + 1, row |-> r, tries |-> 0]

\* Mutant: the worker is not notified.
NeverNotified(r) == event
Notified(r) == event \/ r \notin Silent

\* A write method: the table changes, and the job is queued or a task is created
\* that will queue it.  The type of the job decides whether its method of DatabaseWriter
\* lets the error of the database through: the one for reports, which are deferred, does.
WriteRow(r) ==
  /\ phase = "up" /\ written < MaxWrites
  /\ written' = written + 1
  /\ mem' = [mem EXCEPT ![r] = written + 1]
  /\ IF r \in Deferred
     THEN /\ spawned' = Append(spawned, NewJob(r))
          /\ UNCHANGED <<queue, event>>
     ELSE /\ queue' = Append(queue, NewJob(r))
          /\ event' = Notified(r)
          /\ UNCHANGED spawned
  /\ \/ UNCHANGED catching
     \/ r \notin Deferred /\ catching' = catching \cup {written + 1}
  /\ UNCHANGED <<db, working, wal, phase, stopped, logged, executed, dead, swallowed, bounds>>

\* The task of a deferred write runs _queue_write.
QueueWrite ==
  /\ spawned # <<>>
  /\ spawned' = Tail(spawned)
  /\ queue' = Append(queue, Head(spawned))
  /\ event' = TRUE
  /\ UNCHANGED <<tables, working, wal, phase, stopped, history, bounds>>

-----------------------------------------------------------------------------
(* The worker *)

\* Mutant: the newest job is taken first.
TakeNewest(q) ==
  /\ queue' = IF q = <<>> THEN <<>> ELSE Front(q)
  /\ job'   = IF q = <<>> THEN None ELSE q[Len(q)]
  /\ worker' = CASE q # <<>> -> "log" [] q = <<>> /\ stopping -> "stopped" [] OTHER -> "wait"

\* The worker takes the next job of q, or has found it empty: then it waits, or
\* ends if the service is shutting down.
TakeNext(q) ==
  /\ queue' = IF q = <<>> THEN <<>> ELSE Tail(q)
  /\ job'   = IF q = <<>> THEN None ELSE Head(q)
  /\ worker' = CASE q # <<>> -> "log" [] q = <<>> /\ stopping -> "stopped" [] OTHER -> "wait"

WorkerWakes ==
  /\ worker = "wait" /\ event /\ ~stopping
  /\ event' = FALSE
  /\ TakeNext(queue)
  /\ UNCHANGED <<tables, spawned, wal, phase, stopped, history, bounds>>

\* Woken while shutdown is signalled, the worker ends without a look at the queue.
WorkerStops ==
  /\ worker = "wait" /\ stopping
  /\ worker' = "stopped"
  /\ UNCHANGED <<tables, feeding, job, wal, phase, stopped, history, bounds>>

\* _wal_write_job
LogJob ==
  /\ worker = "log"
  /\ worker' = "execute"
  /\ wal' = Append(wal, job)
  /\ logged' = logged \cup {job.id}
  /\ UNCHANGED <<tables, feeding, job, phase, stopped, written, executed, dead, catching,
                 swallowed, bounds>>

\* An error of the WAL is printed and the job is executed all the same.
LogFails ==
  /\ worker = "log" /\ faults < MaxFaults
  /\ faults' = faults + 1
  /\ worker' = "execute"
  /\ UNCHANGED <<tables, feeding, job, wal, phase, stopped, history, crashes, shutdowns>>

\* _process_write_job, the database does what it is asked.
ExecuteJob ==
  /\ worker = "execute"
  /\ db' = [db EXCEPT ![job.row] = job.id]
  /\ executed' = [executed EXCEPT ![job.id] = @ + 1]
  /\ TakeNext(queue)
  /\ UNCHANGED <<mem, spawned, event, wal, phase, stopped, written, logged, dead, catching,
                 swallowed, bounds>>

\* Mutant: a job is tried once too often.
TooPatient(j) == j.tries > MaxRetries

GivesUp(j) == j.tries >= MaxRetries
Requeued(j) == Append(queue, [j EXCEPT !.tries = @ + 1])

\* The database raises and so does the writer's method: the job goes to the back of the
\* queue or, after the last retry, to the dead-letter file.
ExecuteFails ==
  /\ worker = "execute" /\ job.id \notin catching /\ faults < MaxFaults
  /\ faults' = faults + 1
  /\ dead' = IF GivesUp(job) THEN dead \cup {job.id} ELSE dead
  /\ TakeNext(IF GivesUp(job) THEN queue ELSE Requeued(job))
  /\ UNCHANGED <<tables, spawned, event, wal, phase, stopped, written, logged, executed,
                 catching, swallowed, crashes, shutdowns>>

\* The database raises and the writer's method catches it: it prints the error and
\* returns False, which _process_write_job does not look at.  The job counts as done.
FailureSwallowed ==
  /\ worker = "execute" /\ job.id \in catching /\ faults < MaxFaults
  /\ faults' = faults + 1
  /\ swallowed' = swallowed \cup {job.id}
  /\ TakeNext(queue)
  /\ UNCHANGED <<tables, spawned, event, wal, phase, stopped, written, logged, executed, dead,
                 catching, crashes, shutdowns>>

-----------------------------------------------------------------------------
(* Shutdown and crash *)

BeginShutdown ==
  /\ phase = "up" /\ closer = "none" /\ shutdowns < MaxShutdowns
  /\ shutdowns' = shutdowns + 1
  /\ stopping' = TRUE
  /\ closer' = "drain"
  /\ UNCHANGED <<tables, feeding, working, wal, phase, history, faults, crashes>>

\* The queue is empty, or 30 seconds have passed in which the worker ended or was
\* kept busy; a waiting worker would have seen the signal.
Drained ==
  /\ closer = "drain" /\ (queue = <<>> \/ worker # "wait")
  /\ closer' = "join"
  /\ UNCHANGED <<tables, feeding, working, wal, phase, stopping, history, bounds>>

Joined ==
  /\ closer = "join" /\ worker = "stopped"
  /\ closer' = "close"
  /\ UNCHANGED <<tables, feeding, working, wal, phase, stopping, history, bounds>>

\* A worker that does not end within 10 seconds is cancelled; the database call it
\* waits for goes on in its thread.  A call that slow counts as a fault.
JoinTimesOut ==
  /\ closer = "join" /\ worker \in {"log", "execute"} /\ faults < MaxFaults
  /\ faults' = faults + 1
  /\ closer' = "close"
  /\ worker' = "stopped" /\ job' = None
  /\ \/ UNCHANGED <<db, executed>>
     \/ /\ worker = "execute"
        /\ db' = [db EXCEPT ![job.row] = job.id]
        /\ executed' = [executed EXCEPT ![job.id] = @ + 1]
  /\ UNCHANGED <<mem, feeding, wal, phase, stopping, written, logged, dead, catching,
                 swallowed, crashes, shutdowns>>

\* What the process kept in memory is gone.
ProcessEnds ==
  /\ phase' = "down"
  /\ spawned' = <<>> /\ queue' = <<>> /\ event' = FALSE
  /\ worker' = "stopped" /\ job' = None
  /\ stopping' = FALSE /\ closer' = "none"

\* _wal_clear_all; the process exits.
CloseWal ==
  /\ closer = "close"
  /\ wal' = <<>>
  /\ ProcessEnds
  /\ UNCHANGED <<tables, history, bounds>>

Crash ==
  /\ phase # "down" /\ crashes < MaxCrashes
  /\ crashes' = crashes + 1
  /\ ProcessEnds
  /\ UNCHANGED <<tables, wal, history, faults, shutdowns>>

-----------------------------------------------------------------------------
WorkerStep ==
  \/ WorkerWakes \/ WorkerStops \/ LogJob \/ LogFails
  \/ ExecuteJob \/ ExecuteFails \/ FailureSwallowed

Next ==
  \/ ReplayWal \/ LoadTables
  \/ \E r \in Row : WriteRow(r)
  \/ QueueWrite
  \/ WorkerStep
  \/ BeginShutdown \/ Drained \/ Joined \/ JoinTimesOut \/ CloseWal
  \/ Crash

\* The event loop runs the worker and the tasks; startup goes on once begun.
Fairness ==
  WF_vars(LoadTables) /\ WF_vars(QueueWrite) /\ WF_vars(WorkerStep)

Spec == Init /\ [][Next]_vars
FairSpec == Spec /\ Fairness

-----------------------------------------------------------------------------
(* Safety *)

\* The jobs the worker still has to execute, in its order.
Pending == (IF job = None THEN <<>> ELSE <<job>>) \o queue
IdsOf(jobs) == {jobs[i].id : i \in DOMAIN jobs}

\* Conditions on the jobs of row r that are pending.
OldestFirst(r) ==
  \A i, k \in DOMAIN Pending :
    i < k /\ Pending[i].row = r /\ Pending[k].row = r => Pending[i].id < Pending[k].id
NewerThanDb(r) ==
  \A i \in DOMAIN Pending : Pending[i].row = r => db[r] < Pending[i].id
EndsAtMem(r) ==
  /\ \A i \in DOMAIN Pending : Pending[i].row = r => Pending[i].id <= mem[r]
  /\ mem[r] = db[r] \/ \E i \in DOMAIN Pending : Pending[i].row = r /\ Pending[i].id = mem[r]

\* While nothing fails, the worker brings every row it serves in order to the value
\* the memory has: the writes to a row are pending oldest first, none of them is
\* older than what the database holds, and the last is the one memory shows.
LastWriteWins ==
  phase = "up" /\ faults = 0 /\ crashes = 0 =>
    \A r \in Row \ Deferred : OldestFirst(r) /\ NewerThanDb(r) /\ EndsAtMem(r)

\* While nothing fails, the database never goes back to an older write.
DbMovesForward ==
  [][faults = 0 /\ crashes = 0 => \A r \in Row \ Deferred : db'[r] >= db[r]]_vars

\* What became of a write that was never executed: it is in the dead-letter file, or it
\* is gone, which happens only to a write whose own method swallows the failure.
GivenUp == (dead \ catching) \cup (swallowed \cap catching)

\* Every write is at exactly one place: to be queued, queued or in work, executed once, or
\* given up.  Whatever fails, a write is not executed twice while the process runs, and
\* one whose method lets the failure through is not lost.
Accounted ==
  crashes = 0 /\ shutdowns = 0 =>
    \A n \in 1..written :
      /\ Cardinality({i \in DOMAIN spawned : spawned[i].id = n})
           + Cardinality({i \in DOMAIN Pending : Pending[i].id = n})
           + executed[n] + (IF n \in GivenUp THEN 1 ELSE 0) = 1

\* One crash does not lose a write that reached the log, until a shutdown empties the
\* log: it is executed, given up, pending, or still in the log.  A second crash may lose
\* it: the replay empties the log when it queues the jobs, before they are logged again.
LoggedIsRecoverable ==
  crashes <= 1 /\ shutdowns = 0 => \A n \in logged :
    n \in Executed \cup GivenUp \cup IdsOf(Pending) \cup IdsOf(wal)

\* What became of every write is known: failing calls lose only those whose own method
\* swallows the failure, and a first crash loses none that was logged.
WritesAreAccounted == Accounted /\ LoggedIsRecoverable

-----------------------------------------------------------------------------
(* Liveness *)

Settled(n) == n \in Executed \cup GivenUp \/ phase = "down" \/ stopping

\* The job of write n is queued, or will be, by a writer that notifies the worker.
Owed(n) == \E j \in ToSet(spawned) \cup ToSet(queue) : j.id = n /\ j.row \notin Silent

\* A write whose job is queued with a notification does not wait for ever: it reaches the
\* database or is given up (after its retries to the dead-letter file, or at the first
\* failure that its own method swallows), unless the process dies or is shut down.
NotifiedIsSettled == \A n \in Write : Owed(n) ~> Settled(n)

-----------------------------------------------------------------------------
(* A claim of the documentation that the code does not keep: the one property  *)
(* of a run that TLC finds violated.                                           *)

\* "ensuring all in-memory changes are eventually written to the persistent
\* database" (_db_writer_worker): where no failure is swallowed, a failed job is retried
\* behind the newer write to its row and overwrites it.
NewestReachesDb ==
  \A r \in Row : <>[](mem[r] = db[r] \/ swallowed # {} \/ phase = "down")
=============================================================================
