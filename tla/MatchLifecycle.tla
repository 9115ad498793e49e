--------------------------- MODULE MatchLifecycle ---------------------------
(***************************************************************************)
(* The life of a match, from the moment the matchmaker creates it until    *)
(* its players are free again: MatchCompletionService together with the    *)
(* handlers of Matchmaker that report, abort and rate a match, the in-     *)
(* memory match row of DataAccessService, and the two Discord views        *)
(* (MatchNotificationView, MatchFoundView) that listen to the service.     *)
(*                                                                         *)
(* The program is one asyncio event loop.  An action is what a task does   *)
(* between two awaits that really suspend it; awaits that never suspend    *)
(* (an uncontended lock, put on an unbounded queue) end no action.  Every  *)
(* match has an asyncio.Lock that is created on demand and popped from a   *)
(* dict while tasks may still hold it or wait for it, so the model keeps   *)
(* the lock objects, each with its FIFO of tasks, apart from the dict.     *)
(***************************************************************************)
EXTENDS Integers, Sequences, FiniteSets, SequencesExt

CONSTANTS
  Player,       \* Discord users
  Match,        \* match ids
  Outcome,      \* report values of a played match: 0 draw, 1 and 2 a win
  LockObj,      \* names for the Lock objects one match can own at a time
  None,         \* Python's None
  MaxAborts,    \* monthly aborts of a player
  MaxUploads,   \* bound: replay uploads per match
  MaxClicks,    \* bound: clicks on one button of a notification view
  MaxJoins,     \* bound: times a player joins the queue
  MaxFailures   \* bound: ranking refreshes that raise

ASSUME MatchLifecycleAssumption ==
  /\ Outcome \subseteq 0..2
  /\ None \notin {-1, -3, -4} \cup Outcome
  /\ None \notin LockObj \cup Match \cup Player
  /\ {"idle", "queueing"} \cap Match = {}
  /\ MaxAborts \in Nat
  /\ MaxUploads \in Nat /\ MaxClicks \in Nat /\ MaxJoins \in Nat
  /\ MaxFailures \in Nat

VARIABLES
  \* the match row (DataAccessService._matches_1v1_df) and the tables it feeds
  players,        \* match -> <<player 1, player 2>>, <<>> before creation
  report,         \* match -> <<player_1_report, player_2_report>>
  result,         \* match -> match_result
  mmr,            \* match -> player -> times this match changed the MMR
  aborts,         \* player -> remaining aborts
  \* players
  playerState,    \* "idle", "queueing" or the match of in_match:<id>
  queue,          \* players listed in Matchmaker.players
  listening,      \* players with an active searching view and subscription
  joins,          \* player -> times joined (bounded by MaxJoins)
  chan,           \* channel_to_match_view_map, one channel per player
  \* MatchCompletionService
  monitored, processed, callbacks, bothConfirmed, confirmations,
  \* tasks and locks
  monitor,        \* match -> state of the abort-timer task
  lockOf,         \* processing_locks: match -> the registered Lock or None
  lockQ,          \* match -> lock -> FIFO of tasks, the head holds the lock
  cs,             \* match -> lock -> where the holder is suspended
  pending,        \* match -> lock -> callbacks the holder has still to await
  checks,         \* match -> check_match_completion tasks not yet started
  upload,         \* match -> player -> the on_message task of that player
  uploads,        \* match -> uploads so far (bounded by MaxUploads)
  failures,       \* failed ranking refreshes so far (bounded by MaxFailures)
  \* views
  clicks,         \* match -> player -> button -> clicks (bounded by MaxClicks)
  view,           \* match -> player -> which view this player has of it
  told            \* match -> terminal notices delivered to views

rowVars    == <<players, report, result, mmr, aborts>>
playerVars == <<playerState, queue, listening, joins, chan>>
svcVars    == <<monitored, processed, callbacks, bothConfirmed, confirmations>>
lockVars   == <<lockOf, lockQ, cs, pending>>
taskVars   == <<monitor, checks, upload, uploads, failures>>
viewVars   == <<view, told, clicks>>
vars == <<rowVars, playerVars, svcVars, lockVars, taskVars, viewVars>>

Report   == Outcome \cup {-1, -3, -4, None}
Result   == Outcome \cup {-1, None}
Callback == {"notification", "found"} \X Player
Monitor  == <<"monitor", None>>
Check    == <<"check", None>>
Task     == {Monitor, Check} \cup ({"confirm", "abort", "record1", "record2"} \X Player)
HolderPc == {"enter", "fetch", "timeout", "mmr1", "mmr2",
             "complete", "abort", "conflict"}
UploadPc == {"none", "parsing", "notify", "second", "recording"}
Upload   == [pc : UploadPc, value : Outcome \cup {None}]
ViewPc   == {"none", "offered", "notification", "expired", "building",
             "found", "live", "closed", "lost"}

RowOK ==
  /\ players \in [Match -> {<<>>} \cup (Player \X Player)]
  /\ report \in [Match -> Report \X Report]
  /\ result \in [Match -> Result]
  /\ mmr \in [Match -> [Player -> Nat]]
  /\ aborts \in [Player -> 0..MaxAborts]

PlayerOK ==
  /\ playerState \in [Player -> {"idle", "queueing"} \cup Match]
  /\ queue \subseteq Player /\ listening \subseteq Player
  /\ joins \in [Player -> 0..MaxJoins]
  /\ chan \in [Player -> Match \cup {None}]

SvcOK ==
  /\ monitored \subseteq Match /\ processed \subseteq Match
  /\ callbacks \in [Match -> SUBSET Callback]
  /\ bothConfirmed \in [Match -> SUBSET Player]
  /\ confirmations \in [Match -> (SUBSET Player) \cup {None}]

LockOK ==
  /\ lockOf \in [Match -> LockObj \cup {None}]
  /\ lockQ \in [Match -> [LockObj -> Seq(Task)]]
  /\ cs \in [Match -> [LockObj -> HolderPc]]
  /\ pending \in [Match -> [LockObj -> SUBSET Callback]]

TaskOK ==
  /\ monitor \in [Match -> {"none", "sleep", "run"}]
  /\ checks \in [Match -> Nat]
  /\ upload \in [Match -> [Player -> Upload]]
  /\ uploads \in [Match -> 0..MaxUploads]
  /\ failures \in 0..MaxFailures

ViewOK ==
  /\ clicks \in [Match -> [Player -> [{"confirm", "abort"} -> 0..MaxClicks]]]
  /\ view \in [Match -> [Player -> ViewPc]]
  /\ told \in [Match -> SUBSET (Callback \X HolderPc)]

\* Every variable has its type: the report codes, the states of the tasks and of
\* the views are those the code knows, and no counter leaves its range.
TypeOK == RowOK /\ PlayerOK /\ SvcOK /\ LockOK /\ TaskOK /\ ViewOK

Init ==
  /\ players = [m \in Match |-> <<>>]
  /\ report = [m \in Match |-> <<None, None>>]
  /\ result = [m \in Match |-> None]
  /\ mmr = [m \in Match |-> [p \in Player |-> 0]]
  /\ aborts = [p \in Player |-> MaxAborts]
  /\ playerState = [p \in Player |-> "idle"]
  /\ queue = {} /\ listening = {}
  /\ joins = [p \in Player |-> 0]
  /\ chan = [p \in Player |-> None]
  /\ monitored = {} /\ processed = {}
  /\ callbacks = [m \in Match |-> {}]
  /\ bothConfirmed = [m \in Match |-> {}]
  /\ confirmations = [m \in Match |-> None]
  /\ monitor = [m \in Match |-> "none"]
  /\ lockOf = [m \in Match |-> None]
  /\ lockQ = [m \in Match |-> [l \in LockObj |-> <<>>]]
  /\ cs = [m \in Match |-> [l \in LockObj |-> "enter"]]
  /\ pending = [m \in Match |-> [l \in LockObj |-> {}]]
  /\ checks = [m \in Match |-> 0]
  /\ upload = [m \in Match |-> [p \in Player |-> [pc |-> "none", value |-> None]]]
  /\ uploads = [m \in Match |-> 0]
  /\ failures = 0
  /\ clicks = [m \in Match |-> [p \in Player |-> [b \in {"confirm", "abort"} |-> 0]]]
  /\ view = [m \in Match |-> [p \in Player |-> "none"]]
  /\ told = [m \in Match |-> {}]

-----------------------------------------------------------------------------
(* Locks *)

\* _get_lock and the start of `async with lock`: a task joins the FIFO of the
\* registered lock, or of a new one that is registered first.
FreeLocks(m) == {l \in LockObj : l # lockOf[m] /\ lockQ[m][l] = <<>>}

GetLock(m, task) ==
  LET l == IF lockOf[m] # None THEN lockOf[m] ELSE CHOOSE f \in FreeLocks(m) : TRUE
  IN /\ lockOf[m] # None \/ FreeLocks(m) # {}
     /\ lockOf' = [lockOf EXCEPT ![m] = l]
     /\ lockQ' = [lockQ EXCEPT ![m][l] = Append(@, task)]
     /\ UNCHANGED <<cs, pending>>

\* The holder of l, and where it is suspended in its critical section.
Holds(m, l, kind) == lockQ[m][l] # <<>> /\ Head(lockQ[m][l])[1] = kind
At(m, l, pc)      == lockQ[m][l] # <<>> /\ cs[m][l] = pc

\* The holder releases the lock; the next waiter, if any, has not run yet.
Release(m, l) ==
  /\ lockQ' = [lockQ EXCEPT ![m][l] = Tail(@)]
  /\ cs' = [cs EXCEPT ![m][l] = "enter"]
  /\ pending' = [pending EXCEPT ![m][l] = {}]

\* The holder stays in its critical section, suspended at pc.
Suspend(m, l, pc) == cs' = [cs EXCEPT ![m][l] = pc] /\ UNCHANGED <<lockOf, lockQ>>

\* The holder releases lock l and the monitor task of m is cancelled wherever
\* it is; its finally clause pops the registered lock.  A cancelled task runs
\* in the next turn of the event loop, before any awaited reply arrives.
ReleaseAndCancelMonitor(m, l) ==
  LET q == [lockQ[m] EXCEPT ![l] = Tail(@)]
  IN /\ lockQ' = [lockQ EXCEPT ![m] = [k \in LockObj |-> RemoveFirst(q[k], Monitor)]]
     /\ cs' = [cs EXCEPT ![m] = [k \in LockObj |->
                 IF k = l \/ (q[k] # <<>> /\ Head(q[k]) = Monitor)
                 THEN "enter" ELSE cs[m][k]]]
     /\ pending' = [pending EXCEPT ![m] = [k \in LockObj |->
                 IF k = l \/ (q[k] # <<>> /\ Head(q[k]) = Monitor)
                 THEN {} ELSE pending[m][k]]]
     /\ monitor' = [monitor EXCEPT ![m] = "none"]
     /\ lockOf' = [lockOf EXCEPT ![m] = None]

-----------------------------------------------------------------------------
(* Helpers of the service *)

\* start_monitoring_match with a callback
StartMonitoring(m, c) ==
  /\ callbacks' = [callbacks EXCEPT ![m] = @ \cup {c}]
  /\ monitored' = monitored \cup {m}
  /\ IF m \in monitored
     THEN UNCHANGED <<confirmations, monitor>>
     ELSE /\ confirmations' = [confirmations EXCEPT ![m] = {}]
          /\ monitor' = [monitor EXCEPT ![m] = "sleep"]

\* The end of a handler: stop_monitoring_match, then the lock is released.
\* popLock: the handler pops the registered lock even if m is not monitored.
StopMonitoring(m, l, popLock) ==
  /\ monitored' = monitored \ {m}
  /\ IF m \in monitored
     THEN /\ ReleaseAndCancelMonitor(m, l)
          /\ callbacks' = [callbacks EXCEPT ![m] = {}]
          /\ bothConfirmed' = [bothConfirmed EXCEPT ![m] = {}]
          /\ confirmations' = [confirmations EXCEPT ![m] = None]
     ELSE /\ Release(m, l)
          /\ lockOf' = IF popLock THEN [lockOf EXCEPT ![m] = None] ELSE lockOf
          /\ UNCHANGED <<monitor, callbacks, bothConfirmed, confirmations>>

PlayersOf(m) == {players[m][i] : i \in 1..Len(players[m])}

\* Mutant: only players whose searching view still listens are released.
ReleaseListening(ps) ==
  /\ playerState' = [p \in Player |->
                       IF p \in ps \cap listening THEN "idle" ELSE playerState[p]]
  /\ listening' = listening \ ps
  /\ UNCHANGED <<queue, joins, chan>>

\* release_queue_lock_for_players: whatever the players are doing now
ReleasePlayers(ps) ==
  /\ playerState' = [p \in Player |-> IF p \in ps THEN "idle" ELSE playerState[p]]
  /\ listening' = listening \ ps
  /\ chan' = [c \in Player |->
       IF chan[c] # None /\ PlayersOf(chan[c]) \cap ps # {} THEN None ELSE chan[c]]
  /\ UNCHANGED <<queue, joins>>

\* Deactivating a searching view cancels its listener before it shows a match.
CancelListeners(ps) ==
  view' = [m \in Match |-> [p \in Player |->
             IF p \in ps /\ view[m][p] = "offered" THEN "lost" ELSE view[m][p]]]

\* A holder takes the registered callbacks and will await them one by one.
TakeCallbacks(m, l) ==
  /\ pending' = [pending EXCEPT ![m][l] = callbacks[m]]
  /\ callbacks' = [callbacks EXCEPT ![m] = {}]

\* Mutants: a guard that forgets aborted matches, one that forgets played ones.
IsPlayed(m)     == result[m] \in Outcome
IsAbortedRow(m) == result[m] = -1

\* match_result is definitive
IsTerminal(m) == result[m] # None

IsAborted(m) == result[m] = -1 \/ \E i \in 1..2 : report[m][i] \in {-3, -4}
BothReported(m) == \A i \in 1..2 : report[m][i] # None
Agree(m) == report[m][1] = report[m][2]

\* The idempotency check of _check_match_completion_locked, and its mutant.
NeverProcessed(m)   == FALSE
AlreadyProcessed(m) == m \in processed

\* Who has confirmed, the confirmations being gone once both have.
Confirmed(m) == IF confirmations[m] = None THEN {} ELSE confirmations[m]

AllConfirmed(m) == Cardinality(Confirmed(m)) = 2

\* The report code of a player after an unconfirmed match; mutant: the code of a
\* conflict.
ConflictCode(m, p)    == IF p \in Confirmed(m) THEN None ELSE -2
UnconfirmedCode(m, p) == IF p \in Confirmed(m) THEN None ELSE -4

-----------------------------------------------------------------------------
(* Queueing and creation of a match, as the life of a match sees them *)

JoinQueue(p) ==
  /\ playerState[p] = "idle"
  /\ playerState' = [playerState EXCEPT ![p] = "queueing"]
  /\ queue' = queue \cup {p}
  /\ listening' = listening \cup {p}
  /\ joins[p] < MaxJoins
  /\ joins' = [joins EXCEPT ![p] = @ + 1]
  /\ UNCHANGED <<chan, rowVars, svcVars, lockVars, taskVars, viewVars>>

\* Cancel Queue, or the timeout of the searching view.
LeaveQueue(p) ==
  /\ p \in listening
  /\ playerState' = IF playerState[p] \in Match THEN playerState
                    ELSE [playerState EXCEPT ![p] = "idle"]
  /\ queue' = queue \ {p}
  /\ listening' = listening \ {p}
  /\ CancelListeners({p})
  /\ UNCHANGED <<joins, chan, told, clicks, rowVars, svcVars, lockVars, taskVars>>

\* attempt_match creates m for two players of the queue and publishes it to
\* the searching views that still listen.
CreateMatch(m, p, q) ==
  /\ players[m] = <<>> /\ p # q /\ {p, q} \subseteq queue
  /\ players' = [players EXCEPT ![m] = <<p, q>>]
  /\ playerState' = [playerState EXCEPT ![p] = m, ![q] = m]
  /\ queue' = queue \ {p, q}
  /\ view' = [view EXCEPT ![m] = [r \in Player |->
                IF r \in {p, q} \cap listening THEN "offered" ELSE "none"]]
  /\ UNCHANGED <<report, result, mmr, aborts, listening, joins, chan, told, clicks,
                 svcVars, lockVars, taskVars>>

\* _listen_for_match: the notification view registers with the service.
ShowMatch(m, p) ==
  /\ view[m][p] = "offered"
  /\ view' = [view EXCEPT ![m][p] = "notification"]
  /\ StartMonitoring(m, <<"notification", p>>)
  /\ bothConfirmed' = [bothConfirmed EXCEPT ![m] = @ \cup {p}]
  /\ listening' = listening \ {p}
  /\ UNCHANGED <<playerState, queue, joins, chan, processed, checks, upload, uploads, failures,
                 told, clicks, rowVars, lockVars>>

\* The listener fails before the view exists: no interaction was stored yet.
ShowMatchFails(m, p) ==
  /\ view[m][p] = "offered"
  /\ view' = [view EXCEPT ![m][p] = "lost"]
  /\ listening' = listening \ {p}
  /\ UNCHANGED <<playerState, queue, joins, chan, told, clicks, rowVars, svcVars, lockVars, taskVars>>

-----------------------------------------------------------------------------
(* Confirming and aborting *)

\* The buttons are in the ephemeral message of one of the players.
Clickable(m, p) == view[m][p] \in {"notification", "building"}

Click(m, p, button) ==
  /\ Clickable(m, p) /\ clicks[m][p][button] < MaxClicks
  /\ clicks' = [clicks EXCEPT ![m][p][button] = @ + 1]
  /\ GetLock(m, <<button, p>>)
  /\ UNCHANGED <<view, told, rowVars, playerVars, svcVars, taskVars>>

ClickConfirm(m, p) == Click(m, p, "confirm")

ClickAbort(m, p) == aborts[p] > 0 /\ Click(m, p, "abort")

\* confirm_match records the confirmation, then awaits bot.fetch_user.
ConfirmBegins(m, l) ==
  /\ Holds(m, l, "confirm") /\ cs[m][l] = "enter"
  /\ confirmations' =
       [confirmations EXCEPT ![m] = Confirmed(m) \cup {Head(lockQ[m][l])[2]}]
  /\ Suspend(m, l, "fetch")
  /\ UNCHANGED <<monitored, processed, callbacks, bothConfirmed, pending,
                 rowVars, playerVars, taskVars, viewVars>>

\* Not both have confirmed yet, or the confirmations are gone (KeyError).
ConfirmEndsAlone(m, l) ==
  /\ Holds(m, l, "confirm") /\ cs[m][l] = "fetch"
  /\ ~AllConfirmed(m)
  /\ Release(m, l)
  /\ UNCHANGED <<lockOf, rowVars, playerVars, svcVars, taskVars, viewVars>>

\* Both confirmed: the abort timer is cancelled, every registered view moves on
\* to build its MatchFoundView.
ConfirmEndsBoth(m, l) ==
  /\ Holds(m, l, "confirm") /\ cs[m][l] = "fetch"
  /\ AllConfirmed(m)
  /\ IF monitor[m] = "none"
     THEN Release(m, l) /\ UNCHANGED <<lockOf, monitor>>
     ELSE ReleaseAndCancelMonitor(m, l)
  /\ confirmations' = [confirmations EXCEPT ![m] = None]
  /\ bothConfirmed' = [bothConfirmed EXCEPT ![m] = {}]
  /\ view' = [view EXCEPT ![m] = [p \in Player |->
                IF p \in bothConfirmed[m] THEN "building" ELSE view[m][p]]]
  /\ UNCHANGED <<monitored, processed, callbacks, checks, upload, uploads, failures,
                 told, clicks, rowVars, playerVars>>

\* Matchmaker.abort_match and DataAccessService.abort_match
AbortMatch(m, l) ==
  /\ Holds(m, l, "abort") /\ cs[m][l] = "enter"
  /\ LET p == Head(lockQ[m][l])[2]
     IN IF IsTerminal(m)
        THEN UNCHANGED <<aborts, report, result, checks>>
        ELSE /\ aborts' = [aborts EXCEPT ![p] = IF @ > 0 THEN @ - 1 ELSE 0]
             /\ report' = [report EXCEPT ![m] =
                             IF players[m][1] = p THEN <<-3, -1>> ELSE <<-1, -3>>]
             /\ result' = [result EXCEPT ![m] = -1]
             /\ checks' = [checks EXCEPT ![m] = @ + 1]
  /\ Release(m, l)
  /\ UNCHANGED <<players, mmr, lockOf, monitor, upload, uploads, failures,
                 playerVars, svcVars, viewVars>>

\* _on_both_confirmed: the edit of the notification is done, the MatchFoundView
\* is constructed and registers with the service, whatever became of the match.
BuildFoundView(m, p) ==
  /\ view[m][p] = "building"
  /\ view' = [view EXCEPT ![m][p] = "found"]
  /\ StartMonitoring(m, <<"found", p>>)
  /\ UNCHANGED <<processed, bothConfirmed, checks, upload, uploads, failures, told, clicks,
                 rowVars, playerVars, lockVars>>

\* The view is sent and its channel accepts replays for the match.
PublishFoundView(m, p) ==
  /\ view[m][p] = "found"
  /\ view' = [view EXCEPT ![m][p] = "live"]
  /\ chan' = [chan EXCEPT ![p] = m]
  /\ UNCHANGED <<playerState, queue, listening, joins, told, clicks, rowVars, svcVars, lockVars, taskVars>>

\* An exception in _on_both_confirmed (a failed send) leaves no usable view.
FoundViewFails(m, p) ==
  /\ view[m][p] \in {"building", "found"}
  /\ view' = [view EXCEPT ![m][p] = "lost"]
  /\ UNCHANGED <<told, clicks, rowVars, playerVars, svcVars, lockVars, taskVars>>

-----------------------------------------------------------------------------
(* Reporting: on_message reports the replay's outcome for both players *)

StartUpload(m, p, v) ==
  /\ chan[p] = m /\ upload[m][p].pc = "none" /\ uploads[m] < MaxUploads
  /\ upload' = [upload EXCEPT ![m][p] = [pc |-> "parsing", value |-> v]]
  /\ uploads' = [uploads EXCEPT ![m] = @ + 1]
  /\ UNCHANGED <<monitor, checks, failures, rowVars, playerVars, svcVars, lockVars, viewVars>>

\* record_match_result is called for player 1, and when that returns for player 2.
RecordReport(m, p) ==
  /\ upload[m][p].pc \in {"parsing", "second"}
  /\ GetLock(m, <<IF upload[m][p].pc = "parsing" THEN "record1" ELSE "record2", p>>)
  /\ upload' = [upload EXCEPT ![m][p].pc = "recording"]
  /\ UNCHANGED <<monitor, checks, uploads, failures, rowVars, playerVars, svcVars, viewVars>>

\* The terminal check and update_match_report for player i; then a notice to an
\* opponent who has not reported (an await) and a completion check.
RecordFor(m, l, i, p, after) ==
  /\ cs[m][l] = "enter"
  /\ IF IsTerminal(m)
     THEN /\ upload' = [upload EXCEPT ![m][p].pc = after]
          /\ UNCHANGED <<report, checks>>
     ELSE /\ report' = [report EXCEPT ![m][i] = upload[m][p].value]
          /\ IF report[m][3 - i] = None
             THEN /\ upload' = [upload EXCEPT ![m][p].pc = "notify"]
                  /\ UNCHANGED checks
             ELSE /\ upload' = [upload EXCEPT ![m][p].pc = after]
                  /\ checks' = [checks EXCEPT ![m] = @ + 1]
  /\ Release(m, l)
  /\ UNCHANGED <<players, result, mmr, aborts, lockOf, monitor, uploads, failures,
                 playerVars, svcVars, viewVars>>

RecordFirst(m, l) ==
  Holds(m, l, "record1") /\ RecordFor(m, l, 1, Head(lockQ[m][l])[2], "second")

RecordSecond(m, l) ==
  Holds(m, l, "record2") /\ RecordFor(m, l, 2, Head(lockQ[m][l])[2], "none")

\* The notice to the opponent is sent; the completion check is spawned.
OpponentNotified(m, p) ==
  /\ upload[m][p].pc = "notify"
  /\ upload' = [upload EXCEPT ![m][p].pc = "second"]
  /\ checks' = [checks EXCEPT ![m] = @ + 1]
  /\ UNCHANGED <<monitor, uploads, failures, rowVars, playerVars, svcVars, lockVars, viewVars>>

-----------------------------------------------------------------------------
(* Completion checks and their handlers *)

StartCheck(m) ==
  /\ checks[m] > 0
  /\ checks' = [checks EXCEPT ![m] = @ - 1]
  /\ GetLock(m, Check)
  /\ UNCHANGED <<monitor, upload, uploads, failures, rowVars, playerVars, svcVars, viewVars>>

Checking(m, l) == Holds(m, l, "check") /\ cs[m][l] = "enter"

\* Already processed, or a report is still missing.
CheckIdle(m, l) ==
  /\ Checking(m, l)
  /\ AlreadyProcessed(m) \/ (~IsAborted(m) /\ ~BothReported(m))
  /\ Release(m, l)
  /\ UNCHANGED <<lockOf, rowVars, playerVars, svcVars, taskVars, viewVars>>

\* Mutant: the abort is handled and not marked as processed.
HandleAbortAgain(m, l) ==
  /\ UNCHANGED processed
  /\ ReleasePlayers(PlayersOf(m))
  /\ CancelListeners(PlayersOf(m))
  /\ TakeCallbacks(m, l)
  /\ Suspend(m, l, "abort")

\* _handle_match_abort up to its first callback
HandleAbort(m, l) ==
  /\ processed' = processed \cup {m}
  /\ ReleasePlayers(PlayersOf(m))
  /\ CancelListeners(PlayersOf(m))
  /\ TakeCallbacks(m, l)
  /\ Suspend(m, l, "abort")

CheckAborts(m, l) ==
  /\ Checking(m, l) /\ ~AlreadyProcessed(m) /\ IsAborted(m)
  /\ HandleAbort(m, l)
  /\ UNCHANGED <<monitored, bothConfirmed, confirmations, told, clicks, rowVars, taskVars>>

\* The reports agree: match_result and player 1's MMR are written, then the
\* ranking refresh is awaited.
CheckCompletes(m, l) ==
  /\ Checking(m, l) /\ ~AlreadyProcessed(m) /\ ~IsAborted(m)
  /\ BothReported(m) /\ Agree(m)
  /\ result' = [result EXCEPT ![m] = report[m][1]]
  /\ mmr' = [mmr EXCEPT ![m][players[m][1]] = @ + 1]
  /\ Suspend(m, l, "mmr1")
  /\ UNCHANGED <<players, report, aborts, pending, playerVars, svcVars, taskVars, viewVars>>

\* The reports differ: the callbacks are told first.
CheckConflicts(m, l) ==
  /\ Checking(m, l) /\ ~AlreadyProcessed(m) /\ ~IsAborted(m)
  /\ BothReported(m) /\ ~Agree(m)
  /\ TakeCallbacks(m, l)
  /\ Suspend(m, l, "conflict")
  /\ UNCHANGED <<monitored, processed, bothConfirmed, confirmations,
                 rowVars, playerVars, taskVars, viewVars>>

RateSecond(m, l) ==
  /\ At(m, l, "mmr1")
  /\ mmr' = [mmr EXCEPT ![m][players[m][2]] = @ + 1]
  /\ Suspend(m, l, "mmr2")
  /\ UNCHANGED <<players, report, result, aborts, pending,
                 playerVars, svcVars, taskVars, viewVars>>

\* trigger_refresh raises: the handler gives the match up and only stops to
\* monitor it.  The match is not processed and the players are not released.
RateFails(m, l) ==
  /\ At(m, l, "mmr1") \/ At(m, l, "mmr2")
  /\ failures < MaxFailures
  /\ failures' = failures + 1
  /\ StopMonitoring(m, l, FALSE)
  /\ UNCHANGED <<processed, checks, upload, uploads, rowVars, playerVars, viewVars>>

\* mmr_change is stored, the match is processed, its players are released once;
\* a second release follows the callbacks.
Complete(m, l) ==
  /\ At(m, l, "mmr2")
  /\ processed' = processed \cup {m}
  /\ ReleasePlayers(PlayersOf(m))
  /\ CancelListeners(PlayersOf(m))
  /\ TakeCallbacks(m, l)
  /\ Suspend(m, l, "complete")
  /\ UNCHANGED <<monitored, bothConfirmed, confirmations, told, clicks, rowVars, taskVars>>

\* One awaited callback returns.  A notification view that already gave way to
\* a found view ignores the notice.
Deliver(m, l, c) ==
  /\ lockQ[m][l] # <<>> /\ c \in pending[m][l]
  /\ pending' = [pending EXCEPT ![m][l] = @ \ {c}]
  /\ LET kind == c[1]
         p == c[2]
         status == cs[m][l]
         heard == kind = "found" \/ view[m][p] \in {"notification", "expired"}
     IN /\ told' = IF heard /\ status # "timeout"
                   THEN [told EXCEPT ![m] = @ \cup {<<c, status>>}] ELSE told
        /\ view' = [view EXCEPT ![m][p] =
             CASE kind = "notification" /\ heard ->
                    IF status = "timeout" THEN "expired" ELSE "closed"
               [] kind = "found" /\ status # "timeout" /\ @ = "live" -> "closed"
               [] OTHER -> @]
        /\ chan' = IF kind = "found" /\ status # "timeout" /\ view[m][p] = "live"
                   THEN [chan EXCEPT ![p] = None] ELSE chan
  /\ UNCHANGED <<lockOf, lockQ, cs, playerState, queue, listening, joins, clicks,
                 rowVars, svcVars, taskVars>>

Told(m, l, status) == At(m, l, status) /\ pending[m][l] = {}

EndAbort(m, l) ==
  /\ Told(m, l, "abort")
  /\ StopMonitoring(m, l, Head(lockQ[m][l]) = Monitor)
  /\ UNCHANGED <<processed, checks, upload, uploads, failures, rowVars, playerVars, viewVars>>

EndComplete(m, l) ==
  /\ Told(m, l, "complete")
  /\ ReleasePlayers(PlayersOf(m))
  /\ CancelListeners(PlayersOf(m))
  /\ StopMonitoring(m, l, FALSE)
  /\ UNCHANGED <<processed, checks, upload, uploads, failures, told, clicks, rowVars>>

\* Mutant: a conflict is not marked as processed.
EndConflictOpen(m, l) ==
  /\ Told(m, l, "conflict")
  /\ ReleasePlayers(PlayersOf(m))
  /\ CancelListeners(PlayersOf(m))
  /\ StopMonitoring(m, l, TRUE)
  /\ UNCHANGED <<processed, checks, upload, uploads, failures, told, clicks, rowVars>>

EndConflict(m, l) ==
  /\ Told(m, l, "conflict")
  /\ ReleasePlayers(PlayersOf(m))
  /\ CancelListeners(PlayersOf(m))
  /\ processed' = processed \cup {m}
  /\ StopMonitoring(m, l, TRUE)
  /\ UNCHANGED <<checks, upload, uploads, failures, told, clicks, rowVars>>

-----------------------------------------------------------------------------
(* The abort timer *)

MonitorWakes(m) ==
  /\ monitor[m] = "sleep"
  /\ monitor' = [monitor EXCEPT ![m] = "run"]
  /\ GetLock(m, Monitor)
  /\ UNCHANGED <<checks, upload, uploads, failures, rowVars, playerVars, svcVars, viewVars>>

\* The views are told that the window closed; the callbacks stay registered.
\* A monitor whose match is no longer monitored has been cancelled
\* (MonitorIsMonitored).
MonitorExpires(m, l) ==
  /\ Holds(m, l, "monitor") /\ cs[m][l] = "enter" /\ m \in monitored
  /\ pending' = [pending EXCEPT ![m][l] = callbacks[m]]
  /\ Suspend(m, l, "timeout")
  /\ UNCHANGED <<rowVars, playerVars, svcVars, taskVars, viewVars>>

\* The match was resolved meanwhile.
MonitorFindsResult(m, l) ==
  /\ Told(m, l, "timeout") /\ result[m] # None
  /\ ReleaseAndCancelMonitor(m, l)
  /\ UNCHANGED <<checks, upload, uploads, failures, rowVars, playerVars, svcVars, viewVars>>

\* _handle_unconfirmed_abort; its check does nothing on a processed match.
MonitorAborts(m, l) ==
  /\ Told(m, l, "timeout") /\ result[m] = None
  /\ Cardinality(Confirmed(m)) < 2
  /\ report' = [report EXCEPT ![m] = <<UnconfirmedCode(m, players[m][1]),
                                       UnconfirmedCode(m, players[m][2])>>]
  /\ result' = [result EXCEPT ![m] = -1]
  /\ IF AlreadyProcessed(m)
     THEN /\ ReleaseAndCancelMonitor(m, l)
          /\ UNCHANGED <<view, playerVars, processed, callbacks>>
     ELSE /\ HandleAbort(m, l)
          /\ UNCHANGED monitor
  /\ UNCHANGED <<players, mmr, aborts, monitored, bothConfirmed, confirmations,
                 checks, upload, uploads, failures, told, clicks>>

-----------------------------------------------------------------------------
PlayerStep ==
  \/ \E p \in Player : JoinQueue(p) \/ LeaveQueue(p)
  \/ \E m \in Match, p, q \in Player : CreateMatch(m, p, q)
  \/ \E m \in Match, p \in Player :
       \/ ClickConfirm(m, p) \/ ClickAbort(m, p)
       \/ \E v \in Outcome : StartUpload(m, p, v)

ViewStep(m, p) ==
  \/ ShowMatch(m, p) \/ ShowMatchFails(m, p)
  \/ BuildFoundView(m, p) \/ PublishFoundView(m, p) \/ FoundViewFails(m, p)

UploadStep(m, p) == RecordReport(m, p) \/ OpponentNotified(m, p)

HolderStep(m, l) ==
  \/ ConfirmBegins(m, l) \/ ConfirmEndsAlone(m, l) \/ ConfirmEndsBoth(m, l)
  \/ AbortMatch(m, l) \/ RecordFirst(m, l) \/ RecordSecond(m, l)
  \/ CheckIdle(m, l) \/ CheckAborts(m, l) \/ CheckCompletes(m, l)
  \/ CheckConflicts(m, l) \/ RateSecond(m, l) \/ RateFails(m, l) \/ Complete(m, l)
  \/ EndAbort(m, l) \/ EndComplete(m, l) \/ EndConflict(m, l)
  \/ MonitorExpires(m, l) \/ MonitorFindsResult(m, l) \/ MonitorAborts(m, l)
  \/ \E c \in Callback : Deliver(m, l, c)

Next ==
  \/ PlayerStep
  \/ \E m \in Match, p \in Player : ViewStep(m, p) \/ UploadStep(m, p)
  \/ \E m \in Match, l \in LockObj : HolderStep(m, l)
  \/ \E m \in Match : StartCheck(m) \/ MonitorWakes(m)

\* The event loop runs every ready task; sleeps end; awaited Discord calls and
\* executor jobs return.  Players and the matchmaker owe nothing.
Fairness ==
  /\ \A m \in Match : WF_vars(StartCheck(m)) /\ WF_vars(MonitorWakes(m))
  /\ \A m \in Match, l \in LockObj : WF_vars(HolderStep(m, l))
  /\ \A m \in Match, p \in Player : WF_vars(ViewStep(m, p)) /\ WF_vars(UploadStep(m, p))

Spec == Init /\ [][Next]_vars
FairSpec == Spec /\ Fairness

-----------------------------------------------------------------------------
(* Safety *)

Handling(m, l) ==
  lockQ[m][l] # <<>> /\ cs[m][l] \in {"mmr1", "mmr2", "complete", "abort", "conflict"}

\* At most one task at a time carries out the end of a match, although the lock
\* that should guarantee it is popped and re-created while tasks use it.  Only a
\* ranking refresh that raised lets two tasks rate the same match at once.
OneHandler ==
  \A m \in Match, k, l \in LockObj :
    Handling(m, k) /\ Handling(m, l) => k = l \/ (result[m] \in Outcome /\ failures > 0)

\* A match changes the MMR of nobody but its players, only with the result on which
\* both reports agree, and of each player at most once unless a refresh raised.
RatedOnceAsReported ==
  \A m \in Match, p \in Player : mmr[m][p] > 0 =>
    /\ failures = 0 => mmr[m][p] = 1
    /\ p \in PlayersOf(m)
    /\ result[m] \in Outcome /\ report[m] = <<result[m], result[m]>>

\* An aborted match never changes any MMR: no "zombie" completion after an abort.
AbortedNeverRated ==
  \A m \in Match : result[m] = -1 => \A p \in Player : mmr[m][p] = 0

\* All terminal notices about a match say the same thing.
OneOutcomeTold ==
  \A m \in Match : Cardinality({t[2] : t \in told[m]}) <= 1

\* A match that has been processed keeps none of its players locked out of the
\* queue.
ProcessedFreesPlayers ==
  \A m \in processed, p \in Player : playerState[p] # m

\* A running abort timer belongs to a match that is still monitored.
MonitorIsMonitored == \A m \in Match : monitor[m] # "none" => m \in monitored

\* Once set, match_result never changes: the players cannot abort, report or
\* complete a match that is over.
ResultIsFinal ==
  [][\A m \in Match : result[m] # None => result'[m] = result[m]]_vars

\* An abort costs exactly one of the aborter's monthly aborts, once per match,
\* and the system's own aborts cost nobody anything.
AbortsAreCharged ==
  [][\A p \in Player : aborts'[p] # aborts[p] =>
       /\ aborts'[p] = aborts[p] - 1
       /\ \E m \in Match : /\ result[m] = None /\ result'[m] = -1
                           /\ \E i \in 1..2 : players[m][i] = p /\ report'[m][i] = -3]_vars

\* The notification views give way to the found views at most once, and only
\* after both players pressed Confirm.
RevealNeedsBoth ==
  [][\A m \in Match, p \in Player :
       view'[m][p] = "building" /\ view[m][p] # "building"
         => PlayersOf(m) \subseteq confirmations[m] /\ m \in monitored]_vars

-----------------------------------------------------------------------------
(* What every step preserves, for the proofs in MatchLifecycle_proof *)

\* The tasks that hold or wait for some lock of m.
Waiting(m) == UNION {ToSet(lockQ[m][l]) : l \in LockObj}

\* Nothing in the program refers to m.
Blank(m) ==
  /\ Waiting(m) = {} /\ checks[m] = 0 /\ monitor[m] = "none"
  /\ m \notin processed /\ bothConfirmed[m] = {}
  /\ \A p \in Player : /\ view[m][p] = "none" /\ upload[m][p].pc = "none"
                       /\ chan[p] # m /\ playerState[p] # m

BlankBeforeCreation == \A m \in Match : players[m] = <<>> => Blank(m)
ViewersPlay ==
  \A m \in Match, p \in Player :
    view[m][p] # "none" \/ p \in bothConfirmed[m] => p \in PlayersOf(m)
AbortersPlay ==
  \A m \in Match, p \in Player : <<"abort", p>> \in Waiting(m) => p \in PlayersOf(m)
LockedPlayersPlay ==
  \A m \in Match, p \in Player : playerState[p] = m => p \in PlayersOf(m)

\* Nothing refers to a match before it is created; whoever sees it, aborts it or
\* is locked out of the queue by it is one of its two players.
OnlyItsPlayers ==
  BlankBeforeCreation /\ ViewersPlay /\ AbortersPlay /\ LockedPlayersPlay

\* A result other than an abort is what both reports of the match still say, with
\* reports, aborts and the timer all writing to the row.
ResultIsReported ==
  \A m \in Match : result[m] \in Outcome => report[m] = <<result[m], result[m]>>

InLine(m, l) == ToSet(lockQ[m][l])

\* The holder of a lock has callbacks to await only in the states that await them,
\* and only the monitor waits out the abort window.
HolderShape(m) ==
  \A l \in LockObj :
    /\ lockQ[m][l] = <<>> => cs[m][l] = "enter"
    /\ pending[m][l] # {} => cs[m][l] \in {"timeout", "complete", "abort", "conflict"}
    /\ cs[m][l] = "timeout" => lockQ[m][l] # <<>> /\ Head(lockQ[m][l]) = Monitor

Once(q, task) == \A i, j \in 1..Len(q) : q[i] = task /\ q[j] = task => i = j

\* The task of the abort timer is in line for a lock, once, only while it runs.
OneMonitor(m) ==
  \A l \in LockObj :
    /\ Monitor \in InLine(m, l) => monitor[m] = "run"
    /\ Once(lockQ[m][l], Monitor)

\* Code -1 in a report comes with the result of an abort.
ReportCodes(m) == \A i \in 1..2 : report[m][i] = -1 => result[m] = -1

\* No failed refresh interrupted the rating of m; m is not over yet either.
Sound(m) == result[m] \in Outcome => failures = 0
Open(m)  == m \notin processed /\ Sound(m)

\* Before the service monitors an open match nobody has acted on it.
Unwatched(m) ==
  Open(m) /\ m \notin monitored =>
    /\ Waiting(m) = {} /\ checks[m] = 0
    /\ \A p \in Player : view[m][p] \in {"none", "offered", "lost"}

\* Until both players have confirmed, and their confirmations have stopped the abort
\* timer, nobody can report an open match, and only an abort has it checked.
Unrevealed(m) ==
  Open(m) /\ (m \notin monitored \/ monitor[m] # "none") =>
    /\ result[m] \notin Outcome
    /\ checks[m] > 0 \/ Check \in Waiting(m) => result[m] = -1
    /\ \A p \in Player : /\ view[m][p] \notin {"building", "found", "live"}
                         /\ upload[m][p].pc = "none" /\ chan[p] # m
                         /\ <<"record1", p>> \notin Waiting(m)
                         /\ <<"record2", p>> \notin Waiting(m)

\* Of an open match that is not aborted, or whose conflict is being told, every
\* completion check is in line for the registered lock.
ChecksInLine(m) ==
  Open(m) /\ (result[m] # -1 \/ \E k \in LockObj : cs[m][k] = "conflict") =>
    \A l \in LockObj : Check \in InLine(m, l) => l = lockOf[m]

\* A task that rates an open match or tells its conflict holds the registered lock,
\* and nothing is left that could pop it.
HandlerWatches(m) ==
  Sound(m) => \A l \in LockObj : cs[m][l] \in {"mmr1", "mmr2", "conflict"} =>
    m \notin processed /\ m \in monitored /\ monitor[m] = "none" /\ l = lockOf[m]

\* What a handler tells and does fits the result of the match.
HandlerResult(m) ==
  \A l \in LockObj :
    /\ cs[m][l] \in {"abort", "complete"} => m \in processed
    /\ cs[m][l] \in {"mmr1", "mmr2", "complete"} => result[m] \in Outcome
    /\ cs[m][l] \in {"abort", "conflict"} => result[m] \notin Outcome

HandlerPc == {"mmr1", "mmr2", "complete", "abort", "conflict"}
Alone(m) ==
  Sound(m) => \A k, l \in LockObj : cs[m][k] \in HandlerPc /\ cs[m][l] \in HandlerPc => k = l

\* The locks of m do their duty.
Guarded(m) ==
  /\ Unwatched(m) /\ Unrevealed(m) /\ ChecksInLine(m)
  /\ HandlerWatches(m) /\ HandlerResult(m) /\ Alone(m)

\* A notice fits the result, the other notices and the handler that is telling.
ToldOutcome(m) ==
  \A t \in told[m] :
    /\ t[2] \in {"complete", "abort", "conflict"}
    /\ t[2] = "complete" => m \in processed /\ result[m] \in Outcome
    /\ t[2] # "complete" => result[m] \notin Outcome
    /\ m \in processed \/ \E l \in LockObj : cs[m][l] = "conflict"
    /\ \A u \in told[m] : u[2] = t[2]
    /\ \A l \in LockObj : cs[m][l] \in {"abort", "conflict"} => t[2] = cs[m][l]

\* An open match with a result is being rated; player 1 is rated before player 2.
Rated(m) ==
  /\ players[m] # <<>> => players[m][1] # players[m][2]
  /\ \A p \in Player : mmr[m][p] > 0 => p \in PlayersOf(m) /\ result[m] \in Outcome
  /\ failures = 0 =>
      /\ \A p \in Player : mmr[m][p] <= 1
      /\ \A l \in LockObj : cs[m][l] = "mmr1" => mmr[m][players[m][2]] = 0
      /\ m \notin processed /\ result[m] \in Outcome =>
           \E l \in LockObj : cs[m][l] \in {"mmr1", "mmr2"}

-----------------------------------------------------------------------------
(* Liveness *)

\* A match whose abort timer runs is either revealed to its players or resolved,
\* whatever the players do and whichever views failed.
TimerResolves ==
  \A m \in Match : monitor[m] = "sleep" /\ m \notin processed ~>
    (m \in processed \/ \E p \in Player : view[m][p] = "building")

\* Two reports always end the match.
ReportsResolve == \A m \in Match : BothReported(m) ~> m \in processed

-----------------------------------------------------------------------------
(* A claim of the documentation that the code does not keep: the one property  *)
(* of a run that TLC finds violated.                                           *)

\* "Guard: Check if MMR has already been calculated for this match"
\* (_calculate_and_write_mmr).  The guard never skips: a check that follows a
\* failed one rates player 1 again.
RatedAtMostOnce == \A m \in Match, p \in Player : mmr[m][p] <= 1
=============================================================================
