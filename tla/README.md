# Verification of the EvoLadderBot backend

EvoLadderBot is a Discord bot that runs a StarCraft ladder: players queue, a
matchmaker pairs them, each match is confirmed or aborted, played, reported by
uploading replays, rated, and written to a database behind an in-memory copy.
This directory holds TLA+ specifications of the parts of it where the order of
events decides what happens, the TLC configurations that check them on small
instances, and proofs, checked by TLAPS, of what holds for every instance.

Paths below are relative to the repository; `services/` is
`src/backend/services/`.

## 1. The system

Everything that changes shared state runs on one asyncio event loop. There are
no locks against other threads: two tasks interleave only where one of them
awaits something that really suspends it, and an `await` of an uncontended
`asyncio.Lock`, of a coroutine that itself never suspends, or of `put` on an
unbounded queue does not. Blocking calls (the database, the write-ahead log,
replay parsing, the refresh of the rankings, the filters of the leaderboard) run
in an executor and are awaited.

| Component | State it keeps | Operations |
|---|---|---|
| Match completion (`services/match_completion_service.py`) | `monitored_matches`, `processed_matches`, callbacks, confirmations, `processing_locks`, one abort-timer task per match | start/stop monitoring, confirm, check completion, handle completion, abort and conflict |
| Matchmaker (`services/matchmaking_service.py`) | queue `players`, `recent_activity`, running flag | join, leave, waves, `attempt_match`, record a result, abort, rate, release players |
| Write-behind (`services/data_access_service.py`) | `_write_queue`, `_write_event`, WAL file, dead-letter file | every write method, worker, replay, load, shutdown |
| Rows in memory (`services/data_access_service.py`) | data frames of players, ratings, matches, preferences | getters and one method per change, each with a job; recount at start-up and midnight |
| Database (`src/backend/db/db_reader_writer.py`) | the tables | what the worker's jobs call; judges reports and aborts a second time |
| Notification (`services/notification_service.py`) | a queue per subscribed player | subscribe, unsubscribe, publish |
| Queue command (`src/bot/commands/queue_command.py`) | searching, notification and found views, channel map | join, cancel, confirm, abort, reveal, replay upload |
| Admin (`services/admin_service.py`, `commands/admin_command.py`) | confirmation prompts, the file of admins | resolve a match, adjust ratings, remove from the queue, unblock, ban, reset aborts, audit |
| Account commands (`setup`, `setcountry`, `termsofservice`, `profile`; `services/user_info_service.py`) | open messages with what was chosen | create or rename the player, setup, country, terms |
| Ranking (`services/ranking_service.py`) | `_rankings`, replaced as a whole | refresh, look up |
| Leaderboard (`commands/leaderboard_command.py`, `services/leaderboard_service.py`) | page and filters of each message | page, cycle, select, fetch, render |
| Message queue (`src/bot/message_queue.py`) | two queues of Discord calls with futures | enqueue, worker, retry, stop |
| Process pool, replay parsing, storage, monitors | pool, counters | not modelled |

How they interact: the matchmaker writes match rows through the data access
service and publishes a match to the notification service; the searching view
of each player listens there and becomes a notification view, which registers a
callback with the completion service and so starts its monitoring. When both
players confirm, the service calls the views back and each becomes a found view
with a callback of its own. An upload reports to the matchmaker, which writes
the row and asks the completion service for a check; the check rates the match
through the matchmaker, which awaits a ranking refresh after each rating, then
awaits the callbacks, and releases the players. Admins write the same rows past
the completion service or through it. Every row written is a job of the
write-behind worker, and every call to Discord a job of the message queue.

The hard behaviours are (a) a lock per match that is *popped from its
dictionary while tasks hold it or wait for it*, so that a later task creates a
second lock; (b) an abort timer, two players, uploads and spawned checks that
race for one match; (c) awaits between a decision and its effect, in waves,
ratings and resolutions; (d) views that register late or not at all, and time
out when their player has moved on; (e) a worker with a wake-up event that some
writers forget to set, with retries that reorder jobs; (f) two judges of a
match, memory at once and the database later; (g) a crash or a restart at any
point of startup, writing and shutdown; (h) a thread that publishes rankings
while pages are put together. `PROJECT.json` lists each such hazard at its line,
with the properties that cover it.

What makes each component correct:

- *Match completion*: one task at a time ends a match; a timer always ends;
  two reports always end the match; all notices say the same; a processed match
  keeps no player locked.
- *Matchmaker*: results are final, are what both reports say, are rated once;
  an aborted match is never rated; an abort is charged once, to the aborter; a
  wave pairs each player at most once and nobody with themselves, and leaves no
  possible pair; queue, state, views and matches agree on where a player is.
- *Write-behind*: no write is executed twice while the process runs, and none is
  lost but those whose own method hides the failure; rows reach the database in
  order; what was logged survives a crash.
- *Admin*: ratings are what the rows of the matches say, however often a match
  is resolved; reports survive; a match counts once; a resolution ends.
- *Rows and database*: both judges come to the same verdict; a final match is
  one game; the database follows memory, and the log tells of the changes it takes.
- *Standings*: the rankings catch up with the ratings; a message shows what was
  asked for.
- *Message queue*: every call is made or given up once, by priority, and its
  caller is answered while interactions leave room; calls are spaced.

## 2. The modules

| Module | Models | Checked by | Proofs |
|---|---|---|---|
| `MatchLifecycle` | the life of a match: completion service, the matchmaker's handlers for reports, aborts and rating, the two match views | `MCMatchLifecycle` | `MatchLifecycle_proof` |
| `Matchmaking` | queue, waves, pairing, searching views, notifications, admin commands on the queue | `MCMatchmaking` | `Matchmaking_proof` |
| `AdminResolution` | resolutions and adjustments by admins beside the completion checks | `MCAdminResolution` | `AdminResolution_proof` |
| `Ladder` | matches and games in memory and in the database, recount and restart | itself | `Ladder_proof` |
| `PlayerAccount` | the row of a player, its jobs and log, the commands and prompts that change it | `MCPlayerAccount` | `PlayerAccount_proof` |
| `Standings` | ratings, rankings and the pages of `/leaderboard` | `MCStandings` | `Standings_proof` |
| `WriteBehind` | the worker of the data access service, from startup to shutdown or crash | itself | `WriteBehind_proof` |
| `MessageQueue` | the queue of Discord calls; implements `OutboundCalls` | `MCMessageQueue` | `MessageQueue_proof` |
| `OutboundCalls` | what the message queue promises its callers | `MCMessageQueue` | |

The modules meet at the operations of the code they share. `Matchmaking` makes
matches and only ends them; `MatchLifecycle` lives them, taking the wave as one
step; `AdminResolution` takes from it the completion check under its lock and
adds ratings and a second author of results; `Ladder` keeps of all of them the
writes to the match row and the games and follows those into the database.
`WriteBehind` is the worker behind `Ladder` and `PlayerAccount`, which have it
without faults. The MC modules only give constants their values.

### MatchLifecycle

*State.* The match row is the functions `players`, `report`, `result`, `mmr`
and the table `aborts`; a player's queue lock is `playerState` (`in_match:<id>`
is the match itself). `monitored`, `processed`, `callbacks`, `bothConfirmed`
and `confirmations` are the fields of the service; `None` in `confirmations`
is a key that was popped. Locks are objects apart from the dictionary:
`lockOf[m]` is what `processing_locks` holds for `m`, and `lockQ[m][l]` is the
FIFO of tasks of lock `l`, whose head holds it. `cs[m][l]` says at which await
the holder is suspended, `pending[m][l]` which callbacks it has yet to await.
`monitor` is the abort-timer task, `checks` the number of checks spawned with
`create_task` and not yet started, `upload` the `on_message` task of each
player. `view` is what each player sees of a match; `told` is a history of the
terminal notices that were delivered.

*Actions.* An action is what one task does between two suspending awaits.

| Code | Actions |
|---|---|
| join and cancel of the queue | `JoinQueue`, `LeaveQueue` |
| `attempt_match` with the publication | `CreateMatch` |
| `_listen_for_match` | `ShowMatch`, `ShowMatchFails` |
| confirm button, `confirm_match` | `ClickConfirm`, `ConfirmBegins`, `ConfirmEndsAlone`, `ConfirmEndsBoth` |
| the found view | `BuildFoundView`, `PublishFoundView`, `FoundViewFails` |
| abort button, `abort_match` | `ClickAbort`, `AbortMatch` |
| replay upload, `record_match_result` | `StartUpload`, `RecordReport`, `RecordFirst`, `RecordSecond`, `OpponentNotified` |
| `check_match_completion` | `StartCheck`, `CheckIdle`, `CheckAborts`, `CheckCompletes`, `CheckConflicts` |
| `_handle_match_completion`, `_calculate_and_write_mmr` | `RateSecond`, `RateFails`, `Complete`, `EndComplete` |
| `_handle_match_abort`, `_handle_match_conflict` | `EndAbort`, `EndConflict` |
| awaited callbacks of the views | `Deliver` |
| `_monitor_match_completion` | `MonitorWakes`, `MonitorExpires`, `MonitorFindsResult`, `MonitorAborts` |

*Abstractions.* MMR is the number of times a match changed it, since what could
go wrong is how often and for whom. A cancelled task is removed at once: it runs
in the next turn of the loop, before any awaited reply can arrive. Callbacks of
one match are awaited in any order. The polling loop behind the abort timer is
not modelled: a reveal cancels the timer before its sleep can end with
everybody confirmed, so it is never entered.
`wait_for_match_completion` and its waiters, the reminder tasks, and the checks
of a parsed replay are left out: they read state and change none of it. The
manual report dropdown raises before it reports. There is no restart: the
service keeps nothing over one.

### WriteBehind

*State.* A write is a number, in the order of the writes to memory, and a row
holds the number of its last write: `mem` in memory, `db` in the database.
`queue` and `event` are `_write_queue` and `_write_event`; `spawned` are the
jobs of tasks created to queue them (`Deferred` rows: match reports, whose
synchronous writer uses `create_task`). `Silent` rows are those whose writer
puts the job without setting the event. `worker` and `job` say where the
background worker is suspended and with which job; `wal` is the table of the
local log; `closer` is where `shutdown` is suspended.

*Actions.* `ReplayWal` and `LoadTables` are startup in its order; `WriteRow`
and `QueueWrite` the writers; `WorkerWakes`, `WorkerStops`, `LogJob`,
`LogFails`, `ExecuteJob`, `ExecuteFails`, `FailureSwallowed` the worker, which
takes its next job in the step that finishes the last (there is no await between
them);
`BeginShutdown`, `Drained`, `Joined`, `JoinTimesOut`, `CloseWal` the shutdown;
`Crash` may strike anywhere outside an await-free stretch.

*Failures.* A database call that raises does so in a method of `DatabaseWriter`.
Some let the exception through: the job is retried and at last dead-lettered
(`ExecuteFails`). Others, among them those of the abort count, the state and the
ban of a player, of an abort and of an admin's resolution, catch it, print it and
return `False`, which `_process_write_job` ignores: the job counts as done and the
write is gone (`FailureSwallowed`). Which of the two a write is
(`catching`) depends on the kind of its job and is chosen with the write; the
method for reports, the deferred kind, raises. `swallowed` are the writes lost
that way.

*Abstractions.* The kinds of job and their SQL are one: a job sets a row. The
log does not store the retry count, so a replayed job starts at 0. The 30 and
10 second waits of shutdown are the two ways they end; a database call that
outlasts them counts as a fault, and goes on in its thread after the worker is
cancelled. Reconciliation and name corrections are ordinary writes.

### Matchmaking

*State.* `players` is the list of queue entries in its order, so that a player
may be listed twice; `state` is `player_state`; `joining` are the calls of
`add_player` that wait for a refresh. `views` are the `QueueSearchingView`
objects ever made, each with the state of its listener task and the inbox its
subscription owns; `manager` and `listener` are the dictionaries of the view
manager and of the notification service, and a view subscribed behind another
one reads that one's queue, as in the code. `wave` is the loop of the matchmaker:
asleep, creating the matches of a plan that was made from a copy of the queue, or
dead.

*Actions.* `JoinQueue`, `JoinNewRace` with `AddPlayer` or `JoinFails`,
`ViewReady`, `CancelQueue`, `ViewTimesOut` are the player; `BeginWave` is
`attempt_match` up to its first await, `CreateMatch` each creation with the
states set behind it and, after the last, the removal from the queue,
`CreateFails` the exception that ends the loop; `Publish`, `ListenerWakes`,
`ShowMatch`, `ShowFails` the notification; `EndMatch` and `ReleaseAgain` the two
releases of `MatchLifecycle`; `AdminRemoveQueue`, `AdminClearQueue` and
`AdminUnblockQueue` the commands.

*The pairing* is a chain of operators, one per method: `Equalized` (`Dealt`,
`Rebalanced`), `Filtered`, `Candidates`, `Selected`, `Refined`. Means are
compared by cross-multiplication instead of division; sorts are stable, as
Python's are.

*Abstractions.* The windows are those of the code with the same value for every
queue pressure. The unscheduled events (`Events`) happen at most `MaxEvents`
times; a property that one of them breaks says so by its name.

### AdminResolution

*State.* `mmr`, `games`, `state`, `queue`, and of each match the row with the
ratings of its creation, the reports, `match_result` and `mmr_change`;
`handler` is the task in the critical section of a match and what it still has to
write, with the rating of the second player as it was read; `task` is the command
each admin runs, with the reports it saved. Ghosts: `said`, `adjusted`,
`counted`, `told`, and `crossed`, `stale`, `reopened`, explained below.

*Actions.* `ReportCheck`, `RateSecond`, `Complete`, `EndCheck` are
`check_match_completion`, `CloseWindow` and `WindowClosed` the end of the time
to confirm. `ResolveFresh`, `FreshCheck`, `FreshEnds` are `_resolve_fresh_match`,
which writes simulated reports and runs the check; `ResolveTerminal`,
`RestoreSecond`, `ApplyFirst`, `ApplySecond`, `TerminalEnds` are
`_resolve_terminal_match`, which suspends in each `update_player_mmr` and takes no
lock. `AdjustPlayerMMR` is `/admin adjust_mmr`.

*Ghosts.* The code makes no promise when two tasks work on one match or rate one
player at the same time, when ratings moved between a match and its resolution
(the resolution takes them back), or when a decided draw is decided again (0 is
read as no result, so the match is rated twice). The properties are about the
matches none of this happened to; the actions have all of it.

### Ladder

*State.* Every match twice, `mem` and `db`; the games twice, `games` and
`dbGames`; the jobs of reports in tasks (`deferred`) and in the queue; `rating`,
a match between the two writes of its ratings; `late`, the time for aborts is
over; `live`, the matches of this run of the bot.

*Actions.* `InsertMatch` and `LoadMatch` are the two calls of `create_match`,
with the trim to the newest `Keep`; `Report`, `Abort`, `SystemAbort` the writes
to the row; `RateFirst`, `RateSecond`, `RecordChange`, `EndConflict` the rating;
`Midnight` and `Restart` the recount; `WriteNext` the job at the head, with what
`update_player_report_1v1` and `abort_match_1v1` decide by themselves.

`lost` holds the matches whose rows the writer set at odds: an abort refused in
the database, a report written over an abort or after the result it led to.
Nobody reads the return value of the writer, so these stay apart from memory
until a restart; the property is about the others. `undone` holds those whose
decided result the writer took back: a report that was overtaken by the result is
judged again, with a report of the other player that memory has meanwhile
replaced, and the final result becomes a conflict (`TakesBack`). A restart before
the last job is written then finds games and no match to count.

### PlayerAccount

*State.* One player: the row in memory and in the database, the queued jobs each
with its entries for the log, the tasks, two messages of the player and a prompt
of each admin. *Actions* are the commands (with the guard and the creation or
renaming each begins with), the steps of the setup, the confirmations, the tasks
and the writer. What a job changes, and what it logs with old and new value, is
`InfoJob` or `FieldJob`, after the two styles of the data service. The user info
service logs the same change again, later and in words of its own
(`Repeats`, and a fixed "False to True" for an answer to the terms); these
repetitions are tasks.

*The log.* An entry carries the name of the player, and the log takes none
without one (`IsTaken`): the calls that set one field pass the name of the row,
which is `None` before the setup, so that their entry is refused and ends in the
dead-letter file, while the change is made. `log` keeps of each field the last
entry the database took (`last`), the value it was last said to have by
anybody (`newest`), and whether it refused the last one (`refused`).
`AuditTells` is about the entries of the data service: they form a chain, with
two gaps it names. Behind a refused entry nothing is known of what the log holds,
and the entry of a ban without a row says nothing of the row made later. That the
log has every ban is therefore false. The repetitions are not part of
the chain; `NewestIsTrue` says of them that once everything is written the value
a field was last said to have is the one it has. For the country this is false: its
change and the repetition are two tasks, and a setup may come between.

### Standings

*State.* `row` are the ratings; `waiting`, `fresh` and `ranking` the refreshes
waiting for the lock, the ranking of the one that holds it, and the published
one; `view` what a message has chosen, `lookup` the page whose ranks are looked
up on the event loop, `fetches` those in the executor, `shown` what was rendered.
*Actions* are the changes of ratings, the two halves of a refresh, the two
halves of a fetch, the rendering in any order, and every button and select. The
lookup is one step with a free choice of the row at which a new ranking was
published (`Table`).

### MessageQueue and OutboundCalls

*State.* The two queues, the job in hand, its retries, and the state of each
future; `gap` is the next allowed time as seen from now, in ticks of half an
interval. *Actions* are the callers, start and stop, and the worker between two
awaits. `OutboundCalls` has no queues, clock or loop: a set of calls asked for,
one in hand, attempts and outcomes. The refinement maps the union of the two
queues to `waiting`, the job in hand, `retries` and `future` to their
counterparts; `Promise` says that every behaviour of the queue is one of the
contract: a notification is taken only when no interaction waits, a call is
tried at most four times and not after it had an outcome. A member of `Job` is
a place for a call that is outstanding: once it has an outcome the place may be
used for another, so that two interactions are a load that never ends.

## 3. What the runs check

`CHECK_DEADLOCK FALSE` is set everywhere because the bounded systems do stop:
when the clicks, uploads, waves, writes or commands are used up and all tasks
have ended.

### Passing runs

| Run | Instance | Shows |
|---|---|---|
| `MatchAborts` | 2 players, 1 match, 4 locks, 1 click of each button, 1 upload, outcomes 0 and 1, 1 abort left, 1 ranking refresh that raises | `OneHandler`: at most one task carries out the end of a match although its lock is popped and re-created, unless a refresh raised and the match has a result; `ResultIsFinal`; `AbortedNeverRated`: no completion after an abort; `AbortsAreCharged`: once, to the aborter; `TypeOK` |
| `MatchReports` | 2 uploads, 3 locks, no aborts left, nothing raises, fair | `ResultIsReported`, `RatedOnceAsReported`, `OneOutcomeTold`, `ProcessedFreesPlayers`; `ReportsResolve`: two reports always end the match, also when they differ; `TimerResolves`: a running timer ends in a reveal or an end |
| `Writes` | 3 rows (plain, deferred, silent), 2 writes, 4 faults, 1 crash, 1 shutdown, fair | until the first fault `LastWriteWins`; whatever fails, `WritesAreAccounted`: each write is at exactly one place, queued, executed, dead-lettered or swallowed by its own method, and a first crash loses nothing that was logged, until a shutdown empties the log; `NotifiedIsSettled`: a write queued with a notification is executed or given up unless the process ends first; `TypeOK` |
| `Matchmaking` | 4 players, 5 starting queues, 4 views, 2 waves, one event of 10 kinds, fair | `PairsAreSound` and `PlacesAgree` while players leave and enter during a wave; `WavesPairWell`; `MatchedAreTold`; `TypeOK` |
| `AdminResolution` | 2 players who meet twice, 2 admins of whom one has a player row, outcomes 0 and 1, 3 requests (reports, aborts, commands), fair | `RatingsFollowRows`: ratings are the start plus what rows and adjustments say, and points go to the winner; `ReportsSurvive`; `CountedOnce`; `ResolutionsEnd`; `TypeOK` |
| `Ladder` | 2 matches of which memory keeps 1, 3 reports of 0 or 1, 1 midnight or restart | `ResultsSettle`: once all is written, the database has the verdict of memory; `GamesAreCounted`: while memory holds all matches and none is half rated, a final match is one game |
| `PlayerAccount` | 2 usernames, 2 valid names and a bad one, 2 countries of which the setup offers one, 2 messages, 2 admins, 4 commands, prompts and charges, begun while at most 2 jobs and tasks wait | `DbCatchesUp`, `AuditTells`, `NewestIsTrue`, `SetupIsWhole`, `TypeOK` |
| `Standings` | 2 entries of one player, 2 ratings, pages of 1, at most 2 pages, 2 changes, 3 clicks, 1 day, a window of 0 days | `RanksCatchUp`, `ShownIsAsked`, `TypeOK` |
| `MessageQueue` | 2 interactions and 1 notification outstanding, each made again any number of times, 3 retries, interval of 2 ticks, 1 odd event, fair | `Promise`: the queue implements `OutboundCalls`; `PlacedOnce`; `ThreeSpanTheInterval`; `JobsEnd`: every interaction is answered, and every notification if the worker gets through with the interactions again and again; `TypeOK` |

*What is excluded, and why.* Several properties name the disturbances under
which the code does not keep them. They are events and ghosts of the models, never
missing actions, so that removing the exclusion shows the behaviour.

- `PlacesAgree` and `MatchedAreTold`: each of their parts lists the unscheduled
  events it does not survive. A join with a new race is queueing before it is
  queued; a late timeout of an old view ends a new search; a second release or an
  admin's unblock sets a queueing player idle; players freed before their wave is
  over are still in the queue.
- `RatingsFollowRows`, `ReportsSurvive`, `CountedOnce`: `crossed`, `stale`,
  `reopened`, see AdminResolution above.
- `OneHandler`, `RatedOnceAsReported`: a ranking refresh that raised.
  `WritesAreAccounted`: a second crash, a shutdown.
- `JobsEnd`: notifications under interactions that never let up (`Starved`); a
  stopped queue and a broken call.
- `AuditTells`: behind an entry that was refused (`refused`) or a ban without
  row. `NewestIsTrue`: the country and bans.
- `ResultsSettle`, `GamesAreCounted`: `lost`; and the games only while memory
  holds every match, none is half rated and none is `undone`.
- `RanksCatchUp`: `drifted`, the daily reconciliation asks for no refresh.
  `ShownIsAsked`: `overlapped`, the last click came while a page was fetched.

*Why the bounds are enough.* A match has exactly two players. A view acts on one
click of a button, and a second click could only meet a state that the click of
the other player meets already. Outcomes 0 and 1 give agreement and conflict,
and 0 is there because a draw is falsy in Python. There are enough lock names:
in every passing instance a name is free whenever a task needs a new lock, so
the bound cuts off no behaviour (with 3 in `MatchAborts` it would). `MaxRetries`
is the code's 3; four faults let one job use them up and reach the dead-letter
file. Two writes put one row twice or two rows of different kinds in the queue,
which is enough for a job that waits to be retried while another is executed
when the process dies. In `Matchmaking` the starts are chosen so that each step
of the pairing has something to do: a swap that helps, players of both races
dealt, one who changes sides; two waves let a player left by the first be met in
the second, and one unscheduled event may fall between any two steps. Three
requests in `AdminResolution` are two reports and a resolution, or a report and
two resolutions. `Keep = 1` of two matches makes memory forget. Three clicks in
`Standings` leave two in the executor while a third is rendered, and two changes
let one happen while the refresh of the other runs. In `PlayerAccount` two
messages and two admins are the least that can contradict each other; `MaxPending`
lets a command, a notice or an admin's prompt begin while two jobs or tasks of others
wait; what is already open is confirmed at any length of the queue.

*Symmetry* of the players is used in `MatchAborts` and `RatedTwice`, of names,
usernames, admins and messages in `PlayerAccount`: safety runs only.

### Violation runs

Each checks one claim that a docstring or comment makes and the code does not
keep; `PROJECT.json` quotes the line.

| Run | Claim | What happens |
|---|---|---|
| `RatedTwice` | a guard prevents a second rating | after a completion that failed in the ranking refresh the next check rates player 1 again |
| `RetryOvertaken` | all changes are eventually written | a retried job goes behind, and overwrites, a newer write of its row |
| `Starved` | all jobs must eventually be sent | interactions that follow each other keep a notification waiting for ever |

The models have more behaviours of the kind, on which no run is spent:

- A match created for two players who both left their searching views meanwhile
  is never monitored: only a notification view starts that, and the players stay
  locked in it.
- A write whose method catches the database's error is lost without a retry or an
  entry in the dead-letter file, although the worker is documented to retry and
  then dead-letter what fails (`services/data_access_service.py:1243`, `:1255`).
- The ban, the warning or the abort count of a player without a name is changed
  and its entry for the log refused (`create_table.py:67`).
- A stopped message queue leaves what its worker did not take by the end of its
  round, though `stop` says it processes all remaining jobs
  (`src/bot/message_queue.py:97`); the callers are never answered.
- A completed match releases its players again after its callbacks, when one of
  them queues again: queued but idle.
- A job put without the event waits for another write, or for ever.
- A failed creation of a match, or an overlap of the two sides, ends the loop of
  the matchmaker, and nothing starts it again.
- A found view that registers after the end of its match monitors it anew and is
  never called. A failed completion leaves the players locked until the next
  check.
- A conflict is not stored as a result in memory (the database stores -2), so a
  late report still rewrites the row; reports that agree after a conflict are
  final in the database and unrated in memory until a restart counts them.
- A decided draw that is decided again is rated again; a resolution takes back
  what its players won since the match; an invalidation or a new result does not
  set the players' state.
- An admin without a player row changes what the command then calls a failure.
- Executed jobs stay in the log and are executed again after a crash, after the
  tables were loaded, so that memory is older than the database. A second crash
  during startup loses jobs. A worker that is idle at the shutdown signal drops
  what is queued.
- An abort accepted in memory is refused by the database when the time for
  aborts is over there, and nobody looks.
- Memory forgets matches beyond the newest 1000, and the count at midnight goes
  by what is left. Start-up always reconciles, where the docstring of
  `_should_run_startup_reconciliation` says only between midnight and one.
- Two admins who both confirm "ban" cancel each other. A player without a row is
  reported as banned. A reset of aborts is overwritten by a charge that had read
  the count before.
- Players who became inactive stay ranked and shown until some rating changes.
  Overlapping clicks leave another page on the message than the view counts.

### Fairness

Every task that can run does: the event loop schedules ready tasks, `sleep`
ends, awaited Discord calls return or raise within discord.py's own timeouts,
executor jobs return. Clicks, uploads, joining, waves, admins, shutdowns and
restarts owe nothing. In detail:

- `MatchLifecycle`: weak fairness of each task; of a lock holder, of *some* step
  of it, since only one can be enabled at an await, or several callbacks in any
  order.
- `WriteBehind`: the worker, the tasks that queue jobs, and the load of the
  tables.
- `Matchmaking`: the creation of a match that was begun, each publication, each
  listener.
- `AdminResolution`: the steps of a match's check, and of each admin's
  resolution, which needs no more than that because the lock is free between
  checks and checks run out.
- `MessageQueue`: the start, the worker, the clock.

`PlayerAccount`, `Standings` and `Ladder` are checked for safety only; what
reaches the database there is `WriteBehind`'s liveness.

## 4. What is proved

For every set of players, matches, admins, outcomes, lock names, rows, jobs,
calls and pages, and every bound, from the assumptions below. TLC evaluates each
of them in the runs of its module.

| Assumption | Says |
|---|---|
| `MatchLifecycleAssumption`, `WriteBehindAssumption`, `MessageQueueAssumption` | `None` is distinct from what it stands beside, bounds are naturals, the interval of the rate limiter is positive, each call has a helper of one tier, outcomes are among 0, 1 and 2 |
| `LadderAssumption`, `NoneAssumption` (`Ladder`) | matches are numbered from 1 and finitely many, memory keeps one at least, reports are among 0, 1 and 2; `None` is no match, result or row |
| `StartsAssumption`, `RaceChoicesAssumption` (`Matchmaking`) | a starting queue lists a player once; ratings are natural numbers; who queues has selected a race at least, as the join button demands |
| `NamesAssumption`, `NoRowAssumption`, `BoundsAssumption` (`PlayerAccount`) | `None`, the bad name and the word the log has for a player without a name are no names, the setup offers some of the countries; `None` is no row; counts are numbers |
| `AdminAssumption`, `ActorsAssumption` (`AdminResolution`) | a match has two different players; admins are finitely many, and tasks can be told apart |
| `BoundsAssumption`, `ValuesAssumption` (`Standings`) | entries are finitely many numbers, pages and their number positive; `None` is no row, ranking or message |

Two theorems have hypotheses of their own, since the Elo formula is a constant
operator in `AdminResolution`: `TypeCorrect` and `RatingsFollow` take the change of a
rating to be a whole number (`PointsAreWhole`), which `mmr_service.py` rounds it
to, and `RatingsFollow` that nobody gains by losing (`RuleIsFair`). That one is
not strict: rounding leaves no change where the expected score is near the result.

| Theorem | States |
|---|---|
| `MatchLifecycle_proof!TypeCorrect` | `TypeOK` always |
| `MonitorBelongs` | `MonitorIsMonitored` |
| `ResultReported` | `ResultIsReported` |
| `ResultFinal` | `ResultIsFinal` |
| `OnlyPlayersInvolved` | `OnlyItsPlayers` |
| `ProcessedFrees` | `ProcessedFreesPlayers` |
| `AbortsCharged` | `AbortsAreCharged` |
| `LocksDoTheirDuty` | every match is `Guarded` by its registered lock |
| `AbortIsCoded` | code -1 stands in a report only of an aborted match |
| `OneEnds` | `OneHandler` |
| `OneTold` | `OneOutcomeTold` |
| `RatedAsReported` | `RatedOnceAsReported` |
| `AbortedUnrated` | `AbortedNeverRated` |
| `BothConfirmFirst` | `RevealNeedsBoth` |
| `Matchmaking_proof!TypeCorrect` | `TypeOK` always |
| `PairsSound` | `PairsAreSound` |
| `OnePlace` | `PlacesAgree` |
| `WavesPair` | `WavesPairWell` |
| `WriteBehind_proof!TypeCorrect` | `TypeOK` always |
| `WritesKeepOrder` | `LastWriteWins` |
| `DatabaseMovesForward` | `DbMovesForward` |
| `NoOtherWriteIsLost` | `WritesAreAccounted` |
| `Ladder_proof!Invariant` | memory, the jobs on their way and the database belong together (`Rows`); one match at most goes on (`Single`) |
| `VerdictsMeet` | `ResultsSettle` |
| `EveryGameCounts` | `GamesAreCounted` |
| `PlayerAccount_proof!TypeCorrect` | `TypeOK` always |
| `DatabaseCatchesUp` | `DbCatchesUp` |
| `SetupIsComplete` | `SetupIsWhole` |
| `LogIsTrue` | `AuditTells` |
| `AdminResolution_proof!TypeCorrect` | `TypeOK` always |
| `ReportsComeBack` | `ReportsSurvive` |
| `OneGameCounted` | `CountedOnce` |
| `RatingsFollow` | `RatingsFollowRows` |
| `Standings_proof!TypeCorrect` | `TypeOK` always |
| `RankingsCatchUp` | `RanksCatchUp` |
| `MessageShowsWhatIsAsked` | `ShownIsAsked` |
| `AllocationIsFair` | `AllocationFair(n)` for every `n` |
| `MessageQueue_proof!TypeCorrect` | `TypeOK` always |
| `CallsPlacedOnce` | `PlacedOnce` |
| `CallsSpaced` | `ThreeSpanTheInterval` |
| `Implements` | `Promise`, the specification of `OutboundCalls` |

*MatchLifecycle.* `TypeOK` is inductive; the work is in the FIFOs of the locks,
where the cancellation of the timer removes a task from the middle
(`RemoveFirstType`: what remains was there before).
`OnlyItsPlayers` is inductive together with `TypeOK`: nothing refers to a match
that does not exist (`Blank`), so its creation cannot give players to tasks or
views that already run for it, and what they do later concerns its two players.
`ProcessedFreesPlayers` then follows because a match is marked processed in the
same step in which both players are released, and only its creation can lock
them again. `ResultIsReported` is inductive: reports are refused once there is
a result, in the same await-free stretch that tests it, whoever holds which
lock. That these do not need mutual exclusion is the point: they hold
although the locks do not give it by themselves.

*MatchLifecycle, with the locks.* The rest does need it, and a lock that is popped while tasks hold
it or wait for it does not give it. `Guarded` says what does, as long as no
failed refresh interrupted the rating. Before a match is monitored nobody has
acted on it (`Unwatched`); until both confirmed, which stops the timer, nobody can
report it, so that only its abort has it checked (`Unrevealed`); from then on
nothing pops the lock before the match ends, so that every check is in line for the
registered one (`ChecksInLine`) and who rates it or tells a conflict holds that one
(`HandlerWatches`); an aborted match, whose lock the timer or the other abort may
have popped, is ended by whoever first marks it processed, in the step that looks
(`HandlerResult`). Hence one handler at a time (`Alone`). The parts hold only
together, and each step of a task is shown to keep them by what it does to one
match (`StepOf`): the actions then differ in a few lemmas only. Notices
(`ToldOutcome`) and ratings (`Rated`) are invariants on top of it, and an aborted
match has none because a rating needs a result that is final. The reveal is about the
keys of `confirmations`: whoever confirmed is a player of the match, and the set
that is awaited is empty once it is not monitored (`Confirmers`).

*Matchmaking.* First what the operators of the pairing compute, whatever they are
given: a fold exists and keeps any set its steps keep (`FoldExists`, `FoldKeeps`);
a stable sort of some places of a sequence is one pick of each of these places,
in order (`InOrderSorts`), hence neither loses nor repeats an entry. So each
operator of the chain has entries of the queue on either side, one per side in
every candidate, nobody twice in what is selected, and a swap of two neighbours
changes neither that nor the windows (`PlanOK`): this is where the type of the
wave and, since only the newest wave is looked at, `PairsAreSound` come from.
`PlacesAgree` does not depend on how the plan was found. Queue, states and matches
agree (`QueueAgrees`) as long as no event of the six kinds that break that has
happened: who is in a match is a player of it and it is open, who queues is
listed once and by nobody else, and the players a wave has planned are in the
queue until it takes them out. The views (`SearchAgrees`) agree with that unless a late
timeout happened too: an active view is the one the manager knows, and a view
that waits reads the queue its player is notified on, so that there is one
listener for a player at most (`OneListener`).
`WavesPairWell` is about how good a plan is, and each part is a lemma on every queue.
*Nobody is overlooked* (`OverlooksNothing`): the two loops offer every pair of players
kept (`LoopCovers`), the fold over the candidates ends with none of them free, because
a pair that is not free does not become free again (`StaysTaken`), and the swaps keep
who is matched. *The swaps help* (`RefinementIsHelp`): the sum of squares is a
fold, and a swap of two neighbours changes two of its summands (`ErrorLess`).
*The sides are balanced* (`SidesAreBalanced`): the three pools have everybody once,
dealing splits the pool of both races without a rest and closes the gap as far as it reaches
(`DealtSpread`), and a player who then changes sides takes nobody along and does not
widen it (`RebalancedSpread`). That one needs an invariant, since the code removes
who changes sides by the id of the entry: an entry has the number of the view it
was made with, so that no two have the same (`Numbered`). A player listed
twice, which an unblocked one can be, is no exception.

*WriteBehind.* `LastWriteWins` is not inductive: it says nothing of a process
that is not up, and it does not bound the numbers of the writes. `OrderInv`, which
like it speaks of the time before the first fault or crash, adds that no pending
or stored number exceeds the counter (`Numbered`), that only deferred rows have
jobs in tasks (`DeferredWait`), and that a process that is not up has nothing
queued, with an empty log to replay (`NothingQueued`), so that `LoadTables` makes
memory and database equal with nothing pending. Each action then drops the head
of `Pending` (`ExecuteJob`), appends the newest number (`WriteRow`, for rows
that are not deferred), appends a job of a deferred row (`QueueWrite`), or
leaves it alone. `DatabaseMovesForward` follows, since the job that is executed
is newer than what the database holds (`NewerThanDb`).
`WritesAreAccounted` needs counting over three sequences, and that a write is known to
be of one kind before it is given up: what was swallowed had a method that
catches, what is dead had one that raises (`KnownInv`), so that each counts once (`GivenUpIs`). `Occurrences` counts the places of
a number, every step that moves a job is an append, a head or a rotation, each
with a lemma of what it does to the count, and numbers not yet handed out are
nowhere (`AccountInv`). Before the first crash the log keeps all that was written
to it (`LogKept`), so that the replay after that crash puts what was logged back
into the queue (`RecoverInv`); the replay itself empties the log, which is why the
second crash is excluded.

*Ladder.* `Rows` says of each match what its row in memory, its row in the
database and the jobs between them have to do with each other. It does not
replay the jobs, which would take induction over the queue, but goes by which
kinds of job are on their way (`Comes`) and which job of a kind is the last
(`Last`), since a player may report twice before the first report is written:
the last report of a player is the one in memory, or none comes and the database
has it; a result on its way is that of memory; and so forth. `Single`, that
one match at most goes on, holds because its two players are locked in it.
`ResultsSettle` is `Rows` with nothing on its way. For the games, the last job of a
player's games brings what memory has (`TallyRule`); a job of games is written
after the result of a final match, so that a restart that finds games finds a
match to count and recounts (`Proven`); and memory's games are the number of
its final matches, player 2 lagging while a match is half rated (`CountRule`).

*PlayerAccount.* `QueueOK` says that the queue leads from the row in the
database to the row in memory, for each field by the last job that sets it,
and that a row the database does not have yet is created by exactly one of them. With it, that the row in memory
tells the truth of the setup (`Truthful`), that a message of the setup is open only
behind an acceptance (`ViewInv`) and the types of the rest are one invariant.
`AuditTells` is about the entries asked for, those the log took and those of all
queued jobs, one after the other (`Audited`). The entries of a job are a function
of what it sets, so that the old values a job asks for are those of memory when it
was queued (`InfoTells`, `FieldTells`); appending it to a chain that ends at memory
gives one that ends at the new memory (`ChangeIsAudited`), and writing the head of
the queue moves its entries from the queue to the log, or to `refused`, without a
change to what is said behind it (`LoggedSays`, `WriteIsAudited`). The invariant
(`AuditInv`) says the same of a player without a row, taken for a new one, and adds
that nothing was said of the username before the row was made (`Unnamed`), which
is the one value that comes without an entry.

*AdminResolution.* The invariant follows one match nobody crossed: of the tasks
and the admins at most one is at work on it (`OneWorker`); what the players said is in
its row or saved with that admin (`Kept`); once counted it has a result, and no
check is left that could count it again (`CountedOK`). A step either takes nothing
from a match (`Gentle`) or is the step of the one who has it.
`RatingsFollowRows` adds a ledger. While nothing crossed, went stale or was
reopened, there is a table of what each match moved each player by (`Part`), and
every rating is the start plus the sum of its column plus the adjustments
(`Ledger`); a step writes to one match, so that one summand changes. `Accounts`
ties the table to the stages of a check and of a resolution: at rest it is the
change in the row, between the two writes only one player has theirs, and the
rating that a task read before it was suspended is still the rating (`Apart`: two matches
that are half rated share no player). That a row never pays for a loss
(`AllFair`) needs only that nothing is left that would put another change over a result.

*Standings.* `TypeOK` is that `Ranked` sorts: its result lists every ranked entry
once and in order, which follows from its definition as a function of places. The
ranking that will be published (`Latest`) is up to date whenever no refresh
waits, and days only take entries away. `ShownIsAsked` follows from what at most
one fetch carries (`OneAtATime`).

*MessageQueue.* `Inv` says where each call is: the queues hold no call twice and
only calls of their tier (`Queues`), and a call that has no outcome yet is in
one queue, in hand or broken, if anybody awaits it (`Calls`). `TypeOK` alone is
not inductive: a retry puts back what is in hand, which is a job only because
the worker is in a call exactly when it holds one. The refinement then maps each action to its counterpart, a failed
last attempt to a settlement because `retries` has reached its bound, and
starting, stopping, sleeping, calling and time to stuttering. The spacing has
an invariant of its own, `Spaced`: the time at which the next call is allowed lies
behind now by no more than the last call does, and covers what the call before
it still lacks of the interval.

*The letters.* The floors of n percent have a remainder of fewer than seven
places, and F is S and A together or one more before any is dealt
(`FewAreLeft`, over n = 100q + r). Who gets one of the remainder depends on its
size and on that difference only (`Extra`), which leaves finitely many cases. The
theorem is about the percentages as integers; the code multiplies floats, which
gives the same floor for every number of entries below 200,000.

*What the proofs corrected.* Three properties as first written held of the runs
and not of the code. Two handlers can be in a match when a refresh raises, which
takes a second upload to see (`OneHandler`, with `MaxUploads = 2` and
`MaxFailures = 1`). A second crash loses what the replay took out of the log
(`WritesAreAccounted`, with `MaxCrashes = 2`). A report overtaken by the result takes a
final result back, and a restart then keeps a game without its match
(`GamesAreCounted`, with `MaxReports = 4`). The actions had the behaviour all the
time; the properties now name it, and TLC and TLAPS agree on them.

*Only model-checked.* Everything temporal that needs fairness: `ReportsResolve`,
`TimerResolves`, `NotifiedIsSettled`, `MatchedAreTold`, `ResolutionsEnd`,
`JobsEnd`; the prover has neither liveness nor ENABLED. Of the invariants
`NewestIsTrue` alone is only checked; every other invariant and every action
property of a passing run is a theorem. `RevealNeedsBoth` is proved and in no run. What a proof by induction on
data would take is had from numbers: the library's induction theorems
cannot be instantiated by the provers that are installed, but that every set of
numbers has a least one can be (`SetInduction`, from `WFMin`), and that suffices
for folds, sorts and sums.

To check: `tlc -config <run>.cfg <module>`, with the module of the run in
`PROJECT.json`, and `tlapm <module>_proof.tla` for each module of proofs. The
largest run is `Ladder` with 5.5 million states.

## 5. What could come next

In this order: an abstract match (open, aborted, decided and rated) implemented by
`MatchLifecycle`, for which the invariants are there; a durable store
implemented by `WriteBehind` without faults; two matches of one player in
`MatchLifecycle` for the channel map.

## 6. Not modelled

- *Parsing of replays, process pool, load monitor*: third-party computation; its
  outcome is the free choice of an upload's report.
- *Replay job queue* (`services/replay_job_queue.py`): nothing imports it but a
  test.
- *Static data, caches, localisation*: constant lookup tables.
- *Storage, performance and memory monitors*: pure I/O, measurements.
- *`/prune`* and the remaining embeds: messages of the bot are deleted or laid
  out, without effect on its state.
- *The file of admins*, profile and admin displays, player preferences: single
  reads and writes nobody decides on.
- *The connection pool and the adapters*: a database call is atomic and may
  fail.
- *Scripts, examples and data*: not part of the running bot.

Left out of modelled components: reminder tasks, waiters and the verification of
a parsed replay in the completion service, the manual report dropdown (it raises
before it reports), the choice of map and server, and dates of rows.
`PROJECT.json` gives the status of every component.
