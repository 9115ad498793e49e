------------------------------- MODULE Ladder -------------------------------
(***************************************************************************)
(* The rows of matches_1v1 and the games of mmrs_1v1, in memory and in the *)
(* database.                                                               *)
(*                                                                         *)
(* The bot decides on the rows in memory and leaves jobs for the writer.   *)
(* The database decides again: a written report that is the second one     *)
(* sets the result, and an abort is refused when there is a result or the  *)
(* time for aborts is over by then.  Memory keeps the newest matches only, *)
(* start-up loads them all, and the games are counted anew from the        *)
(* matches in memory at start-up and at midnight.  Locks, views and        *)
(* handlers of a match are in MatchLifecycle, failing writes in            *)
(* WriteBehind, admins in AdminResolution.                                 *)
(***************************************************************************)
EXTENDS Integers, Sequences, FiniteSets

CONSTANTS
  Match,         \* matches, numbered in the order of creation
  Keep,          \* how many create_match keeps in memory: 1000
  Value,         \* the reports of a result: 0 for a draw, or the winner
  None,
  MaxReports,    \* bound: reports of a behaviour
  MaxCounts      \* bound: restarts and midnights

ASSUME LadderAssumption ==
  /\ IsFiniteSet(Match) /\ Match = 1..Cardinality(Match)
  /\ Keep \in Nat \ {0}
  /\ Value \subseteq {0, 1, 2}

VARIABLES
  mem,           \* _matches_1v1_df: the row of each match, or None
  db,            \* matches_1v1: the row of each match, or None
  games,         \* games_played and games_won in memory, of each player
  dbGames,       \* and in the database
  live,          \* matches of this run of the bot: only they have views
  deferred,      \* jobs of reports, each in a task that will queue it
  queue,         \* _write_queue
  inserting,     \* the match inserted and not yet in memory, or None
  rating,        \* matches being rated: what the rest of the handler writes
  processed,     \* processed_matches
  late,          \* matches whose time for aborts is over
  lost,          \* history: matches whose rows the writer set at odds
  undone,        \* history: matches whose decided result the writer took back
  reports, counts

rowVars == <<mem, db>>
gameVars == <<games, dbGames>>
jobVars == <<deferred, queue>>
boundVars == <<reports, counts>>
historyVars == <<lost, undone>>
vars == <<rowVars, gameVars, jobVars, live, inserting, rating, processed, late, historyVars, boundVars>>

Player == {1, 2}
Final == {0, 1, 2}
Aborted == -1
Conflict == -2
Aborter == -3
Unconfirmed == -4

NewRow == [report |-> [p \in Player |-> None], result |-> None, change |-> FALSE]

Row == [report : [Player -> Value \cup {None, Aborted, Aborter, Unconfirmed}],
        result : Final \cup {None, Aborted, Conflict}, change : BOOLEAN]
Tally == [played : Nat, won : Nat]
Rated == [rated : {{1}, Player}, second : Tally]

ASSUME NoneAssumption ==
  None \notin Match \cup Final \cup {Aborted, Conflict, Aborter, Unconfirmed} \cup Row \cup Rated

Reported(r) == \A p \in Player : r.report[p] # None

Agreed(r) == r.report[1] = r.report[2]

\* A row with one report more, and a row that ends without a rating.
Noted(r, p, v) == [r EXCEPT !.report[p] = v]
Ended(r, report) == [r EXCEPT !.report = report, !.result = Aborted]

-----------------------------------------------------------------------------
(* create_match: inserted by one call of the executor, read by another *)

\* The players of a match that ends are released, and may meet again.
HasEnded(m) ==
  rating[m] = None /\ (mem[m] = None \/ mem[m].result # None \/ m \in processed)

InsertMatch(m) ==
  /\ inserting = None
  /\ db[m] = None
  /\ \A k \in Match : k < m => db[k] # None
  /\ \A k \in live : HasEnded(k)
  /\ db' = [db EXCEPT ![m] = NewRow]
  /\ inserting' = m
  /\ live' = live \cup {m}
  /\ UNCHANGED <<mem, gameVars, jobVars, rating, processed, late, historyVars, boundVars>>

\* The newest rows stay.
Newest(rows) ==
  [k \in Match |->
     IF Cardinality({j \in Match : j > k /\ rows[j] # None}) < Keep THEN rows[k] ELSE None]

LoadMatch ==
  /\ inserting # None
  /\ mem' = Newest([mem EXCEPT ![inserting] = db[inserting]])
  /\ inserting' = None
  /\ UNCHANGED <<db, live, gameVars, jobVars, rating, processed, late, historyVars, boundVars>>

-----------------------------------------------------------------------------
(* Reports and aborts *)

IsOpen(m) == m \in live /\ mem[m] # None /\ mem[m].result = None

\* record_match_result and update_match_report: the row now, the job later.
Report(m, p, v) ==
  /\ IsOpen(m)
  /\ reports < MaxReports
  /\ reports' = reports + 1
  /\ mem' = [mem EXCEPT ![m] = Noted(@, p, v)]
  /\ deferred' = Append(deferred, [op |-> "report", match |-> m, by |-> p, value |-> v])
  /\ UNCHANGED <<db, gameVars, queue, live, inserting, rating, processed, late, historyVars, counts>>

RunDeferred ==
  /\ deferred # <<>>
  /\ queue' = Append(queue, Head(deferred))
  /\ deferred' = Tail(deferred)
  /\ UNCHANGED <<rowVars, gameVars, live, inserting, rating, processed, late, historyVars, boundVars>>

\* abort_match marks both reports, whatever the other player had reported.
Abort(m, p) ==
  /\ IsOpen(m)
  /\ mem' = [mem EXCEPT ![m] = Ended(@, [q \in Player |-> IF q = p THEN Aborter ELSE Aborted])]
  /\ queue' = Append(queue, [op |-> "abort", match |-> m, by |-> p])
  /\ UNCHANGED <<db, gameVars, deferred, live, inserting, rating, processed, late, historyVars, boundVars>>

\* record_system_abort, when not all have confirmed: there are no reports yet.
SystemAbort(m, absent) ==
  LET report == [p \in Player |-> IF p \in absent THEN Unconfirmed ELSE None]
  IN  /\ IsOpen(m)
      /\ mem[m].report = NewRow.report
      /\ mem' = [mem EXCEPT ![m] = Ended(@, report)]
      /\ queue' = Append(queue, [op |-> "system", match |-> m, report |-> report])
      /\ UNCHANGED <<db, gameVars, deferred, live, inserting, rating, processed, late, historyVars, boundVars>>

\* Five minutes after the creation.
TimePasses(m) ==
  /\ db[m] # None
  /\ late' = late \cup {m}
  /\ UNCHANGED <<rowVars, gameVars, jobVars, live, inserting, rating, processed, historyVars, boundVars>>

-----------------------------------------------------------------------------
(* Rating *)

IsDue(m) == IsOpen(m) /\ m \notin processed /\ Reported(mem[m])

\* The games of a player after one more with this result.
OneMore(g, p, result) ==
  [played |-> g.played + 1, won |-> g.won + IF result = p THEN 1 ELSE 0]

GamesJob(p, g) == [op |-> "games", player |-> p, games |-> g]

\* _calculate_and_write_mmr up to the refresh after the first player: what the
\* second gets was read before.
RateFirst(m) ==
  LET result == mem[m].report[1]
  IN  /\ IsDue(m) /\ Agreed(mem[m])
      /\ rating[m] = None
      /\ mem' = [mem EXCEPT ![m].result = result]
      /\ games' = [games EXCEPT ![1] = OneMore(games[1], 1, result)]
      /\ rating' = [rating EXCEPT ![m] = [rated |-> {1}, second |-> OneMore(games[2], 2, result)]]
      /\ queue' = queue \o <<[op |-> "result", match |-> m, value |-> result],
                             GamesJob(1, OneMore(games[1], 1, result))>>
      /\ UNCHANGED <<db, dbGames, live, deferred, inserting, processed, late, historyVars, boundVars>>

\* The second player, and after the refresh the change of the match.
RateSecond(m) ==
  /\ rating[m] # None /\ rating[m].rated = {1}
  /\ games' = [games EXCEPT ![2] = rating[m].second]
  /\ queue' = Append(queue, GamesJob(2, rating[m].second))
  /\ rating' = [rating EXCEPT ![m].rated = Player]
  /\ UNCHANGED <<rowVars, dbGames, live, deferred, inserting, processed, late, historyVars, boundVars>>

RecordChange(m) ==
  /\ rating[m] # None /\ rating[m].rated = Player
  /\ mem' = IF mem[m] = None THEN mem ELSE [mem EXCEPT ![m].change = TRUE]
  /\ queue' = Append(queue, [op |-> "change", match |-> m])
  /\ rating' = [rating EXCEPT ![m] = None]
  /\ processed' = processed \cup {m}
  /\ UNCHANGED <<db, gameVars, live, deferred, inserting, late, historyVars, boundVars>>

\* _handle_match_conflict leaves the result to the admins.
EndConflict(m) ==
  /\ IsDue(m) /\ ~Agreed(mem[m])
  /\ processed' = processed \cup {m}
  /\ UNCHANGED <<rowVars, gameVars, jobVars, live, inserting, rating, late, historyVars, boundVars>>

-----------------------------------------------------------------------------
(* Counting the games anew, and starting *)

Finals(rows) == {m \in Match : rows[m] # None /\ rows[m].result \in Final}

GamesIn(rows, p) ==
  [played |-> Cardinality(Finals(rows)),
   won |-> Cardinality({m \in Finals(rows) : rows[m].result = p})]

\* Mutant: the counted games are added to those the player has.
RecountedOnTop(rows, g) ==
  [p \in Player |-> [played |-> g[p].played + GamesIn(rows, p).played,
                     won |-> g[p].won + GamesIn(rows, p).won]]

\* reconcile_mmr_stats_from_matches goes by the matches it is given; without a
\* final one it changes nothing.
Recounted(rows, g) ==
  [p \in Player |-> IF Finals(rows) = {} THEN g[p] ELSE GamesIn(rows, p)]

RecountJobs(rows) ==
  IF Finals(rows) = {} THEN <<>>
  ELSE <<GamesJob(1, GamesIn(rows, 1)), GamesJob(2, GamesIn(rows, 2))>>

Counts == counts < MaxCounts /\ counts' = counts + 1

Midnight ==
  /\ Counts
  /\ games' = Recounted(mem, games)
  /\ queue' = queue \o RecountJobs(mem)
  /\ UNCHANGED <<rowVars, dbGames, deferred, live, inserting, rating, processed, late, historyVars, reports>>

\* The bot dies and starts: what was queued is gone, all matches are loaded and
\* counted before anything else.
Restart ==
  /\ Counts
  /\ mem' = db
  /\ games' = Recounted(db, dbGames)
  /\ queue' = RecountJobs(db)
  /\ deferred' = <<>>
  /\ inserting' = None
  /\ rating' = [m \in Match |-> None]
  /\ processed' = {}
  /\ live' = {}
  /\ UNCHANGED <<db, dbGames, late, historyVars, reports>>

-----------------------------------------------------------------------------
(* The writer: what each job makes of the row of its match *)

\* Mutant: judged by the row as it was read.
WithReportJudgedBefore(r, p, v) ==
  [r EXCEPT !.report[p] = v,
            !.result = IF Reported(r) THEN IF Agreed(r) THEN v ELSE Conflict ELSE @]

\* update_player_report_1v1 writes the report, aborted match or not, and judges.
WithReport(r, p, v) ==
  LET told == Noted(r, p, v)
  IN  IF ~Reported(told) THEN told
      ELSE [told EXCEPT !.result = IF Agreed(told) THEN v ELSE Conflict]

\* abort_match_1v1 keeps what the other player reported.
MayAbort(m) == db[m].result = None /\ m \notin late

WithAbort(r, p) ==
  Ended(r, [q \in Player |-> IF q = p THEN Aborter
                             ELSE IF r.report[q] = None THEN Aborted ELSE r.report[q]])

\* update_match_reports_and_result, whatever the row says.
WithSystemAbort(r, report) == Ended(r, report)

Written(job) ==
  LET r == db[job.match]
  IN  CASE job.op = "report" -> WithReport(r, job.by, job.value)
        [] job.op = "abort"  -> IF MayAbort(job.match) THEN WithAbort(r, job.by) ELSE r
        [] job.op = "system" -> WithSystemAbort(r, job.report)
        [] job.op = "result" -> [r EXCEPT !.result = job.value]
        [] job.op = "change" -> [r EXCEPT !.change = TRUE]

\* No one looks at what the writer returns: an abort may be refused, a report
\* may be written over an abort, or after the result it led to.
GoesWrong(job) ==
  \/ job.op = "abort" /\ ~MayAbort(job.match)
  \/ /\ job.op = "report" /\ db[job.match].result # None
     /\ db[job.match].result = Aborted \/ ~Reported(db[job.match])

\* A report that was overtaken by the result: the row is judged again, and a
\* result that memory had decided becomes a conflict.
TakesBack(job) ==
  /\ job.op = "report" /\ db[job.match].result \in Final
  /\ mem[job.match] # None => mem[job.match].result = db[job.match].result
  /\ Written(job).result # db[job.match].result

WriteNext ==
  LET job == Head(queue)
  IN  /\ queue # <<>>
      /\ queue' = Tail(queue)
      /\ IF job.op = "games"
           THEN /\ dbGames' = [dbGames EXCEPT ![job.player] = job.games]
                /\ UNCHANGED <<db, historyVars>>
           ELSE /\ db' = [db EXCEPT ![job.match] = Written(job)]
                /\ lost' = IF GoesWrong(job) THEN lost \cup {job.match} ELSE lost
                /\ undone' = IF TakesBack(job) THEN undone \cup {job.match} ELSE undone
                /\ UNCHANGED dbGames
      /\ UNCHANGED <<mem, games, live, deferred, inserting, rating, processed, late, boundVars>>

-----------------------------------------------------------------------------
Init ==
  /\ mem = [m \in Match |-> None]
  /\ db = [m \in Match |-> None]
  /\ games = [p \in Player |-> [played |-> 0, won |-> 0]]
  /\ dbGames = games
  /\ live = {}
  /\ deferred = <<>>
  /\ queue = <<>>
  /\ inserting = None
  /\ rating = [m \in Match |-> None]
  /\ processed = {}
  /\ late = {}
  /\ lost = {}
  /\ undone = {}
  /\ reports = 0
  /\ counts = 0

MatchStep(m) ==
  \/ InsertMatch(m) \/ TimePasses(m)
  \/ \E p \in Player :
       \/ \E v \in Value : Report(m, p, v)
       \/ Abort(m, p)
  \/ \E absent \in SUBSET Player \ {{}} : SystemAbort(m, absent)
  \/ RateFirst(m) \/ RateSecond(m) \/ RecordChange(m) \/ EndConflict(m)

Next ==
  \/ \E m \in Match : MatchStep(m)
  \/ LoadMatch \/ RunDeferred \/ Midnight \/ Restart \/ WriteNext

Spec == Init /\ [][Next]_vars

-----------------------------------------------------------------------------
Settled == deferred = <<>> /\ queue = <<>>

\* What the database should say of a match: what memory says, and where memory
\* leaves the result to the next check or to the admins, what the reports say.
ResultOf(r) ==
  IF r.result # None \/ ~Reported(r) THEN r.result
  ELSE IF Agreed(r) THEN r.report[1] ELSE Conflict

\* Once the jobs are written, the database tells of every match what memory
\* tells: the result and its change, and of a match that was not aborted the
\* reports.  Two judges, one on each side, come to the same verdict, but for
\* the matches the writer was seen to set at odds.
ResultsSettle ==
  Settled =>
    \A m \in Match \ lost :
      mem[m] # None =>
        /\ db[m].result = ResultOf(mem[m])
        /\ db[m].change = mem[m].change
        /\ mem[m].result # Aborted => db[m].report = mem[m].report

\* While memory holds every match and none is being rated, the games of a
\* player are the final matches, in memory and, once written, in the database:
\* ratings, the counting at midnight and restarts between any two writes never
\* count a match twice or leave one out.
GamesAreCounted ==
  (/\ lost = {} /\ undone = {}
   /\ \A m \in Match : rating[m] = None /\ (db[m] # None /\ m # inserting => mem[m] # None)) =>
    /\ \A p \in Player : games[p] = GamesIn(mem, p)
    /\ queue = <<>> => dbGames = games
=============================================================================
