--------------------------- MODULE AdminResolution ---------------------------
(***************************************************************************)
(* Decisions of administrators about matches and ratings: /admin resolve    *)
(* (AdminService.resolve_match_conflict) and /admin adjust_mmr, running     *)
(* beside the completion checks that the players' own reports start.        *)
(*                                                                         *)
(* A task suspends where the code awaits the ranking refresh inside         *)
(* update_player_mmr, the lock of the match, or Discord; between two such    *)
(* points it is one step.  The check of a match holds the lock of the match  *)
(* and the fresh path waits for it; the terminal path takes no lock.         *)
(***************************************************************************)
EXTENDS Integers, FiniteSets, Functions

CONSTANTS
    Player, Admin,
    MaxMatch,           \* matches are numbered from 1 in the order of creation
    Outcome,            \* the results that reports and decisions choose from
    Sides,              \* [Match -> the pair of players, side 1 and side 2]
    StartMMR,           \* the rating of every player at the start
    Points(_, _, _),    \* MMRService.calculate_mmr_change of side 1
    Registered,         \* the admins who have a row in the players table
    Adjustment,         \* the adjustments asked for: [op, value]
    MaxRequests,        \* bound on reports, aborts and admin commands
    None, Nobody

Match == 1 .. MaxMatch

ASSUME AdminAssumption ==
    /\ Registered \subseteq Admin /\ Outcome \subseteq {0, 1, 2}
    /\ \A m \in Match : Sides[m] \in Player \X Player /\ Sides[m][1] # Sides[m][2]
    /\ MaxMatch \in Nat /\ StartMMR \in Nat /\ MaxRequests \in Nat
    /\ \A c \in Adjustment : c.op \in {"set", "add", "subtract"} /\ c.value \in Int

ASSUME ActorsAssumption ==
    /\ IsFiniteSet(Admin)
    /\ Admin \cap Match = {} /\ Nobody \notin Admin \cup Match
    /\ None \notin {0, 1, 2, -1, -3, -4}

VARIABLES
    mmr,        \* [Player -> Int]: the mmr column of mmrs_1v1
    games,      \* [Player -> Nat]: its games_played column
    state,      \* [Player -> {idle, queueing, in_match}]: the player_state column
    queue,      \* the players in Matchmaker.players
    created,    \* the matches that have a row in memory
    closed,     \* the matches whose window to confirm is over
    row,        \* [Match -> the columns a decision reads or writes]
    processed,  \* MatchCompletionService.processed_matches
    pending,    \* [Match -> Nat]: check_match_completion tasks not yet run
    handler,    \* [Match -> the task that holds the match's lock]
    task,       \* [Admin -> the command the admin runs]
    requests,   \* number of reports, aborts and commands so far (bound)
    said,       \* ghost: [Match -> the reports of the players themselves]
    adjusted,   \* ghost: [Player -> sum of the admins' adjustments]
    counted,    \* ghost: [Match -> how often the match was counted as a game]
    told,       \* ghost: the <<admin, match>> whose outcome was announced
    crossed,    \* ghost: the matches two tasks worked on at the same time
    stale,      \* ghost: the matches resolved after their ratings moved on
    reopened    \* ghost: the matches with a result that took the fresh path

rowVars == <<created, row, processed, closed>>
playerVars == <<mmr, games, state, queue>>
ghostVars == <<said, adjusted, counted, told, stale, reopened>>
vars == <<rowVars, playerVars, pending, handler, task, requests, ghostVars, crossed>>

Decision == Outcome \cup {-1}     \* 0 draw, 1 and 2 the winner, -1 invalidated
Share(m, i) == IF i = 1 THEN row[m].change ELSE -row[m].change

FreeLock == [by |-> Nobody, pc |-> "free", second |-> 0, played |-> 0, change |-> 0]
(* Mutant: the lock is not given back. *)
StillLocked(h) == [h EXCEPT !.by = Nobody, !.pc = "kept"]
Unlocked(h) == FreeLock
Idle == [pc |-> "idle", match |-> None, decision |-> None, saved |-> <<None, None>>]

Init ==
    /\ mmr = [p \in Player |-> StartMMR]
    /\ games = [p \in Player |-> 0]
    /\ state = [p \in Player |-> "idle"]
    /\ queue = {} /\ created = {} /\ processed = {} /\ closed = {}
    /\ row = [m \in Match |-> [initial |-> <<0, 0>>, report |-> <<None, None>>,
                               result |-> None, change |-> 0]]
    /\ pending = [m \in Match |-> 0]
    /\ handler = [m \in Match |-> FreeLock]
    /\ task = [a \in Admin |-> Idle]
    /\ requests = 0
    /\ said = [m \in Match |-> <<None, None>>]
    /\ adjusted = [p \in Player |-> 0]
    /\ counted = [m \in Match |-> 0]
    /\ told = {} /\ crossed = {} /\ stale = {} /\ reopened = {}

PlayersOf(m) == {Sides[m][1], Sides[m][2]}

(* Everyone at work on a match: report tasks and admins past their decision. *)
Busy == {"waiting", "holding", "restoreSecond", "restored", "applySecond", "applied"}
WorkersOf(m) ==
    {a \in Admin : task[a].match = m /\ task[a].pc \in Busy}
    \cup (IF pending[m] > 0 \/ handler[m].by = m THEN {m} ELSE {})
Quiet(m) == WorkersOf(m) = {}

(* Everyone who has written the rating of one player of a pair but not yet of  *)
(* the other, or is about to overwrite what it restored.                       *)
RatersOf(p) ==
    {m \in Match : p \in PlayersOf(m) /\ handler[m].pc = "rateSecond"}
    \cup {a \in Admin : /\ task[a].pc \in {"restoreSecond", "restored", "applySecond"}
                        /\ p \in PlayersOf(task[a].match)}

-----------------------------------------------------------------------------
(* The match itself and the players' own reports *)

JoinQueue(p) ==
    /\ state[p] = "idle"
    /\ \E m \in Match \ created : p \in PlayersOf(m)
    /\ state' = [state EXCEPT ![p] = "queueing"]
    /\ queue' = queue \cup {p}
    /\ UNCHANGED <<mmr, games, rowVars, pending, handler, task, requests, ghostVars>>

(* attempt_match: the row keeps the ratings at the time of the pairing. *)
CreateMatch(m) ==
    /\ m = Cardinality(created) + 1 /\ PlayersOf(m) \subseteq queue
    /\ created' = created \cup {m}
    /\ state' = [p \in Player |-> IF p \in PlayersOf(m) THEN "in_match" ELSE state[p]]
    /\ queue' = queue \ PlayersOf(m)
    /\ row' = [row EXCEPT ![m].initial = <<mmr[Sides[m][1]], mmr[Sides[m][2]]>>]
    /\ UNCHANGED <<mmr, games, processed, closed, pending, handler, task, requests, ghostVars>>

(* What a player may still do under the lock of a match without a result. *)
Accepts(m) ==
    /\ m \in created /\ handler[m].pc = "free" /\ row[m].result = None
    /\ requests < MaxRequests /\ requests' = requests + 1

(* record_match_result: the check it starts runs later, as a task of its own. *)
RecordReport(m, i, value) ==
    /\ Accepts(m)
    /\ row' = [row EXCEPT ![m].report[i] = value]
    /\ said' = [said EXCEPT ![m][i] = value]
    /\ pending' = [pending EXCEPT ![m] = @ + 1]
    /\ UNCHANGED <<playerVars, created, closed, processed, handler, task,
                   adjusted, counted, told, stale, reopened>>

(* abort_match: the aborting side reports -3, the other -1. *)
AbortMatch(m, i) ==
    LET codes == IF i = 1 THEN <<-3, -1>> ELSE <<-1, -3>>
    IN  /\ Accepts(m)
        /\ row' = [row EXCEPT ![m].report = codes, ![m].result = -1]
        /\ said' = [said EXCEPT ![m] = codes]
        /\ pending' = [pending EXCEPT ![m] = @ + 1]
        /\ UNCHANGED <<playerVars, created, closed, processed, handler, task,
                       adjusted, counted, told, stale, reopened>>

-----------------------------------------------------------------------------
(* _check_match_completion_locked on the row r, run by "by": the match for a  *)
(* report task, or the admin whose fresh resolution awaits it                 *)

(* Two reports of -1 under another result, left by two resolutions at once,   *)
(* are not rated either.                                                      *)
Unrated(r) == r.report = <<-1, -1>>
IsAborted(r) == Unrated(r) \/ r.result = -1 \/ {-3, -4} \cap {r.report[1], r.report[2]} # {}
BothReported(r) == None \notin {r.report[1], r.report[2]}
ReleasePlayers(m) ==
    /\ state' = [p \in Player |-> IF p \in PlayersOf(m) THEN "idle" ELSE state[p]]
    /\ queue' = queue \ PlayersOf(m)

CheckAborts(m, by, r) ==
    /\ m \notin processed /\ IsAborted(r)
    /\ row' = [row EXCEPT ![m] = r]
    /\ processed' = processed \cup {m}
    /\ ReleasePlayers(m)
    /\ handler' = [handler EXCEPT ![m] = [FreeLock EXCEPT !.by = by, !.pc = "telling"]]
    /\ UNCHANGED <<mmr, games, counted>>

(* Both agree on a result.  Mutant: processed_matches is not consulted. *)
AgreedAnyhow(m, r) == ~IsAborted(r) /\ BothReported(r) /\ r.report[1] = r.report[2]
Rateable(m, r) ==
    m \notin processed /\ ~IsAborted(r) /\ BothReported(r) /\ r.report[1] = r.report[2]

(* _calculate_and_write_mmr up to the await inside the first update. *)
CheckCompletes(m, by, r) ==
    /\ Rateable(m, r)
    /\ LET first == Sides[m][1]
           second == Sides[m][2]
           gain == Points(mmr[first], mmr[second], r.report[1])
       IN  /\ row' = [row EXCEPT ![m] = [r EXCEPT !.result = r.report[1]]]
           /\ mmr' = [mmr EXCEPT ![first] = @ + gain]
           /\ games' = [games EXCEPT ![first] = @ + 1]
           /\ handler' = [handler EXCEPT ![m] =
                 [by |-> by, pc |-> "rateSecond", second |-> mmr[second] - gain,
                  played |-> games[second] + 1, change |-> gain]]
    /\ counted' = [counted EXCEPT ![m] = @ + 1]
    /\ UNCHANGED <<state, queue, processed>>

CheckConflicts(m, by, r) ==
    /\ m \notin processed /\ ~IsAborted(r) /\ BothReported(r) /\ r.report[1] # r.report[2]
    /\ row' = [row EXCEPT ![m] = r]
    /\ handler' = [handler EXCEPT ![m] = [FreeLock EXCEPT !.by = by, !.pc = "conflict"]]
    /\ UNCHANGED <<mmr, games, state, queue, processed, counted>>

NothingToDo(m, r) == m \in processed \/ (~IsAborted(r) /\ ~BothReported(r))
Handles(m, by, r) ==
    /\ handler[m].pc = "free"
    /\ CheckAborts(m, by, r) \/ CheckCompletes(m, by, r) \/ CheckConflicts(m, by, r)

(* The task that a report created gets the lock. *)
ReportCheck(m) ==
    /\ pending[m] > 0 /\ handler[m].pc = "free"
    /\ pending' = [pending EXCEPT ![m] = @ - 1]
    /\ \/ Handles(m, m, row[m])
       \/ /\ NothingToDo(m, row[m])
          /\ UNCHANGED <<playerVars, row, processed, handler, counted>>
    /\ UNCHANGED <<created, closed, task, requests, said, adjusted, told, stale, reopened>>

RateSecond(m) ==
    /\ handler[m].pc = "rateSecond"
    /\ mmr' = [mmr EXCEPT ![Sides[m][2]] = handler[m].second]
    /\ games' = [games EXCEPT ![Sides[m][2]] = handler[m].played]
    /\ handler' = [handler EXCEPT ![m].pc = "record"]
    /\ UNCHANGED <<state, queue, rowVars, pending, task, requests, ghostVars>>

(* The rest of _handle_match_completion: the change, the mark, the release. *)
Complete(m) ==
    /\ handler[m].pc = "record"
    /\ row' = [row EXCEPT ![m].change = handler[m].change]
    /\ processed' = processed \cup {m}
    /\ ReleasePlayers(m)
    /\ handler' = [handler EXCEPT ![m].pc = "telling"]
    /\ UNCHANGED <<mmr, games, created, closed, pending, task, requests, ghostVars>>

(* _handle_match_conflict: views told, players released, then the mark. *)
Ended(m) == handler[m].pc \in {"telling", "conflict"}
MarkIfConflict(m) ==
    IF handler[m].pc = "conflict"
    THEN processed' = processed \cup {m} /\ ReleasePlayers(m)
    ELSE UNCHANGED <<processed, state, queue>>
EndCheck(m) ==
    /\ Ended(m) /\ handler[m].by = m
    /\ MarkIfConflict(m)
    /\ handler' = [handler EXCEPT ![m] = Unlocked(@)]
    /\ UNCHANGED <<mmr, games, created, closed, row, pending, task, requests, ghostVars>>

(* The monitor holds the lock while it tells the players that the window to    *)
(* confirm is over, then reads the row again; no one has reported yet in a     *)
(* match that is not confirmed by both.                                        *)
CloseWindow(m) ==
    /\ m \in created \ (processed \cup closed) /\ handler[m].pc = "free"
    /\ requests < MaxRequests /\ requests' = requests + 1
    /\ closed' = closed \cup {m}
    /\ handler' = [handler EXCEPT ![m] = [FreeLock EXCEPT !.by = m, !.pc = "window"]]
    /\ UNCHANGED <<playerVars, created, row, processed, pending, task, ghostVars>>

AbortUnconfirmed(m) ==
    \E codes \in {<<-4, -4>>, <<-4, None>>, <<None, -4>>} :
        /\ said[m] = <<None, None>> /\ row[m].result = None
        /\ row' = [row EXCEPT ![m].report = codes, ![m].result = -1]
        /\ said' = [said EXCEPT ![m] = codes]
        /\ processed' = processed \cup {m}
        /\ ReleasePlayers(m)
        /\ handler' = [handler EXCEPT ![m].pc = "telling"]
WindowClosed(m) ==
    /\ handler[m].pc = "window"
    /\ \/ AbortUnconfirmed(m)
       \/ /\ handler' = [handler EXCEPT ![m] = Unlocked(@)]
          /\ UNCHANGED <<state, queue, row, processed, said>>
    /\ UNCHANGED <<mmr, games, created, closed, pending, task, requests,
                   adjusted, counted, told, stale, reopened>>

-----------------------------------------------------------------------------
(* /admin resolve *)

(* DataAccessService.get_match finds a row.  Mutant: nobody looks. *)
AnyMatch(m) == TRUE
Found(m) == m \in created

(* The command refuses a match that is not in memory and shows a confirmation; *)
(* nothing it shows is used after the admin's click, so both are one step.     *)
AdminResolve(a, m) ==
    /\ task[a].pc = "idle" /\ Found(m)
    /\ requests < MaxRequests /\ requests' = requests + 1
Command(m, decision) == [Idle EXCEPT !.match = m, !.decision = decision]

(* A stored draw is 0, which the code does not take for a result. *)
HasResult(r) == r.result \notin {None, 0}
IsTerminal(m) == BothReported(row[m]) \/ HasResult(row[m])

(* The result and, by _update_player_reports_directly, both reports. *)
Decided(r, decision) == [r EXCEPT !.result = decision, !.report = <<decision, decision>>]

(* _log_admin_action reads the name of the admin's own player row and fails   *)
(* without one: the caller then answers that the command failed.              *)
Announced(a, m) == told' = IF a \in Registered THEN told \cup {<<a, m>>} ELSE told

(* The reports saved before they were overwritten.  Mutant: those in the row. *)
SimulatedReports(a) == row[task[a].match].report
OriginalReports(a) == task[a].saved
Closes(a) ==
    /\ row' = [row EXCEPT ![task[a].match].report = OriginalReports(a)]
    /\ Announced(a, task[a].match)
    /\ task' = [task EXCEPT ![a] = Idle]

(* _resolve_fresh_match: the simulated reports are checked at once when the    *)
(* lock is free; a match processed before keeps its ratings and its change.   *)
ResolveFresh(a, m, decision) ==
    LET r == Decided(row[m], decision)
        held == [Command(m, decision) EXCEPT !.saved = row[m].report]
    IN  /\ AdminResolve(a, m) /\ ~IsTerminal(m)
        /\ reopened' = IF row[m].result # None THEN reopened \cup {m} ELSE reopened
        /\ \/ /\ Handles(m, a, r)
              /\ task' = [task EXCEPT ![a] = [held EXCEPT !.pc = "holding"]]
              /\ UNCHANGED told
           \/ /\ handler[m].pc = "free" /\ m \in processed
              /\ row' = [row EXCEPT ![m].result = decision]
              /\ Announced(a, m)
              /\ UNCHANGED <<playerVars, processed, handler, task, counted>>
           \/ /\ handler[m].pc # "free"
              /\ row' = [row EXCEPT ![m] = r]
              /\ task' = [task EXCEPT ![a] = [held EXCEPT !.pc = "waiting"]]
              /\ UNCHANGED <<playerVars, processed, handler, counted, told>>
        /\ UNCHANGED <<created, closed, pending, said, adjusted, stale>>

(* An admin who waited for the lock runs the check, or finds it done. *)
FreshCheck(a) ==
    LET m == task[a].match
    IN  /\ task[a].pc = "waiting" /\ handler[m].pc = "free"
        /\ \/ /\ Handles(m, a, row[m])
              /\ task' = [task EXCEPT ![a].pc = "holding"]
              /\ UNCHANGED told
           \/ /\ NothingToDo(m, row[m])
              /\ Closes(a)
              /\ UNCHANGED <<playerVars, processed, handler, counted>>
        /\ UNCHANGED <<created, closed, pending, requests, said, adjusted, stale, reopened>>

(* The check is over: the original reports come back and the action is logged. *)
FreshEnds(a) ==
    LET m == task[a].match
    IN  /\ task[a].pc = "holding" /\ Ended(m) /\ handler[m].by = a
        /\ MarkIfConflict(m)
        /\ handler' = [handler EXCEPT ![m] = Unlocked(@)]
        /\ Closes(a)
        /\ UNCHANGED <<mmr, games, created, closed, pending, requests,
                       said, adjusted, counted, stale, reopened>>

(* The new change counts from the ratings of the creation. *)
NewChange(m, decision) ==
    IF decision = -1 THEN 0 ELSE Points(row[m].initial[1], row[m].initial[2], decision)

(* _clear_player_queue_lock leaves the queue and the views, not player_state. *)
ClearQueueLocks(m) == queue' = queue \ PlayersOf(m)

(* From "out of processed_matches" to the first of the new ratings; an        *)
(* invalidation has none and ends here.                                       *)
ApplyDecision(a, m, decision, saved) ==
    LET r == [Decided(row[m], decision) EXCEPT !.change = 0]
    IN  /\ processed' = processed \ {m}
        /\ IF decision = -1
           THEN /\ row' = [row EXCEPT ![m] = [r EXCEPT !.report = saved]]
                /\ ClearQueueLocks(m)
                /\ Announced(a, m)
                /\ task' = [task EXCEPT ![a] = Idle]
                /\ UNCHANGED mmr
           ELSE /\ row' = [row EXCEPT ![m] = r]
                /\ mmr' = [mmr EXCEPT ![Sides[m][1]] = row[m].initial[1] + NewChange(m, decision)]
                /\ task' = [task EXCEPT ![a] = [Command(m, decision) EXCEPT
                                                  !.pc = "applySecond", !.saved = saved]]
                /\ UNCHANGED <<queue, told>>

(* _resolve_terminal_match: the ratings of a match that had moved them go back *)
(* to those of its creation, one player at a time.                            *)
(* Mutant: they stay. *)
NeverRated(m) == TRUE
Unrestored(m) == row[m].change = 0
MovedOn(m) ==
    \E i \in {1, 2} : mmr[Sides[m][i]] # row[m].initial[i] + Share(m, i)
ResolveTerminal(a, m, decision) ==
    /\ AdminResolve(a, m) /\ IsTerminal(m)
    /\ stale' = IF MovedOn(m) THEN stale \cup {m} ELSE stale
    /\ IF Unrestored(m)
       THEN ApplyDecision(a, m, decision, row[m].report)
       ELSE /\ mmr' = [mmr EXCEPT ![Sides[m][1]] = row[m].initial[1]]
            /\ task' = [task EXCEPT ![a] = [Command(m, decision) EXCEPT
                           !.pc = "restoreSecond", !.saved = row[m].report]]
            /\ UNCHANGED <<row, processed, queue, told>>
    /\ UNCHANGED <<games, state, created, closed, pending, handler,
                   said, adjusted, counted, reopened>>

RestoreSecond(a) ==
    LET m == task[a].match
    IN  /\ task[a].pc = "restoreSecond"
        /\ mmr' = [mmr EXCEPT ![Sides[m][2]] = row[m].initial[2]]
        /\ task' = [task EXCEPT ![a].pc = "restored"]
        /\ UNCHANGED <<games, state, queue, rowVars, pending, handler, requests, ghostVars>>

ApplyFirst(a) ==
    /\ task[a].pc = "restored"
    /\ ApplyDecision(a, task[a].match, task[a].decision, task[a].saved)
    /\ UNCHANGED <<games, state, created, closed, pending, handler, requests,
                   said, adjusted, counted, stale, reopened>>

ApplySecond(a) ==
    LET m == task[a].match
    IN  /\ task[a].pc = "applySecond"
        /\ mmr' = [mmr EXCEPT ![Sides[m][2]] = row[m].initial[2] - NewChange(m, task[a].decision)]
        /\ task' = [task EXCEPT ![a].pc = "applied"]
        /\ UNCHANGED <<games, state, queue, rowVars, pending, handler, requests, ghostVars>>

FinalRow(a, r) ==
    [r EXCEPT !.result = task[a].decision, !.report = OriginalReports(a),
              !.change = NewChange(task[a].match, task[a].decision)]
TerminalEnds(a) ==
    LET m == task[a].match
    IN  /\ task[a].pc = "applied"
        /\ row' = [row EXCEPT ![m] = FinalRow(a, @)]
        /\ ClearQueueLocks(m)
        /\ Announced(a, m)
        /\ task' = [task EXCEPT ![a] = Idle]
        /\ UNCHANGED <<mmr, games, state, created, closed, processed, pending, handler, requests,
                       said, adjusted, counted, stale, reopened>>

-----------------------------------------------------------------------------
(* /admin adjust_mmr *)

AdminAdjustMMR(a) ==
    /\ task[a].pc = "idle"
    /\ requests < MaxRequests /\ requests' = requests + 1

(* The new rating is counted from the rating at the confirmation. *)
NewRating(old, change) ==
    CASE change.op = "set" -> change.value
      [] change.op = "add" -> old + change.value
      [] change.op = "subtract" -> old - change.value
AdjustPlayerMMR(a, p, change) ==
    LET new == NewRating(mmr[p], change)
    IN  /\ AdminAdjustMMR(a) /\ new >= 0
        /\ mmr' = [mmr EXCEPT ![p] = new]
        /\ adjusted' = [adjusted EXCEPT ![p] = @ + new - mmr[p]]
        /\ UNCHANGED <<games, state, queue, rowVars, pending, handler, task,
                       said, counted, told, stale, reopened>>

-----------------------------------------------------------------------------
(* crossed grows by the matches with two workers, or with a player whom two    *)
(* are rating, after a step; by a match that is decided while another is at    *)
(* work on it; and by the matches at work on a player who is adjusted.         *)
Crossing(here) ==
    crossed' = crossed \cup here \cup
        {m \in Match : \/ Cardinality(WorkersOf(m)') > 1
                       \/ \E p \in PlayersOf(m) : Cardinality(RatersOf(p)') > 1}
AtWorkOn(p) == {m \in Match : p \in PlayersOf(m) /\ ~Quiet(m)}

MatchStep(m) ==
    /\ ReportCheck(m) \/ RateSecond(m) \/ Complete(m) \/ EndCheck(m) \/ WindowClosed(m)
    /\ Crossing({})
ResolveMatchConflict(a, m, decision) ==
    /\ ResolveFresh(a, m, decision) \/ ResolveTerminal(a, m, decision)
    /\ Crossing(IF Quiet(m) THEN {} ELSE {m})
ResolveStep(a) ==
    /\ \/ FreshCheck(a) \/ FreshEnds(a)
       \/ RestoreSecond(a) \/ ApplyFirst(a) \/ ApplySecond(a) \/ TerminalEnds(a)
    /\ Crossing({})
PlayerStep ==
    /\ \/ \E p \in Player : JoinQueue(p)
       \/ \E m \in Match :
             \/ CreateMatch(m) \/ CloseWindow(m)
             \/ \E i \in {1, 2} : AbortMatch(m, i) \/ \E v \in Outcome : RecordReport(m, i, v)
    /\ Crossing({})
AdminStep(a) ==
    \/ \E m \in Match, d \in Decision : ResolveMatchConflict(a, m, d)
    \/ \E p \in Player, c \in Adjustment : AdjustPlayerMMR(a, p, c) /\ Crossing(AtWorkOn(p))

Next ==
    \/ PlayerStep
    \/ \E m \in Match : MatchStep(m)
    \/ \E a \in Admin : AdminStep(a) \/ ResolveStep(a)

Spec == Init /\ [][Next]_vars

(* Tasks of the event loop run; players and admins act when they like. *)
FairSpec ==
    /\ Spec
    /\ \A m \in Match : WF_vars(MatchStep(m))
    /\ \A a \in Admin : WF_vars(ResolveStep(a))

-----------------------------------------------------------------------------
(* Properties *)

ReportCode == Outcome \cup {None, -1, -3, -4}

(* Every variable keeps its shape; an in_match player has a row it plays in.  *)
TypeOK ==
    /\ mmr \in [Player -> Int] /\ games \in [Player -> Nat]
    /\ state \in [Player -> {"idle", "queueing", "in_match"}] /\ queue \subseteq Player
    /\ created \subseteq Match /\ processed \subseteq created
    /\ \A m \in Match :
          /\ row[m].report[1] \in ReportCode /\ row[m].report[2] \in ReportCode
          /\ row[m].result \in Decision \cup {None} /\ row[m].change \in Int
    /\ \A a \in Admin : task[a].pc \in Busy => task[a].match \in created
    /\ \A m \in Match : handler[m].by \in Admin =>
          task[handler[m].by].pc = "holding" /\ task[handler[m].by].match = m

(* What the rows of the matches a player is in say they changed the rating by. *)
Owed(p) ==
    SumFunction([m \in Match |->
        IF m \in created /\ p \in PlayersOf(m)
        THEN Share(m, IF p = Sides[m][1] THEN 1 ELSE 2) ELSE 0])

(* When nothing is at work, no two tasks crossed on a match, no match was      *)
(* resolved after its players' ratings had moved on and no draw was decided    *)
(* again, each rating is the start plus the changes its matches' rows record   *)
(* plus the admins' adjustments: what resolutions take back and give is        *)
(* exactly what the rows say.                                                  *)
LedgerBalances ==
    (/\ crossed = {} /\ stale = {} /\ reopened = {}
     /\ \A m \in Match : Quiet(m))
    => \A p \in Player : mmr[p] = StartMMR + Owed(p) + adjusted[p]

(* A match at rest never records points for the loser of its result, nor any  *)
(* for an abort, an invalidation or an undecided match, after any number of    *)
(* resolutions that each had the match to themselves and none of which took   *)
(* the fresh path on a match with a result.                                   *)
Rewards(result, change) ==
    CASE result = 1 -> change >= 0
      [] result = 2 -> change <= 0
      [] result = 0 -> TRUE
      [] OTHER -> change = 0
Favours(m) == Rewards(row[m].result, row[m].change)
WinnerGains == \A m \in created \ (crossed \cup reopened) : Quiet(m) => Favours(m)

(* The ratings follow the rows of the matches, and the rows their results.     *)
RatingsFollowRows == LedgerBalances /\ WinnerGains

(* However often a match is resolved, its row keeps what the players said:    *)
(* the simulated reports never outlive the resolution that wrote them.        *)
ReportsSurvive ==
    \A m \in created \ crossed : Quiet(m) => row[m].report = said[m]

(* A match is counted as a game at most once, however often it is reported    *)
(* and resolved, as long as no resolution crossed a check of the same match    *)
(* and no draw was decided again.                                             *)
CountedOnce == \A m \in Match \ (crossed \cup reopened) : counted[m] <= 1

(* A resolution that began ends, and a registered admin's is announced to the *)
(* players; it is never left waiting for the lock of the match.               *)
ResolutionsEnd ==
    \A a \in Admin, m \in Match :
        (task[a].pc \in Busy /\ task[a].match = m)
            ~> (task[a].pc \notin Busy /\ (a \in Registered => <<a, m>> \in told))
=============================================================================
