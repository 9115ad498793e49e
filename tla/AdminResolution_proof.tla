------------------------ MODULE AdminResolution_proof ------------------------
(***************************************************************************)
(* Proofs about the decisions of administrators: a match that only one task  *)
(* worked on at a time keeps the reports of its players and is counted once, *)
(* and the ratings are what the rows of the matches say.                     *)
(*                                                                         *)
(* The first invariant follows one match that nobody crossed.  What the      *)
(* players said is in its row, or saved with the one admin at work on it; and *)
(* once the match is counted it has a result and no check is left that could  *)
(* count it again.  A step either takes nothing from a match (Gentle) or is   *)
(* the step of the admin, or of the players, who have it to themselves.       *)
(*                                                                         *)
(* For the ratings each match has its part of them at every stage of the work *)
(* on it (Part): what its row records, less what a check or a resolution has  *)
(* still to write.  Each rating is the start plus the adjustments plus the    *)
(* sum of these parts (Ledger), and a row never pays for a loss (AllFair).    *)
(***************************************************************************)
EXTENDS AdminResolution, FiniteSetTheorems, WellFoundedInduction, TLAPS

Reports == ReportCode \X ReportCode

RowShape(r) ==
    /\ DOMAIN r = {"initial", "report", "result", "change"}
    /\ r.report \in Reports
    /\ r.result \in Decision \cup {None}

Stage == {"free", "rateSecond", "record", "telling", "conflict", "window"}

HandlerShape(h, m) ==
    /\ DOMAIN h = {"by", "pc", "second", "played", "change"}
    /\ h.pc \in Stage
    /\ h.pc = "free" => h.by = Nobody
    /\ h.pc # "free" => (h.by = m \/ h.by \in Admin) /\ m \in created
    /\ h.pc = "window" => h.by = m

TaskShape(t) ==
    /\ DOMAIN t = {"pc", "match", "decision", "saved"}
    /\ t.pc \in Busy \cup {"idle"}
    /\ t.saved \in Reports
    /\ t.pc \in Busy => t.match \in created /\ t.decision \in Decision

\* The shapes of everything but the ratings.
RowsOK == DOMAIN row = Match /\ \A m \in Match : RowShape(row[m])
HandlersOK == DOMAIN handler = Match /\ \A m \in Match : HandlerShape(handler[m], m)
TasksOK == DOMAIN task = Admin /\ \A a \in Admin : TaskShape(task[a])

MarksOK ==
    /\ created \subseteq Match /\ processed \subseteq created
    /\ said \in [Match -> Reports]
    /\ pending \in [Match -> Nat]
    /\ \A m \in Match : pending[m] > 0 => m \in created
    /\ counted \in [Match -> Nat]

Shape == RowsOK /\ HandlersOK /\ TasksOK /\ MarksOK

\* An admin that holds a match's lock is waiting for its check.
HoldersWait ==
    \A m \in Match : handler[m].by \in Admin =>
        task[handler[m].by].pc = "holding" /\ task[handler[m].by].match = m

-----------------------------------------------------------------------------
(* Rows, handlers and tasks *)

LEMMA Codes ==
    /\ Outcome \subseteq ReportCode /\ Decision \subseteq ReportCode
    /\ None \in ReportCode /\ -1 \in ReportCode /\ -3 \in ReportCode /\ -4 \in ReportCode
    /\ None \notin Outcome /\ None \notin Decision
    BY AdminAssumption, ActorsAssumption DEF ReportCode, Decision

LEMMA DecidedShape ==
    ASSUME NEW r, RowShape(r), NEW d \in Decision
    PROVE  /\ RowShape(Decided(r, d))
           /\ Decided(r, d).report = <<d, d>> /\ Decided(r, d).result = d
    <1>1. <<d, d>> \in Reports
        BY Codes DEF Reports
    <1> QED BY <1>1 DEF Decided, RowShape

LEMMA ResultIsReported ==
    ASSUME NEW r, RowShape(r), ~IsAborted(r), BothReported(r), r.report[1] = r.report[2]
    PROVE  r.report[1] \in Outcome
    <1>1. PICK x \in ReportCode, y \in ReportCode : r.report = <<x, y>>
        BY DEF RowShape, Reports
    <1>2. r.report[1] = x /\ r.report[2] = y
        BY <1>1
    <1>3. x = y /\ x # None
        BY <1>2 DEF BothReported
    <1>4. x # -3 /\ x # -4
        BY <1>2 DEF IsAborted
    <1>5. x # -1
        BY <1>1, <1>3 DEF IsAborted, Unrated
    <1> QED BY <1>2, <1>3, <1>4, <1>5 DEF ReportCode

LEMMA BusyTask ==
    ASSUME Shape, NEW a \in Admin, task[a].pc \in Busy
    PROVE  /\ task[a].match \in created /\ task[a].match \in Match
           /\ task[a].decision \in Decision /\ task[a].saved \in Reports
    BY DEF Shape, TasksOK, MarksOK, TaskShape

LEMMA NotBusy == "idle" \notin Busy /\ "free" \notin Busy
    BY DEF Busy

LEMMA RowChanges ==
    ASSUME NEW r, RowShape(r)
    PROVE  /\ \A x : RowShape([r EXCEPT !.initial = x]) /\ RowShape([r EXCEPT !.change = x])
           /\ \A x \in Reports : RowShape([r EXCEPT !.report = x])
           /\ \A d \in Decision : RowShape([r EXCEPT !.result = d])
    BY DEF RowShape

LEMMA RowIsSet ==
    ASSUME RowsOK, NEW m \in Match, NEW r, RowShape(r), row' = [row EXCEPT ![m] = r]
    PROVE  RowsOK'
    BY DEF RowsOK

LEMMA HandlerIsSet ==
    ASSUME HandlersOK, NEW m \in Match, NEW h, HandlerShape(h, m),
           handler' = [handler EXCEPT ![m] = h], UNCHANGED created
    PROVE  HandlersOK'
    <1>1. \A k \in Match : \A g : HandlerShape(g, k) => HandlerShape(g, k)'
        BY DEF HandlerShape
    <1> QED BY <1>1 DEF HandlersOK

LEMMA TaskIsSet ==
    ASSUME TasksOK, NEW a \in Admin, NEW t, TaskShape(t),
           task' = [task EXCEPT ![a] = t], UNCHANGED created
    PROVE  TasksOK'
    <1>1. \A g : TaskShape(g) => TaskShape(g)'
        BY DEF TaskShape
    <1> QED BY <1>1 DEF TasksOK

LEMMA SameHandlers ==
    ASSUME HandlersOK, UNCHANGED <<handler, created>>
    PROVE  HandlersOK'
    BY DEF HandlersOK, HandlerShape

LEMMA SameTasks ==
    ASSUME TasksOK, UNCHANGED <<task, created>>
    PROVE  TasksOK'
    BY DEF TasksOK, TaskShape

LEMMA SameRows ==
    ASSUME RowsOK, UNCHANGED row
    PROVE  RowsOK'
    BY DEF RowsOK

LEMMA FreeShape ==
    ASSUME NEW m \in Match
    PROVE  /\ HandlerShape(FreeLock, m)
           /\ \A h : Unlocked(h) = FreeLock
           /\ FreeLock.by = Nobody /\ FreeLock.pc = "free"
    BY DEF FreeLock, HandlerShape, Stage, Unlocked

\* A handler with work left.
LEMMA WorkShape ==
    ASSUME NEW m \in created, NEW by \in Admin \cup {m}, NEW s \in Stage \ {"free"},
           s = "window" => by = m
    PROVE  /\ HandlerShape([FreeLock EXCEPT !.by = by, !.pc = s], m)
           /\ [FreeLock EXCEPT !.by = by, !.pc = s].by = by
           /\ [FreeLock EXCEPT !.by = by, !.pc = s].pc = s
           /\ \A x, y, z : HandlerShape([by |-> by, pc |-> s, second |-> x,
                                         played |-> y, change |-> z], m)
    <1>1. [FreeLock EXCEPT !.by = by, !.pc = s] =
              [by |-> by, pc |-> s, second |-> 0, played |-> 0, change |-> 0]
        <2>1. [FreeLock EXCEPT !.by = by] =
                  [by |-> by, pc |-> "free", second |-> 0, played |-> 0, change |-> 0]
            BY DEF FreeLock
        <2>2. ASSUME NEW w, w = [by |-> by, pc |-> "free", second |-> 0, played |-> 0, change |-> 0]
              PROVE  [w EXCEPT !.pc = s] =
                         [by |-> by, pc |-> s, second |-> 0, played |-> 0, change |-> 0]
            BY <2>2
        <2> QED BY <2>1, <2>2
    <1> QED BY <1>1 DEF HandlerShape

LEMMA NextStage ==
    ASSUME NEW m \in Match, NEW h, HandlerShape(h, m), h.pc # "free",
           NEW s \in Stage \ {"free", "window"}
    PROVE  /\ HandlerShape([h EXCEPT !.pc = s], m)
           /\ [h EXCEPT !.pc = s].by = h.by /\ [h EXCEPT !.pc = s].pc = s
    BY DEF HandlerShape

LEMMA IdleShape ==
    /\ TaskShape(Idle) /\ Idle.pc = "idle"
    <1>1. <<None, None>> \in Reports
        BY Codes DEF Reports
    <1> QED BY <1>1, NotBusy DEF Idle, TaskShape

LEMMA CommandIs ==
    ASSUME NEW m, NEW d
    PROVE  Command(m, d) = [pc |-> "idle", match |-> m, decision |-> d, saved |-> <<None, None>>]
    <1>1. [Idle EXCEPT !.match = m] =
              [pc |-> "idle", match |-> m, decision |-> None, saved |-> <<None, None>>]
        BY DEF Idle
    <1>2. ASSUME NEW w,
                 w = [pc |-> "idle", match |-> m, decision |-> None, saved |-> <<None, None>>]
          PROVE  [w EXCEPT !.decision = d] =
                     [pc |-> "idle", match |-> m, decision |-> d, saved |-> <<None, None>>]
        BY <1>2
    <1> QED BY <1>1, <1>2 DEF Command

LEMMA StageSet ==
    ASSUME NEW h, NEW p, NEW x, NEW m, NEW d, NEW s,
           h = [pc |-> x, match |-> m, decision |-> d, saved |-> s]
    PROVE  [h EXCEPT !.pc = p] = [pc |-> p, match |-> m, decision |-> d, saved |-> s]
    OBVIOUS

LEMMA NextPc ==
    ASSUME NEW t, TaskShape(t), t.pc \in Busy, NEW p \in Busy
    PROVE  LET u == [t EXCEPT !.pc = p]
           IN  TaskShape(u) /\ u.pc = p /\ u.match = t.match /\ u.saved = t.saved
    BY DEF TaskShape

-----------------------------------------------------------------------------
(* Who works on a match *)

On(a, m) == task[a].pc \in Busy /\ task[a].match = m

LEMMA AtMostOne ==
    ASSUME NEW S, IsFiniteSet(S), ~(Cardinality(S) > 1), NEW x \in S, NEW y \in S
    PROVE  x = y
    <1> SUFFICES ASSUME x # y PROVE FALSE
        OBVIOUS
    <1>1. IsFiniteSet({x}) /\ Cardinality({x}) = 1
        BY FS_Singleton
    <1>2. Cardinality({x} \cup {y}) = 2
        <2>1. Cardinality({x} \cup {y}) = Cardinality({x}) + 1
            BY <1>1, FS_AddElement
        <2> QED BY <1>1, <2>1
    <1>3. {x} \cup {y} \subseteq S
        OBVIOUS
    <1>4. Cardinality({x} \cup {y}) <= Cardinality(S)
        BY <1>3, FS_Subset
    <1>5. Cardinality(S) \in Nat
        BY FS_CardinalityType
    <1> QED BY <1>2, <1>4, <1>5

LEMMA WorkersAre ==
    ASSUME NEW m \in Match
    PROVE  /\ \A a \in Admin : On(a, m) => a \in WorkersOf(m)
           /\ pending[m] > 0 \/ handler[m].by = m => m \in WorkersOf(m)
           /\ IsFiniteSet(WorkersOf(m))
           /\ m \notin Admin
    <1>1. WorkersOf(m) \subseteq Admin \cup {m}
        BY DEF WorkersOf
    <1>2. IsFiniteSet(Admin \cup {m})
        BY ActorsAssumption, FS_AddElement
    <1>3. IsFiniteSet(WorkersOf(m))
        BY <1>1, <1>2, FS_Subset
    <1> QED BY <1>3, ActorsAssumption DEF WorkersOf, On

OneWorker(m) == \A x, y \in WorkersOf(m) : x = y

Marked(here) ==
    /\ crossed \subseteq crossed' /\ here \cap Match \subseteq crossed'
    /\ \A m \in Match \ crossed' : OneWorker(m)'

\* Matches that are not marked as crossed have one worker.
LEMMA CrossingMarks ==
    ASSUME NEW here, Crossing(here)
    PROVE  Marked(here)
    <1>1. crossed \subseteq crossed' /\ here \cap Match \subseteq crossed'
        BY DEF Crossing
    <1>2. ASSUME NEW m \in Match, m \notin crossed' PROVE OneWorker(m)'
        <2>1. ~(Cardinality(WorkersOf(m)') > 1)
            BY <1>2 DEF Crossing
        <2>2. IsFiniteSet(WorkersOf(m)')
            <3>1. WorkersOf(m)' \subseteq Admin \cup {m}
                BY DEF WorkersOf
            <3>2. IsFiniteSet(Admin \cup {m})
                BY ActorsAssumption, FS_AddElement
            <3> QED BY <3>1, <3>2, FS_Subset
        <2>3. \A x, y \in WorkersOf(m)' : x = y
            BY <2>1, <2>2, AtMostOne
        <2> QED BY <2>3 DEF OneWorker
    <1> QED BY <1>1, <1>2 DEF Marked

-----------------------------------------------------------------------------
(* The invariant *)

\* What the players said is in the row, or with the admin at work on the match.
Kept(m) ==
    /\ \A a \in Admin : On(a, m) => task[a].saved = said[m]
    /\ (\A a \in Admin : ~On(a, m)) => row[m].report = said[m]

\* A match that was counted has a result, and no check that could count it again.
CountedOK(m) ==
    counted[m] >= 1 =>
        /\ counted[m] = 1
        /\ row[m].result # None
        /\ (m \in processed \/ handler[m].pc \in {"rateSecond", "record"} \/ pending[m] = 0)

\* Nobody waits for a lock where nobody crossed.
NobodyWaits(m) == \A a \in Admin : On(a, m) => task[a].pc # "waiting"

Calm(m) == Kept(m) /\ NobodyWaits(m) /\ (m \notin reopened => CountedOK(m))

Inv ==
    /\ Shape
    /\ HoldersWait
    /\ \A m \in Match \ crossed : OneWorker(m) /\ Calm(m)

LEMMA InvImplies ==
    ASSUME Inv
    PROVE  ReportsSurvive /\ CountedOnce
    <1>1. ReportsSurvive
        <2> SUFFICES ASSUME NEW m \in created \ crossed, Quiet(m)
                     PROVE  row[m].report = said[m]
            BY DEF ReportsSurvive
        <2>1. m \in Match
            BY DEF Inv, Shape, MarksOK
        <2>2. \A a \in Admin : ~On(a, m)
            BY <2>1, WorkersAre DEF Quiet
        <2> QED BY <2>1, <2>2 DEF Inv, Calm, Kept
    <1>2. CountedOnce
        <2> SUFFICES ASSUME NEW m \in Match, m \notin crossed, m \notin reopened
                     PROVE  counted[m] <= 1
            BY DEF CountedOnce
        <2>1. counted[m] \in Nat
            BY DEF Inv, Shape, MarksOK
        <2>2. counted[m] >= 1 => counted[m] = 1
            BY DEF Inv, Calm, CountedOK
        <2> QED BY <2>1, <2>2
    <1> QED BY <1>1, <1>2

\* A step that takes nothing from a match.
Gentle(m) ==
    /\ row'[m].report = row[m].report
    /\ row[m].result # None => row'[m].result # None
    /\ said'[m] = said[m] /\ counted'[m] = counted[m] /\ pending'[m] <= pending[m]
    /\ m \in processed => m \in processed'
    /\ handler[m].pc \in {"rateSecond", "record"} =>
          m \in processed' \/ handler'[m].pc \in {"rateSecond", "record"}
    /\ \A a \in Admin : /\ On(a, m)' <=> On(a, m)
                        /\ On(a, m) => task'[a].saved = task[a].saved
                        /\ On(a, m) /\ task'[a].pc = "waiting" => task[a].pc = "waiting"

LEMMA GentleKeeps ==
    ASSUME NEW m \in Match, Calm(m), Gentle(m), reopened \subseteq reopened',
           pending \in [Match -> Nat], pending' \in [Match -> Nat]
    PROVE  Calm(m)'
    <1>1. Kept(m)'
        BY DEF Calm, Kept, Gentle
    <1>2. NobodyWaits(m)'
        BY DEF Calm, NobodyWaits, Gentle
    <1>3. ASSUME m \notin reopened' PROVE CountedOK(m)'
        <2>1. CountedOK(m) /\ pending[m] \in Nat /\ pending'[m] \in Nat
            BY <1>3 DEF Calm
        <2>2. pending[m] = 0 => pending'[m] = 0
            BY <2>1 DEF Gentle
        <2> QED BY <2>1, <2>2 DEF CountedOK, Gentle
    <1> QED BY <1>1, <1>2, <1>3 DEF Calm

\* A step of one admin's task at one match leaves the tasks at other matches.
LEMMA TasksElsewhere ==
    ASSUME NEW a \in Admin, NEW t, task' = [task EXCEPT ![a] = t], DOMAIN task = Admin,
           NEW m, NEW k \in Match, k # m,
           task[a].pc \in Busy => task[a].match = m, t.pc \in Busy => t.match = m
    PROVE  \A b \in Admin : /\ On(b, k)' <=> On(b, k)
                            /\ On(b, k) => task'[b] = task[b]
    BY DEF On

LEMMA HoldersStay ==
    ASSUME HoldersWait, NEW a \in Admin, NEW t, task' = [task EXCEPT ![a] = t],
           DOMAIN task = Admin, task[a].pc # "holding", UNCHANGED handler
    PROVE  HoldersWait'
    BY DEF HoldersWait

LEMMA HandlerChanges ==
    ASSUME HoldersWait, HandlersOK, UNCHANGED task, NEW m \in Match, NEW h,
           handler' = [handler EXCEPT ![m] = h], h.by \in Admin => h.by = handler[m].by
    PROVE  HoldersWait'
    BY DEF HoldersWait, HandlersOK

LEMMA StepKeeps ==
    ASSUME Inv, NEW here, Marked(here), Shape', HoldersWait', reopened \subseteq reopened',
           \A k \in Match : k \notin crossed' => Gentle(k) \/ Calm(k)'
    PROVE  Inv'
    <1>1. pending \in [Match -> Nat] /\ pending' \in [Match -> Nat]
        BY DEF Inv, Shape, MarksOK
    <1>2. ASSUME NEW k \in Match, k \notin crossed' PROVE OneWorker(k)' /\ Calm(k)'
        <2>1. Calm(k)
            BY <1>2 DEF Inv, Marked
        <2>2. CASE Gentle(k)
            BY <1>1, <1>2, <2>1, <2>2, GentleKeeps DEF Marked
        <2>3. CASE Calm(k)'
            BY <1>2, <2>3 DEF Marked
        <2> QED BY <1>2, <2>2, <2>3
    <1> QED BY <1>2 DEF Inv

LEMMA SameTasksGentle ==
    ASSUME UNCHANGED task
    PROVE  \A k : \A a \in Admin : /\ On(a, k)' <=> On(a, k)
                                   /\ On(a, k) => task'[a].saved = task[a].saved
                                   /\ On(a, k) /\ task'[a].pc = "waiting" => task[a].pc = "waiting"
    BY DEF On

-----------------------------------------------------------------------------
(* The players *)

LEMMA QueueOrRatingKeeps ==
    ASSUME Inv, Marked({}), UNCHANGED <<rowVars, pending, handler, task, said, counted, reopened>>
    PROVE  Inv'
    <1>1. Shape'
        BY SameHandlers, SameTasks, SameRows DEF Inv, Shape, MarksOK, rowVars
    <1>2. HoldersWait'
        BY DEF Inv, HoldersWait
    <1>3. \A k \in Match : Gentle(k)
        BY SameTasksGentle DEF Gentle, rowVars, Inv, Shape, MarksOK
    <1> QED BY <1>1, <1>2, <1>3, StepKeeps

LEMMA CreateKeeps ==
    ASSUME Inv, NEW m \in Match, CreateMatch(m), Marked({})
    PROVE  Inv'
    <1>1. /\ created' = created \cup {m}
          /\ UNCHANGED <<processed, pending, handler, task, said, counted, reopened>>
        BY DEF CreateMatch, ghostVars
    <1>2. PICK x : row' = [row EXCEPT ![m] = [row[m] EXCEPT !.initial = x]]
        BY DEF CreateMatch
    <1>3. RowsOK'
        BY <1>2, RowIsSet, RowChanges DEF Inv, Shape, RowsOK
    <1>4. HandlersOK' /\ TasksOK' /\ MarksOK'
        BY <1>1 DEF Inv, Shape, HandlersOK, HandlerShape, TasksOK, TaskShape, MarksOK
    <1>5. HoldersWait'
        BY <1>1 DEF Inv, HoldersWait
    <1>6. ASSUME NEW k \in Match
          PROVE  row'[k].report = row[k].report /\ row'[k].result = row[k].result
        BY <1>2 DEF Inv, Shape, RowsOK, RowShape
    <1>7. \A k \in Match : Gentle(k)
        BY <1>1, <1>6, SameTasksGentle DEF Gentle, Inv, Shape, MarksOK
    <1> QED BY <1>1, <1>3, <1>4, <1>5, <1>7, StepKeeps DEF Shape

\* A player's own report or abort: nobody else may be at work on the match.
LEMMA PlayersWordKeeps ==
    ASSUME Inv, Marked({}), NEW m \in created,
           row[m].result = None, NEW r, RowShape(r),
           row' = [row EXCEPT ![m] = r],
           row[m].report = said[m] => r.report = said'[m],
           NEW w \in Reports, said' = [said EXCEPT ![m] = w],
           pending' = [pending EXCEPT ![m] = @ + 1],
           UNCHANGED <<created, processed, handler, task, counted, reopened>>
    PROVE  Inv'
    <1>0. m \in Match
        BY DEF Inv, Shape, MarksOK
    <1>1. RowsOK'
        BY <1>0, RowIsSet DEF Inv, Shape
    <1>2. HandlersOK' /\ TasksOK'
        BY SameHandlers, SameTasks DEF Inv, Shape
    <1>3. MarksOK'
        BY <1>0 DEF Inv, Shape, MarksOK
    <1>4. HoldersWait'
        BY DEF Inv, HoldersWait
    <1>5. ASSUME NEW k \in Match, k # m PROVE Gentle(k)
        <2>1. row'[k] = row[k] /\ said'[k] = said[k] /\ pending'[k] = pending[k] /\ pending[k] \in Nat
            BY <1>0, <1>5 DEF Inv, Shape, RowsOK, MarksOK
        <2> QED BY <2>1, SameTasksGentle DEF Gentle
    <1>6. ASSUME m \notin crossed' PROVE Calm(m)'
        <2>1. Calm(m) /\ OneWorker(m)'
            BY <1>0, <1>6 DEF Inv, Marked
        <2>2. m \in WorkersOf(m)'
            <3>1. pending'[m] = pending[m] + 1 /\ pending[m] \in Nat
                BY <1>0 DEF Inv, Shape, MarksOK
            <3>2. pending'[m] > 0
                BY <3>1
            <3> QED BY <3>2 DEF WorkersOf
        <2>3. \A a \in Admin : ~On(a, m)
            <3>1. ASSUME NEW a \in Admin, On(a, m) PROVE FALSE
                <4>1. a \in WorkersOf(m)'
                    BY <3>1 DEF WorkersOf, On
                <4>2. a = m
                    BY <2>1, <2>2, <4>1 DEF OneWorker
                <4> QED BY <1>0, <4>2, ActorsAssumption
            <3> QED BY <3>1
        <2>4. \A a \in Admin : ~On(a, m)'
            BY <2>3 DEF On
        <2>5. row'[m] = r
            BY <1>0 DEF Inv, Shape, RowsOK
        <2>6. row'[m].report = said'[m]
            BY <2>1, <2>3, <2>5 DEF Calm, Kept
        <2>7. Kept(m)'
            BY <2>4, <2>6 DEF Kept
        <2>8. NobodyWaits(m)'
            BY <2>4 DEF NobodyWaits
        <2>9. m \notin reopened' => CountedOK(m)'
            BY <2>1 DEF Calm, CountedOK
        <2> QED BY <2>7, <2>8, <2>9 DEF Calm
    <1> QED BY <1>1, <1>2, <1>3, <1>4, <1>5, <1>6, StepKeeps DEF Shape

LEMMA RecordKeeps ==
    ASSUME Inv, NEW m \in Match, NEW i \in {1, 2}, NEW v \in Outcome,
           RecordReport(m, i, v), Marked({})
    PROVE  Inv'
    <1>1. /\ m \in created /\ row[m].result = None
          /\ row' = [row EXCEPT ![m].report[i] = v]
          /\ said' = [said EXCEPT ![m][i] = v]
          /\ pending' = [pending EXCEPT ![m] = @ + 1]
          /\ UNCHANGED <<created, processed, handler, task, counted, reopened>>
        BY DEF RecordReport, Accepts
    <1>2. /\ RowShape(row[m]) /\ row[m].report \in Reports /\ said[m] \in Reports
          /\ v \in ReportCode
        BY Codes DEF Inv, Shape, RowsOK, RowShape, MarksOK
    <1>3. \A s \in Reports : [s EXCEPT ![i] = v] \in Reports
        BY <1>2 DEF Reports
    <1> DEFINE r == [row[m] EXCEPT !.report = [row[m].report EXCEPT ![i] = v]]
               w == [said[m] EXCEPT ![i] = v]
    <1>4. RowShape(r) /\ w \in Reports
        BY <1>2, <1>3, RowChanges
    <1>5. r.report = [row[m].report EXCEPT ![i] = v]
        BY <1>2 DEF RowShape
    <1>6. row' = [row EXCEPT ![m] = r] /\ said' = [said EXCEPT ![m] = w]
        BY <1>1
    <1>7. row[m].report = said[m] => r.report = said'[m]
        BY <1>5, <1>6 DEF Inv, Shape, MarksOK
    <1> HIDE DEF r, w
    <1> QED BY <1>1, <1>4, <1>6, <1>7, PlayersWordKeeps

LEMMA AbortKeeps ==
    ASSUME Inv, NEW m \in Match, NEW i \in {1, 2}, AbortMatch(m, i), Marked({})
    PROVE  Inv'
    <1> DEFINE codes == IF i = 1 THEN <<-3, -1>> ELSE <<-1, -3>>
    <1>1. /\ m \in created /\ row[m].result = None
          /\ row' = [row EXCEPT ![m].report = codes, ![m].result = -1]
          /\ said' = [said EXCEPT ![m] = codes]
          /\ pending' = [pending EXCEPT ![m] = @ + 1]
          /\ UNCHANGED <<created, processed, handler, task, counted, reopened>>
        BY DEF AbortMatch, Accepts
    <1>2. codes \in Reports
        BY Codes DEF Reports
    <1> HIDE DEF codes
    <1>3. PICK r : /\ RowShape(r) /\ r.report = codes
                   /\ row' = [row EXCEPT ![m] = r]
        <2>1. RowShape(row[m])
            BY DEF Inv, Shape, RowsOK
        <2> DEFINE q == [row[m] EXCEPT !.report = codes]
                   r == [q EXCEPT !.result = -1]
        <2>2. RowShape(q) /\ q.report = codes
            BY <1>2, <2>1, RowChanges DEF RowShape
        <2>3. RowShape(r) /\ r.report = codes
            <3> HIDE DEF q
            <3>1. -1 \in Decision
                BY DEF Decision
            <3> QED BY <2>2, <3>1, RowChanges DEF RowShape
        <2>4. row' = [row EXCEPT ![m] = r]
            BY <1>1
        <2> HIDE DEF r
        <2> QED BY <2>3, <2>4
    <1>4. said'[m] = codes
        BY <1>1 DEF Inv, Shape, MarksOK
    <1> QED BY <1>1, <1>2, <1>3, <1>4, PlayersWordKeeps

-----------------------------------------------------------------------------
(* The checks *)

LEMMA HandlesDoes ==
    ASSUME Inv, NEW m \in created, NEW by \in Admin \cup {m}, NEW r, RowShape(r),
           Handles(m, by, r), UNCHANGED created
    PROVE  /\ RowsOK' /\ HandlersOK'
           /\ \E h : handler' = [handler EXCEPT ![m] = h] /\ h.by = by
           /\ processed' \in {processed, processed \cup {m}} /\ m \notin processed
           /\ handler[m].pc = "free"
           /\ \A k \in Match \ {m} : row'[k] = row[k] /\ handler'[k] = handler[k]
           /\ row'[m].report = r.report
           /\ r.result # None => row'[m].result # None
           /\ \/ counted' = counted
              \/ /\ counted' = [counted EXCEPT ![m] = @ + 1]
                 /\ row'[m].result # None
                 /\ handler'[m].pc = "rateSecond"
    <1>1. m \in Match /\ handler[m].pc = "free" /\ DOMAIN row = Match /\ DOMAIN handler = Match
        BY DEF Inv, Shape, MarksOK, RowsOK, HandlersOK, Handles
    <1>2. /\ "telling" \in Stage \ {"free"} /\ "conflict" \in Stage \ {"free"}
          /\ "rateSecond" \in Stage \ {"free"}
        BY DEF Stage
    <1>3. CASE CheckAborts(m, by, r)
        <2> DEFINE h == [FreeLock EXCEPT !.by = by, !.pc = "telling"]
        <2>4. "telling" \in Stage \ {"free"} /\ "telling" # "window"
            BY <1>2
        <2>1. HandlerShape(h, m) /\ h.by = by
            BY <2>4, WorkShape
        <2>2. /\ row' = [row EXCEPT ![m] = r] /\ processed' = processed \cup {m}
              /\ m \notin processed /\ handler' = [handler EXCEPT ![m] = h]
              /\ counted' = counted
            BY <1>3 DEF CheckAborts
        <2> HIDE DEF h
        <2>3. RowsOK' /\ HandlersOK'
            BY <1>1, <2>1, <2>2, RowIsSet, HandlerIsSet DEF Inv, Shape
        <2> QED BY <1>1, <2>1, <2>2, <2>3
    <1>4. CASE CheckConflicts(m, by, r)
        <2> DEFINE h == [FreeLock EXCEPT !.by = by, !.pc = "conflict"]
        <2>4. "conflict" \in Stage \ {"free"} /\ "conflict" # "window"
            BY <1>2
        <2>1. HandlerShape(h, m) /\ h.by = by
            BY <2>4, WorkShape
        <2>2. /\ row' = [row EXCEPT ![m] = r] /\ processed' = processed
              /\ m \notin processed /\ handler' = [handler EXCEPT ![m] = h]
              /\ counted' = counted
            BY <1>4 DEF CheckConflicts
        <2> HIDE DEF h
        <2>3. RowsOK' /\ HandlersOK'
            BY <1>1, <2>1, <2>2, RowIsSet, HandlerIsSet DEF Inv, Shape
        <2> QED BY <1>1, <2>1, <2>2, <2>3
    <1>5. CASE CheckCompletes(m, by, r)
        <2> DEFINE q == [r EXCEPT !.result = r.report[1]]
        <2>1. PICK x, y, z :
                handler' = [handler EXCEPT ![m] = [by |-> by, pc |-> "rateSecond",
                                                   second |-> x, played |-> y, change |-> z]]
            BY <1>5 DEF CheckCompletes
        <2> DEFINE h == [by |-> by, pc |-> "rateSecond", second |-> x, played |-> y, change |-> z]
        <2>2. HandlerShape(h, m) /\ h.by = by /\ h.pc = "rateSecond"
            BY <1>2, WorkShape
        <2>3. /\ row' = [row EXCEPT ![m] = q] /\ processed' = processed
              /\ m \notin processed
              /\ counted' = [counted EXCEPT ![m] = @ + 1]
            BY <1>5 DEF CheckCompletes, Rateable
        <2>4. r.report[1] \in Outcome
            BY <1>5, ResultIsReported DEF CheckCompletes, Rateable
        <2>5. RowShape(q) /\ q.report = r.report /\ q.result # None
            <3>1. r.report[1] \in Decision /\ r.report[1] # None
                BY <2>4, Codes DEF Decision
            <3> QED BY <3>1, RowChanges DEF RowShape
        <2>6. handler' = [handler EXCEPT ![m] = h]
            BY <2>1
        <2> HIDE DEF h, q
        <2>7. RowsOK' /\ HandlersOK'
            BY <1>1, <2>2, <2>3, <2>5, <2>6, RowIsSet, HandlerIsSet DEF Inv, Shape
        <2> QED BY <1>1, <2>2, <2>3, <2>5, <2>6, <2>7
    <1> QED BY <1>3, <1>4, <1>5 DEF Handles

LEMMA ReportCheckKeeps ==
    ASSUME Inv, NEW m \in Match, ReportCheck(m), Marked({})
    PROVE  Inv'
    <1>1. /\ pending[m] > 0 /\ handler[m].pc = "free"
          /\ pending' = [pending EXCEPT ![m] = @ - 1]
          /\ UNCHANGED <<created, closed, task, said, reopened>>
        BY DEF ReportCheck
    <1>2. m \in created /\ RowShape(row[m]) /\ pending \in [Match -> Nat] /\ m \notin Admin
        BY <1>1, ActorsAssumption DEF Inv, Shape, MarksOK, RowsOK
    <1>3. pending' \in [Match -> Nat] /\ \A k \in Match : pending'[k] <= pending[k]
        BY <1>1, <1>2
    <1>4. CASE Handles(m, m, row[m])
        <2>1. /\ RowsOK' /\ HandlersOK'
              /\ \E h : handler' = [handler EXCEPT ![m] = h] /\ h.by = m
              /\ processed' \in {processed, processed \cup {m}} /\ m \notin processed
              /\ handler[m].pc = "free"
              /\ \A k \in Match \ {m} : row'[k] = row[k] /\ handler'[k] = handler[k]
              /\ row'[m].report = row[m].report
              /\ row[m].result # None => row'[m].result # None
              /\ \/ counted' = counted
                 \/ /\ counted' = [counted EXCEPT ![m] = @ + 1]
                    /\ row'[m].result # None
                    /\ handler'[m].pc = "rateSecond"
            BY <1>1, <1>2, <1>4, HandlesDoes
        <2>2. MarksOK'
            BY <1>1, <1>2, <1>3, <2>1 DEF Inv, Shape, MarksOK
        <2>3. TasksOK'
            BY <1>1, SameTasks DEF Inv, Shape
        <2>4. HoldersWait'
            <3>1. PICK h : handler' = [handler EXCEPT ![m] = h] /\ h.by = m
                BY <2>1
            <3>2. UNCHANGED task /\ (h.by \in Admin => h.by = handler[m].by)
                BY <1>1, <1>2, <3>1
            <3> QED BY <3>1, <3>2, HandlerChanges DEF Inv, Shape
        <2>5. ASSUME NEW k \in Match, k # m PROVE Gentle(k)
            <3>1. counted'[k] = counted[k]
                BY <2>1, <2>5 DEF Inv, Shape, MarksOK
            <3> QED BY <1>1, <1>3, <2>1, <2>5, <3>1, SameTasksGentle DEF Gentle
        <2>6. CASE counted' = counted
            <3>1. Gentle(m)
                BY <1>1, <1>3, <2>1, <2>6, SameTasksGentle DEF Gentle
            <3> QED BY <1>1, <2>1, <2>2, <2>3, <2>4, <2>5, <3>1, StepKeeps DEF Shape
        <2>7. CASE /\ counted' = [counted EXCEPT ![m] = @ + 1]
                   /\ row'[m].result # None
                   /\ handler'[m].pc = "rateSecond"
            <3>1. ASSUME m \notin crossed' PROVE Calm(m)'
                <4>1. Calm(m)
                    BY <3>1 DEF Inv, Marked
                <4>2. Kept(m)' /\ NobodyWaits(m)'
                    BY <1>1, <2>1, <4>1 DEF Calm, Kept, NobodyWaits, On
                <4>3. ASSUME m \notin reopened' PROVE CountedOK(m)'
                    <5>1. CountedOK(m) /\ counted[m] \in Nat /\ pending[m] \in Nat
                        BY <1>1, <1>2, <4>1, <4>3 DEF Calm, Inv, Shape, MarksOK
                    <5>2. ~(counted[m] >= 1)
                        BY <1>1, <2>1, <5>1 DEF CountedOK
                    <5>3. counted'[m] = 1
                        BY <2>7, <5>1, <5>2 DEF Inv, Shape, MarksOK
                    <5> QED BY <2>7, <5>3 DEF CountedOK
                <4> QED BY <4>2, <4>3 DEF Calm
            <3> QED BY <1>1, <2>1, <2>2, <2>3, <2>4, <2>5, <3>1, StepKeeps DEF Shape
        <2> QED BY <2>1, <2>6, <2>7
    <1>5. CASE UNCHANGED <<playerVars, row, processed, handler, counted>>
        <2>1. Shape'
            BY <1>1, <1>3, <1>5, SameRows, SameHandlers, SameTasks DEF Inv, Shape, MarksOK
        <2>2. HoldersWait'
            BY <1>1, <1>5 DEF Inv, HoldersWait
        <2>3. \A k \in Match : Gentle(k)
            BY <1>1, <1>3, <1>5, SameTasksGentle DEF Gentle
        <2> QED BY <1>1, <2>1, <2>2, <2>3, StepKeeps
    <1> QED BY <1>4, <1>5 DEF ReportCheck

\* What the holder of a lock does next, the row's verdict staying.
LEMMA LockStepKeeps ==
    ASSUME Inv, Marked({}), NEW m \in Match, NEW h, HandlerShape(h, m),
           handler' = [handler EXCEPT ![m] = h],
           h.by = handler[m].by \/ h.by \notin Admin,
           handler[m].pc \in {"rateSecond", "record"} =>
               m \in processed' \/ h.pc \in {"rateSecond", "record"},
           processed' \in {processed, processed \cup {m}}, m \in created,
           \/ UNCHANGED row
           \/ \E x : row' = [row EXCEPT ![m] = [row[m] EXCEPT !.change = x]],
           UNCHANGED <<created, pending, task, said, counted, reopened>>
    PROVE  Inv'
    <1>1. HandlersOK' /\ TasksOK'
        BY HandlerIsSet, SameTasks DEF Inv, Shape
    <1>2. RowsOK'
        BY SameRows, RowIsSet, RowChanges DEF Inv, Shape, RowsOK
    <1>3. MarksOK'
        BY DEF Inv, Shape, MarksOK
    <1>4. HoldersWait'
        <2>1. h.by \in Admin => h.by = handler[m].by
            OBVIOUS
        <2> QED BY <2>1, HandlerChanges DEF Inv, Shape
    <1>5. ASSUME NEW k \in Match PROVE Gentle(k)
        <2>1. row'[k].report = row[k].report /\ row'[k].result = row[k].result
            BY DEF Inv, Shape, RowsOK, RowShape
        <2>2. handler[k].pc \in {"rateSecond", "record"} =>
                  k \in processed' \/ handler'[k].pc \in {"rateSecond", "record"}
            BY DEF Inv, Shape, HandlersOK
        <2> QED BY <2>1, <2>2, SameTasksGentle DEF Gentle, Inv, Shape, MarksOK
    <1> QED BY <1>1, <1>2, <1>3, <1>4, <1>5, StepKeeps DEF Shape

LEMMA LockStepsKeep ==
    ASSUME Inv, Marked({}), NEW m \in Match,
           RateSecond(m) \/ Complete(m) \/ EndCheck(m) \/ CloseWindow(m)
    PROVE  Inv'
    <1>1. HandlerShape(handler[m], m) /\ DOMAIN handler = Match
        BY DEF Inv, Shape, HandlersOK
    <1>2. /\ "record" \in Stage \ {"free", "window"} /\ "telling" \in Stage \ {"free", "window"}
          /\ "window" \in Stage \ {"free"}
        BY DEF Stage
    <1>3. m \notin Admin /\ Nobody \notin Admin
        BY ActorsAssumption
    <1>4. CASE RateSecond(m)
        <2> DEFINE h == [handler[m] EXCEPT !.pc = "record"]
        <2>1. handler[m].pc = "rateSecond" /\ handler' = [handler EXCEPT ![m] = h]
              /\ UNCHANGED <<rowVars, pending, task, ghostVars>>
            BY <1>4 DEF RateSecond
        <2>2. HandlerShape(h, m) /\ h.by = handler[m].by /\ h.pc = "record" /\ m \in created
            BY <1>1, <1>2, <2>1, NextStage DEF HandlerShape
        <2> HIDE DEF h
        <2> QED BY <2>1, <2>2, LockStepKeeps DEF rowVars, ghostVars
    <1>5. CASE Complete(m)
        <2> DEFINE h == [handler[m] EXCEPT !.pc = "telling"]
        <2>1. /\ handler[m].pc = "record" /\ handler' = [handler EXCEPT ![m] = h]
              /\ processed' = processed \cup {m}
              /\ row' = [row EXCEPT ![m] = [row[m] EXCEPT !.change = handler[m].change]]
              /\ UNCHANGED <<created, pending, task, ghostVars>>
            BY <1>5 DEF Complete
        <2>2. HandlerShape(h, m) /\ h.by = handler[m].by /\ m \in created
            BY <1>1, <1>2, <2>1, NextStage DEF HandlerShape
        <2> HIDE DEF h
        <2> QED BY <2>1, <2>2, LockStepKeeps DEF ghostVars
    <1>6. CASE EndCheck(m)
        <2>1. /\ handler[m].pc \in {"telling", "conflict"}
              /\ handler' = [handler EXCEPT ![m] = FreeLock]
              /\ processed' \in {processed, processed \cup {m}}
              /\ UNCHANGED <<created, row, pending, task, ghostVars>>
            BY <1>6, FreeShape DEF EndCheck, Ended, MarkIfConflict
        <2>2. HandlerShape(FreeLock, m) /\ FreeLock.by \notin Admin /\ m \in created
            BY <1>1, <1>3, <2>1, FreeShape DEF HandlerShape
        <2> QED BY <2>1, <2>2, LockStepKeeps DEF ghostVars
    <1>7. CASE CloseWindow(m)
        <2> DEFINE h == [FreeLock EXCEPT !.by = m, !.pc = "window"]
        <2>1. /\ m \in created /\ handler[m].pc = "free"
              /\ handler' = [handler EXCEPT ![m] = h]
              /\ UNCHANGED <<created, row, processed, pending, task, ghostVars>>
            BY <1>7 DEF CloseWindow
        <2>2. HandlerShape(h, m) /\ h.by = m
            <3>1. m \in created /\ m \in Admin \cup {m}
                BY <2>1
            <3> QED BY <1>2, <3>1, WorkShape
        <2> HIDE DEF h
        <2>3. handler[m].pc \notin {"rateSecond", "record"} /\ h.by \notin Admin
            BY <1>3, <2>1, <2>2
        <2>4. processed' \in {processed, processed \cup {m}} /\ UNCHANGED <<said, counted, reopened>>
            BY <2>1 DEF ghostVars
        <2> QED BY <2>1, <2>2, <2>3, <2>4, LockStepKeeps
    <1> QED BY <1>4, <1>5, <1>6, <1>7

LEMMA WindowKeeps ==
    ASSUME Inv, Marked({}), NEW m \in Match, WindowClosed(m)
    PROVE  Inv'
    <1>1. /\ handler[m].pc = "window"
          /\ UNCHANGED <<created, pending, task, counted, reopened>>
        BY DEF WindowClosed
    <1>2. HandlerShape(handler[m], m) /\ DOMAIN handler = Match /\ m \in created
        BY <1>1 DEF Inv, Shape, HandlersOK, HandlerShape
    <1>3. CASE /\ handler' = [handler EXCEPT ![m] = Unlocked(@)]
               /\ UNCHANGED <<state, queue, row, processed, said>>
        <2>1. handler' = [handler EXCEPT ![m] = FreeLock]
            BY <1>3, FreeShape
        <2>2. HandlerShape(FreeLock, m) /\ FreeLock.by \notin Admin
            BY FreeShape, ActorsAssumption
        <2> QED BY <1>1, <1>2, <1>3, <2>1, <2>2, LockStepKeeps
    <1>4. CASE AbortUnconfirmed(m)
        <2>1. PICK codes \in {<<-4, -4>>, <<-4, None>>, <<None, -4>>} :
                  /\ said[m] = <<None, None>> /\ row[m].result = None
                  /\ row' = [row EXCEPT ![m].report = codes, ![m].result = -1]
                  /\ said' = [said EXCEPT ![m] = codes]
                  /\ processed' = processed \cup {m}
                  /\ handler' = [handler EXCEPT ![m].pc = "telling"]
            BY <1>4 DEF AbortUnconfirmed
        <2>2. codes \in Reports
            BY Codes DEF Reports
        <2>3. PICK r : /\ RowShape(r) /\ r.report = codes /\ r.result = -1
                       /\ row' = [row EXCEPT ![m] = r]
            <3>1. RowShape(row[m])
                BY DEF Inv, Shape, RowsOK
            <3> DEFINE q == [row[m] EXCEPT !.report = codes]
                       r == [q EXCEPT !.result = -1]
            <3>2. RowShape(q) /\ q.report = codes
                BY <2>2, <3>1, RowChanges DEF RowShape
            <3>3. RowShape(r) /\ r.report = codes /\ r.result = -1
                <4> HIDE DEF q
                <4>1. -1 \in Decision
                    BY DEF Decision
                <4> QED BY <3>2, <4>1, RowChanges DEF RowShape
            <3>4. row' = [row EXCEPT ![m] = r]
                BY <2>1
            <3> HIDE DEF r
            <3> QED BY <3>3, <3>4
        <2> DEFINE h == [handler[m] EXCEPT !.pc = "telling"]
        <2>4. HandlerShape(h, m) /\ h.by = handler[m].by /\ handler' = [handler EXCEPT ![m] = h]
            <3>1. "telling" \in Stage \ {"free", "window"}
                BY DEF Stage
            <3> QED BY <1>1, <1>2, <2>1, <3>1, NextStage
        <2> HIDE DEF h
        <2>5. RowsOK' /\ HandlersOK' /\ TasksOK'
            BY <1>1, <2>3, <2>4, RowIsSet, HandlerIsSet, SameTasks DEF Inv, Shape
        <2>6. MarksOK'
            BY <1>1, <1>2, <2>1, <2>2 DEF Inv, Shape, MarksOK
        <2>7. HoldersWait'
            BY <1>1, <2>4, HandlerChanges DEF Inv, Shape
        <2>8. ASSUME NEW k \in Match, k # m PROVE Gentle(k)
            <3>1. row'[k] = row[k] /\ said'[k] = said[k] /\ handler'[k] = handler[k]
                BY <2>1, <2>3, <2>4, <2>8 DEF Inv, Shape, RowsOK, HandlersOK, MarksOK
            <3>2. pending'[k] <= pending[k] /\ counted'[k] = counted[k]
                BY <1>1 DEF Inv, Shape, MarksOK
            <3>3. k \in processed => k \in processed'
                BY <2>1
            <3> QED BY <1>1, <3>1, <3>2, <3>3, SameTasksGentle DEF Gentle
        <2>9. ASSUME m \notin crossed' PROVE Calm(m)'
            <3>1. Calm(m) /\ OneWorker(m)
                BY <2>9 DEF Inv, Marked
            <3>2. \A a \in Admin : ~On(a, m)
                <4>1. ASSUME NEW a \in Admin, On(a, m) PROVE FALSE
                    <5>1. a \in WorkersOf(m)
                        BY <4>1, WorkersAre
                    <5>2. handler[m].by = m
                        BY <1>1, <1>2 DEF HandlerShape
                    <5> QED BY <3>1, <5>1, <5>2, WorkersAre DEF OneWorker
                <4> QED BY <4>1
            <3>3. \A a \in Admin : ~On(a, m)'
                BY <1>1, <3>2 DEF On
            <3>4. row'[m].report = said'[m]
                BY <2>1, <2>3 DEF Inv, Shape, RowsOK, MarksOK
            <3>5. m \notin reopened' => CountedOK(m)'
                BY <1>1, <2>1, <3>1 DEF Calm, CountedOK
            <3> QED BY <3>3, <3>4, <3>5 DEF Calm, Kept, NobodyWaits
        <2> QED BY <1>1, <2>5, <2>6, <2>7, <2>8, <2>9, StepKeeps DEF Shape
    <1> QED BY <1>3, <1>4 DEF WindowClosed

-----------------------------------------------------------------------------
(* The admins *)

\* An admin at work on a match nobody crossed is alone there.
LEMMA Alone ==
    ASSUME Inv, NEW m \in Match, m \notin crossed, NEW a \in Admin, On(a, m)
    PROVE  /\ \A b \in Admin : On(b, m) => b = a
           /\ pending[m] = 0 /\ handler[m].by # m
           /\ task[a].saved = said[m] /\ task[a].pc # "waiting"
           /\ m \notin reopened => CountedOK(m)
    <1>1. OneWorker(m) /\ Calm(m) /\ pending[m] \in Nat
        BY DEF Inv, Shape, MarksOK
    <1>2. a \in WorkersOf(m) /\ m \notin Admin
        BY WorkersAre
    <1>3. \A b \in Admin : On(b, m) => b = a
        BY <1>1, <1>2, WorkersAre DEF OneWorker
    <1>4. ~(pending[m] > 0 \/ handler[m].by = m)
        BY <1>1, <1>2, WorkersAre DEF OneWorker
    <1>5. pending[m] = 0 /\ handler[m].by # m
        BY <1>1, <1>4
    <1>6. task[a].saved = said[m] /\ task[a].pc # "waiting"
        BY <1>1 DEF Calm, Kept, NobodyWaits
    <1> QED BY <1>1, <1>3, <1>5, <1>6 DEF Calm

LEMMA NobodyThere ==
    ASSUME Inv, NEW m \in Match, m \notin crossed, Quiet(m)
    PROVE  /\ \A b \in Admin : ~On(b, m)
           /\ pending[m] = 0 /\ row[m].report = said[m]
           /\ m \notin reopened => CountedOK(m)
    <1>1. Calm(m) /\ pending[m] \in Nat
        BY DEF Inv, Shape, MarksOK
    <1>2. \A b \in Admin : ~On(b, m)
        BY WorkersAre DEF Quiet
    <1>3. ~(pending[m] > 0)
        BY WorkersAre DEF Quiet
    <1>4. pending[m] = 0
        BY <1>1, <1>3
    <1> QED BY <1>1, <1>2, <1>4 DEF Calm, Kept

\* A match whose lock is held has somebody at work on it.
LEMMA HeldIsBusy ==
    ASSUME Inv, NEW m \in Match, handler[m].pc # "free"
    PROVE  ~Quiet(m)
    <1>1. handler[m].by = m \/ handler[m].by \in Admin
        BY DEF Inv, Shape, HandlersOK, HandlerShape
    <1>2. CASE handler[m].by = m
        BY <1>2, WorkersAre DEF Quiet
    <1>3. CASE handler[m].by \in Admin
        <2>1. On(handler[m].by, m)
            BY <1>3 DEF Inv, HoldersWait, On, Busy
        <2> QED BY <1>3, <2>1, WorkersAre DEF Quiet
    <1> QED BY <1>1, <1>2, <1>3

\* One admin moves on at one match.
LEMMA AdminKeeps ==
    ASSUME Inv, NEW here, Marked(here), NEW a \in Admin, NEW m \in created,
           NEW t, TaskShape(t), task' = [task EXCEPT ![a] = t],
           task[a].pc \in Busy => task[a].match = m, t.pc \in Busy => t.match = m,
           RowsOK', HandlersOK', HoldersWait',
           \A k \in Match \ {m} : /\ row'[k] = row[k] /\ handler'[k] = handler[k]
                                  /\ counted'[k] = counted[k],
           counted' \in [Match -> Nat],
           UNCHANGED <<created, said, pending>>, reopened \subseteq reopened',
           processed' \in {processed, processed \cup {m}, processed \ {m}},
           m \notin crossed' =>
               /\ \A b \in Admin : On(b, m) => b = a
               /\ t.pc \in Busy => t.saved = said[m] /\ t.pc # "waiting"
               /\ t.pc \notin Busy => row'[m].report = said[m]
               /\ m \notin reopened' => CountedOK(m)'
    PROVE  Inv'
    <1>1. m \in Match /\ DOMAIN task = Admin
        BY DEF Inv, Shape, MarksOK, TasksOK
    <1>2. TasksOK'
        BY TaskIsSet DEF Inv, Shape
    <1>3. MarksOK'
        BY DEF Inv, Shape, MarksOK
    <1>4. ASSUME NEW k \in Match, k # m PROVE Gentle(k)
        <2>1. \A b \in Admin : (On(b, k)' <=> On(b, k)) /\ (On(b, k) => task'[b] = task[b])
            BY <1>1, <1>4 DEF On
        <2>2. pending'[k] <= pending[k] /\ said'[k] = said[k]
            BY DEF Inv, Shape, MarksOK
        <2>3. k \in processed => k \in processed'
            BY <1>4
        <2>4. row'[k] = row[k] /\ handler'[k] = handler[k] /\ counted'[k] = counted[k]
            BY <1>4
        <2> QED BY <2>1, <2>2, <2>3, <2>4 DEF Gentle
    <1>5. ASSUME m \notin crossed' PROVE Calm(m)'
        <2>1. \A b \in Admin : On(b, m)' => b = a
            BY <1>1, <1>5 DEF On
        <2>2. task'[a] = t
            BY <1>1
        <2>3. On(a, m)' <=> t.pc \in Busy
            BY <2>2 DEF On
        <2>4. Kept(m)'
            BY <1>5, <2>1, <2>2, <2>3 DEF Kept
        <2>5. NobodyWaits(m)'
            BY <1>5, <2>1, <2>2, <2>3 DEF NobodyWaits
        <2> QED BY <1>5, <2>4, <2>5 DEF Calm
    <1> QED BY <1>2, <1>3, <1>4, <1>5, StepKeeps DEF Shape

LEMMA ResolveFreshKeeps ==
    ASSUME Inv, NEW a \in Admin, NEW m \in Match, NEW d \in Decision, ResolveFresh(a, m, d),
           Marked(IF Quiet(m) THEN {} ELSE {m})
    PROVE  Inv'
    <1> DEFINE r == Decided(row[m], d)
               held == [Command(m, d) EXCEPT !.saved = row[m].report]
    <1>0. held = [pc |-> "idle", match |-> m, decision |-> d, saved |-> row[m].report]
        BY CommandIs
    <1>1. /\ task[a].pc = "idle" /\ m \in created
          /\ reopened' = IF row[m].result # None THEN reopened \cup {m} ELSE reopened
          /\ UNCHANGED <<created, closed, pending, said>>
        BY DEF ResolveFresh, AdminResolve, Found
    <1>2. RowShape(row[m]) /\ row[m].report \in Reports /\ DOMAIN row = Match
          /\ DOMAIN task = Admin /\ DOMAIN handler = Match /\ counted \in [Match -> Nat]
        BY DEF Inv, Shape, RowsOK, RowShape, TasksOK, HandlersOK, MarksOK
    <1>3. RowShape(r) /\ r.report = <<d, d>> /\ r.result = d
        BY <1>2, DecidedShape
    <1>4. task[a].pc \notin Busy
        BY <1>1, NotBusy
    <1>5. m \notin crossed' => m \notin crossed /\ Quiet(m)
        BY DEF Marked
    <1> HIDE DEF r, held
    <1>6. CASE Handles(m, a, r) /\ task' = [task EXCEPT ![a] = [held EXCEPT !.pc = "holding"]]
        <2> DEFINE t == [held EXCEPT !.pc = "holding"]
        <2>1. "holding" \in Busy /\ "holding" # "waiting"
            BY DEF Busy
        <2>2. TaskShape(t) /\ t.pc = "holding" /\ t.match = m /\ t.saved = row[m].report
            <3>1. t = [pc |-> "holding", match |-> m, decision |-> d, saved |-> row[m].report]
                BY <1>0, StageSet
            <3> QED BY <1>1, <1>2, <2>1, <3>1 DEF TaskShape
        <2> HIDE DEF t
        <2>3. /\ RowsOK' /\ HandlersOK'
              /\ \E h : handler' = [handler EXCEPT ![m] = h] /\ h.by = a
              /\ processed' \in {processed, processed \cup {m}} /\ m \notin processed
              /\ handler[m].pc = "free"
              /\ \A k \in Match \ {m} : row'[k] = row[k] /\ handler'[k] = handler[k]
              /\ row'[m].report = r.report
              /\ r.result # None => row'[m].result # None
              /\ \/ counted' = counted
                 \/ /\ counted' = [counted EXCEPT ![m] = @ + 1]
                    /\ row'[m].result # None
                    /\ handler'[m].pc = "rateSecond"
            BY <1>1, <1>3, <1>6, HandlesDoes
        <2>4. HoldersWait'
            <3>1. PICK h : handler' = [handler EXCEPT ![m] = h] /\ h.by = a
                BY <2>3
            <3>2. task' = [task EXCEPT ![a] = t]
                BY <1>6 DEF t
            <3>3. ASSUME NEW k \in Match, handler'[k].by \in Admin
                  PROVE  task'[handler'[k].by].pc = "holding" /\ task'[handler'[k].by].match = k
                <4>1. CASE k = m
                    BY <1>2, <2>2, <3>1, <3>2, <4>1
                <4>2. CASE k # m
                    <5>1. handler'[k] = handler[k]
                        BY <2>3, <4>2
                    <5>2. task[handler[k].by].pc = "holding" /\ task[handler[k].by].match = k
                        BY <3>3, <5>1 DEF Inv, HoldersWait
                    <5>3. handler[k].by # a
                        BY <1>1, <5>2
                    <5> QED BY <1>2, <3>2, <3>3, <5>1, <5>2, <5>3
                <4> QED BY <4>1, <4>2
            <3> QED BY <3>3 DEF HoldersWait
        <2>5. counted' \in [Match -> Nat] /\ \A k \in Match \ {m} : counted'[k] = counted[k]
            BY <1>2, <2>3
        <2>6. ASSUME m \notin crossed'
              PROVE  /\ \A b \in Admin : On(b, m) => b = a
                     /\ t.saved = said[m]
                     /\ m \notin reopened' => CountedOK(m)'
            <3>1. /\ \A b \in Admin : ~On(b, m)
                  /\ row[m].report = said[m]
                  /\ m \notin reopened => CountedOK(m)
                BY <1>5, <2>6, NobodyThere
            <3>2. ASSUME m \notin reopened' PROVE CountedOK(m)'
                <4>1. row[m].result = None /\ m \notin reopened
                    BY <1>1, <3>2
                <4>2. ~(counted[m] >= 1) /\ counted[m] \in Nat
                    BY <1>2, <3>1, <4>1 DEF CountedOK
                <4>3. CASE counted' = counted
                    BY <4>2, <4>3 DEF CountedOK
                <4>4. CASE /\ counted' = [counted EXCEPT ![m] = @ + 1]
                           /\ row'[m].result # None
                           /\ handler'[m].pc = "rateSecond"
                    <5>1. counted'[m] = 1
                        BY <1>2, <4>2, <4>4
                    <5> QED BY <4>4, <5>1 DEF CountedOK
                <4> QED BY <2>3, <4>3, <4>4
            <3> QED BY <2>2, <3>1, <3>2
        <2>7. task' = [task EXCEPT ![a] = t]
            BY <1>6 DEF t
        <2>8. reopened \subseteq reopened'
            BY <1>1
        <2>9. m \notin crossed' =>
                  /\ \A b \in Admin : On(b, m) => b = a
                  /\ t.pc \in Busy => t.saved = said[m] /\ t.pc # "waiting"
                  /\ t.pc \notin Busy => row'[m].report = said[m]
                  /\ m \notin reopened' => CountedOK(m)'
            BY <2>1, <2>2, <2>6
        <2>10. processed' \in {processed, processed \cup {m}, processed \ {m}}
            BY <2>3
        <2>11. /\ RowsOK' /\ HandlersOK'
               /\ \A k \in Match \ {m} : /\ row'[k] = row[k] /\ handler'[k] = handler[k]
                                         /\ counted'[k] = counted[k]
            BY <2>3, <2>5
        <2>12. task[a].pc \in Busy => task[a].match = m
            BY <1>4
        <2>13. UNCHANGED <<created, said, pending>>
            BY <1>1
        <2> QED BY <1>1, <2>2, <2>4, <2>5, <2>7, <2>8, <2>9, <2>10, <2>11, <2>12, <2>13,
                   AdminKeeps
    <1>7. CASE /\ handler[m].pc = "free" /\ m \in processed
               /\ row' = [row EXCEPT ![m].result = d]
               /\ UNCHANGED <<playerVars, processed, handler, task, counted>>
        <2>1. d # None
            BY Codes
        <2>2. RowsOK'
            BY <1>2, <1>7, RowIsSet, RowChanges DEF Inv, Shape
        <2>3. Shape'
            BY <1>1, <1>7, <2>2, SameHandlers, SameTasks DEF Inv, Shape, MarksOK
        <2>4. HoldersWait'
            BY <1>7 DEF Inv, HoldersWait
        <2>5. ASSUME NEW k \in Match PROVE Gentle(k)
            <3>1. row'[k].report = row[k].report
                BY <1>2, <1>7 DEF Inv, Shape, RowsOK, RowShape
            <3>2. row[k].result # None => row'[k].result # None
                BY <1>2, <1>7, <2>1 DEF Inv, Shape, RowsOK, RowShape
            <3>3. pending'[k] <= pending[k]
                BY <1>1 DEF Inv, Shape, MarksOK
            <3> QED BY <1>1, <1>7, <3>1, <3>2, <3>3, SameTasksGentle DEF Gentle
        <2>6. reopened \subseteq reopened'
            BY <1>1
        <2> QED BY <2>3, <2>4, <2>5, <2>6, StepKeeps
    <1>8. CASE /\ handler[m].pc # "free"
               /\ row' = [row EXCEPT ![m] = r]
               /\ task' = [task EXCEPT ![a] = [held EXCEPT !.pc = "waiting"]]
               /\ UNCHANGED <<playerVars, processed, handler, counted>>
        <2> DEFINE t == [held EXCEPT !.pc = "waiting"]
        <2>1. "waiting" \in Busy
            BY DEF Busy
        <2>2. TaskShape(t) /\ t.match = m
            <3>1. t = [pc |-> "waiting", match |-> m, decision |-> d, saved |-> row[m].report]
                BY <1>0, StageSet
            <3> QED BY <1>1, <1>2, <2>1, <3>1 DEF TaskShape
        <2>3. task' = [task EXCEPT ![a] = t]
            BY <1>8
        <2> HIDE DEF t
        <2>4. m \in crossed'
            BY <1>5, <1>8, HeldIsBusy
        <2>5. RowsOK' /\ HandlersOK'
            BY <1>1, <1>3, <1>8, RowIsSet, SameHandlers DEF Inv, Shape
        <2>6. HoldersWait'
            BY <1>1, <1>2, <1>8, <2>3, HoldersStay DEF Inv
        <2>7. reopened \subseteq reopened'
            BY <1>1
        <2> QED BY <1>1, <1>2, <1>4, <1>8, <2>2, <2>3, <2>4, <2>5, <2>6, <2>7, AdminKeeps
    <1> QED BY <1>6, <1>7, <1>8 DEF ResolveFresh, r, held

\* The reports come back to the row as the resolution saved them.
LEMMA ClosesDoes ==
    ASSUME Inv, NEW a \in Admin, task[a].pc \in Busy, Closes(a)
    PROVE  /\ RowsOK' /\ task' = [task EXCEPT ![a] = Idle]
           /\ \A k \in Match \ {task[a].match} : row'[k] = row[k]
           /\ row'[task[a].match].report = task[a].saved
           /\ row'[task[a].match].result = row[task[a].match].result
    <1> DEFINE m == task[a].match
               r == [row[m] EXCEPT !.report = task[a].saved]
    <1>1. m \in Match /\ task[a].saved \in Reports
        BY BusyTask DEF Inv
    <1> HIDE DEF m
    <1>2. RowShape(row[m]) /\ DOMAIN row = Match
        BY <1>1 DEF Inv, Shape, RowsOK
    <1>3. RowShape(r) /\ r.report = task[a].saved /\ r.result = row[m].result
        BY <1>1, <1>2, RowChanges DEF RowShape
    <1>4. row' = [row EXCEPT ![m] = r] /\ task' = [task EXCEPT ![a] = Idle]
        BY DEF Closes, OriginalReports, m
    <1> HIDE DEF r
    <1>5. RowsOK'
        BY <1>1, <1>3, <1>4, RowIsSet DEF Inv, Shape
    <1> QED BY <1>1, <1>2, <1>3, <1>4, <1>5 DEF m

LEMMA FreshCheckKeeps ==
    ASSUME Inv, NEW a \in Admin, FreshCheck(a), Marked({})
    PROVE  Inv'
    <1>0. PICK m : m = task[a].match
        OBVIOUS
    <1>1. /\ task[a].pc = "waiting" /\ handler[m].pc = "free"
          /\ UNCHANGED <<created, pending, said, reopened>>
        BY <1>0 DEF FreshCheck
    <1>2. task[a].pc \in Busy /\ "holding" \in Busy
        BY <1>1 DEF Busy
    <1>3. m \in created /\ m \in Match /\ TaskShape(task[a]) /\ On(a, m)
        BY <1>0, <1>2, BusyTask DEF Inv, Shape, TasksOK, On
    <1>4. RowShape(row[m]) /\ DOMAIN task = Admin /\ DOMAIN handler = Match
          /\ counted \in [Match -> Nat]
        BY <1>3 DEF Inv, Shape, RowsOK, TasksOK, HandlersOK, MarksOK
    <1>5. m \in crossed'
        BY <1>1, <1>3, Alone DEF Marked
    <1>6. CASE Handles(m, a, row[m]) /\ task' = [task EXCEPT ![a].pc = "holding"]
        <2> DEFINE t == [task[a] EXCEPT !.pc = "holding"]
        <2>1. TaskShape(t) /\ t.pc = "holding" /\ t.match = m
            BY <1>0, <1>2, <1>3, NextPc
        <2>2. task' = [task EXCEPT ![a] = t]
            BY <1>6
        <2>3. /\ RowsOK' /\ HandlersOK'
              /\ \E h : handler' = [handler EXCEPT ![m] = h] /\ h.by = a
              /\ processed' \in {processed, processed \cup {m}}
              /\ \A k \in Match \ {m} : row'[k] = row[k] /\ handler'[k] = handler[k]
              /\ counted' = counted \/ counted' = [counted EXCEPT ![m] = @ + 1]
            BY <1>1, <1>3, <1>4, <1>6, HandlesDoes
        <2> HIDE DEF t
        <2>4. HoldersWait'
            <3>1. PICK h : handler' = [handler EXCEPT ![m] = h] /\ h.by = a
                BY <2>3
            <3>2. ASSUME NEW k \in Match, handler'[k].by \in Admin
                  PROVE  task'[handler'[k].by].pc = "holding" /\ task'[handler'[k].by].match = k
                <4>1. CASE k = m
                    BY <1>3, <1>4, <2>1, <2>2, <3>1, <4>1
                <4>2. CASE k # m
                    <5>1. handler'[k] = handler[k]
                        BY <2>3, <4>2
                    <5>2. task[handler[k].by].pc = "holding" /\ task[handler[k].by].match = k
                        BY <3>2, <5>1 DEF Inv, HoldersWait
                    <5>3. handler[k].by # a
                        BY <1>1, <5>2
                    <5> QED BY <1>4, <2>2, <3>2, <5>1, <5>2, <5>3
                <4> QED BY <4>1, <4>2
            <3> QED BY <3>2 DEF HoldersWait
        <2>5. /\ counted' \in [Match -> Nat]
              /\ \A k \in Match \ {m} : /\ row'[k] = row[k] /\ handler'[k] = handler[k]
                                        /\ counted'[k] = counted[k]
            BY <1>4, <2>3
        <2>6. processed' \in {processed, processed \cup {m}, processed \ {m}}
            BY <2>3
        <2>7. task[a].match = m
            BY <1>0
        <2> QED BY <1>1, <1>3, <1>5, <2>1, <2>2, <2>3, <2>4, <2>5, <2>6, <2>7, AdminKeeps
    <1>7. CASE Closes(a) /\ UNCHANGED <<playerVars, processed, handler, counted>>
        <2>1. /\ RowsOK' /\ task' = [task EXCEPT ![a] = Idle]
              /\ \A k \in Match \ {m} : row'[k] = row[k]
            BY <1>0, <1>2, <1>7, ClosesDoes
        <2>2. HandlersOK' /\ TaskShape(Idle) /\ Idle.pc \notin Busy
            BY <1>1, <1>7, SameHandlers, IdleShape, NotBusy DEF Inv, Shape
        <2>3. HoldersWait'
            BY <1>1, <1>4, <1>7, <2>1, HoldersStay DEF Inv
        <2>4. task[a].match = m
            BY <1>0
        <2> QED BY <1>1, <1>3, <1>4, <1>5, <1>7, <2>1, <2>2, <2>3, <2>4, AdminKeeps
    <1> QED BY <1>0, <1>6, <1>7 DEF FreshCheck

LEMMA FreshEndsKeeps ==
    ASSUME Inv, NEW a \in Admin, FreshEnds(a), Marked({})
    PROVE  Inv'
    <1>0. PICK m : m = task[a].match
        OBVIOUS
    <1>1. /\ task[a].pc = "holding" /\ handler[m].pc \in {"telling", "conflict"}
          /\ handler[m].by = a
          /\ handler' = [handler EXCEPT ![m] = FreeLock]
          /\ processed' \in {processed, processed \cup {m}}
          /\ Closes(a)
          /\ UNCHANGED <<created, pending, said, counted, reopened>>
        <2>1. /\ task[a].pc = "holding" /\ Ended(m) /\ handler[m].by = a /\ MarkIfConflict(m)
              /\ handler' = [handler EXCEPT ![m] = Unlocked(@)]
              /\ Closes(a)
              /\ UNCHANGED <<created, pending, said, counted, reopened>>
            BY <1>0 DEF FreshEnds
        <2>2. handler[m].pc \in {"telling", "conflict"}
            BY <2>1 DEF Ended
        <2>3. handler' = [handler EXCEPT ![m] = FreeLock]
            BY <2>1 DEF Unlocked
        <2>4. processed' \in {processed, processed \cup {m}}
            BY <2>1 DEF MarkIfConflict
        <2> QED BY <2>1, <2>2, <2>3, <2>4
    <1>2. task[a].pc \in Busy
        BY <1>1 DEF Busy
    <1>3. m \in created /\ m \in Match /\ On(a, m) /\ task[a].match = m
        BY <1>0, <1>2, BusyTask DEF Inv, On
    <1>4. DOMAIN task = Admin /\ DOMAIN handler = Match /\ counted \in [Match -> Nat]
        BY DEF Inv, Shape, TasksOK, HandlersOK, MarksOK
    <1>5. /\ RowsOK' /\ task' = [task EXCEPT ![a] = Idle]
          /\ \A k \in Match \ {m} : row'[k] = row[k]
          /\ row'[m].report = task[a].saved /\ row'[m].result = row[m].result
        BY <1>0, <1>1, <1>2, ClosesDoes
    <1>6. TaskShape(Idle) /\ Idle.pc \notin Busy
        BY IdleShape, NotBusy
    <1>7. HandlersOK'
        BY <1>1, <1>3, FreeShape, HandlerIsSet DEF Inv, Shape
    <1>8. HoldersWait'
        <2>1. ASSUME NEW k \in Match, handler'[k].by \in Admin
              PROVE  task'[handler'[k].by].pc = "holding" /\ task'[handler'[k].by].match = k
            <3>1. k # m
                BY <1>1, <1>3, <1>4, <2>1, FreeShape, ActorsAssumption
            <3>2. handler'[k] = handler[k]
                BY <1>1, <1>4, <3>1
            <3>3. task[handler[k].by].pc = "holding" /\ task[handler[k].by].match = k
                BY <2>1, <3>2 DEF Inv, HoldersWait
            <3>4. handler[k].by # a
                BY <1>3, <3>1, <3>3
            <3> QED BY <1>4, <1>5, <2>1, <3>2, <3>3, <3>4
        <2> QED BY <2>1 DEF HoldersWait
    <1>9. \A k \in Match \ {m} : /\ row'[k] = row[k] /\ handler'[k] = handler[k]
                                 /\ counted'[k] = counted[k]
        BY <1>1, <1>4, <1>5
    <1>10. ASSUME m \notin crossed'
           PROVE  /\ \A b \in Admin : On(b, m) => b = a
                  /\ row'[m].report = said[m]
                  /\ m \notin reopened' => CountedOK(m)'
        <2>1. m \notin crossed
            BY <1>10 DEF Marked
        <2>2. /\ \A b \in Admin : On(b, m) => b = a
              /\ task[a].saved = said[m]
              /\ m \notin reopened => CountedOK(m)
            BY <1>3, <2>1, Alone
        <2>3. handler[m].pc \notin {"rateSecond", "record"}
            BY <1>1
        <2>4. m \notin reopened' => CountedOK(m)'
            <3>1. m \in processed => m \in processed'
                BY <1>1
            <3>2. counted'[m] = counted[m] /\ pending'[m] = pending[m] /\ reopened' = reopened
                BY <1>1
            <3>3. row'[m].result = row[m].result
                BY <1>5
            <3>4. ASSUME m \notin reopened, counted[m] >= 1
                  PROVE  /\ counted[m] = 1 /\ row[m].result # None
                         /\ m \in processed \/ pending[m] = 0
                BY <2>2, <2>3, <3>4 DEF CountedOK
            <3> QED BY <3>1, <3>2, <3>3, <3>4 DEF CountedOK
        <2> QED BY <1>5, <2>2, <2>4
    <1>11. m \notin crossed' =>
               /\ \A b \in Admin : On(b, m) => b = a
               /\ Idle.pc \in Busy => Idle.saved = said[m] /\ Idle.pc # "waiting"
               /\ Idle.pc \notin Busy => row'[m].report = said[m]
               /\ m \notin reopened' => CountedOK(m)'
        BY <1>6, <1>10
    <1>12. processed' \in {processed, processed \cup {m}, processed \ {m}}
        BY <1>1
    <1>13. counted' \in [Match -> Nat] /\ UNCHANGED <<created, said, pending>>
           /\ reopened \subseteq reopened'
        BY <1>1, <1>4
    <1>14. /\ task[a].pc \in Busy => task[a].match = m
           /\ Idle.pc \in Busy => Idle.match = m
        BY <1>3, <1>6
    <1>15. TaskShape(Idle) /\ task' = [task EXCEPT ![a] = Idle] /\ RowsOK'
        BY <1>5, <1>6
    <1> QED BY <1>3, <1>7, <1>8, <1>9, <1>11, <1>12, <1>13, <1>14, <1>15, AdminKeeps

\* The rating of the second player moves no part of the row.
LEMMA RatingStepKeeps ==
    ASSUME Inv, NEW a \in Admin, RestoreSecond(a) \/ ApplySecond(a), Marked({})
    PROVE  Inv'
    <1>1. PICK p \in {"restored", "applied"} : task' = [task EXCEPT ![a].pc = p]
        BY DEF RestoreSecond, ApplySecond
    <1>2. /\ task[a].pc \in Busy /\ task[a].pc # "holding" /\ p \in Busy /\ p # "waiting"
          /\ UNCHANGED <<rowVars, pending, handler, ghostVars>>
        BY DEF RestoreSecond, ApplySecond, Busy
    <1> DEFINE t == [task[a] EXCEPT !.pc = p]
    <1>3. TaskShape(t) /\ t.pc = p /\ t.match = task[a].match /\ t.saved = task[a].saved
        BY <1>2, NextPc DEF Inv, Shape, TasksOK
    <1>4. task' = [task EXCEPT ![a] = t] /\ DOMAIN task = Admin
        BY <1>1 DEF Inv, Shape, TasksOK
    <1> HIDE DEF t
    <1>5. Shape'
        BY <1>2, <1>3, <1>4, TaskIsSet, SameRows, SameHandlers
           DEF Inv, Shape, MarksOK, rowVars, ghostVars
    <1>6. HoldersWait'
        BY <1>2, <1>4, HoldersStay DEF Inv
    <1>7. ASSUME NEW k \in Match PROVE Gentle(k)
        <2>1. \A b \in Admin : /\ On(b, k)' <=> On(b, k)
                               /\ On(b, k) => task'[b].saved = task[b].saved
                               /\ On(b, k) /\ task'[b].pc = "waiting" => task[b].pc = "waiting"
            BY <1>2, <1>3, <1>4 DEF On
        <2>2. pending[k] \in Nat
            BY DEF Inv, Shape, MarksOK
        <2> QED BY <1>2, <2>1, <2>2 DEF Gentle, rowVars, ghostVars
    <1>8. UNCHANGED reopened
        BY <1>2 DEF ghostVars
    <1> QED BY <1>5, <1>6, <1>7, <1>8, StepKeeps

\* The decision of an admin who has the match to themselves.
LEMMA DecisionKeeps ==
    ASSUME Inv, NEW here, Marked(here), NEW a \in Admin, NEW m \in created,
           NEW d \in Decision, NEW s \in Reports,
           task[a].pc # "holding", task[a].pc \in Busy => task[a].match = m,
           m \notin crossed' =>
               /\ s = said[m] /\ pending[m] = 0
               /\ \A b \in Admin : On(b, m) => b = a
               /\ m \notin reopened => CountedOK(m),
           ApplyDecision(a, m, d, s),
           UNCHANGED <<created, pending, handler, said, counted, reopened>>
    PROVE  Inv'
    <1>1. m \in Match /\ RowShape(row[m]) /\ DOMAIN row = Match /\ DOMAIN task = Admin
          /\ counted \in [Match -> Nat] /\ d # None
        BY Codes DEF Inv, Shape, MarksOK, RowsOK, TasksOK
    <1> DEFINE q == [Decided(row[m], d) EXCEPT !.change = 0]
    <1>2. RowShape(q) /\ q.result = d
        <2>1. RowShape(Decided(row[m], d)) /\ Decided(row[m], d).result = d
            BY <1>1, DecidedShape
        <2>2. ASSUME NEW w, RowShape(w), w.result = d
              PROVE  RowShape([w EXCEPT !.change = 0]) /\ [w EXCEPT !.change = 0].result = d
            BY <2>2 DEF RowShape
        <2> QED BY <2>1, <2>2
    <1> HIDE DEF q
    <1>3. PICK r, t :
              /\ RowShape(r) /\ r.result = d /\ row' = [row EXCEPT ![m] = r]
              /\ TaskShape(t) /\ task' = [task EXCEPT ![a] = t]
              /\ \/ t.pc \notin Busy /\ r.report = s
                 \/ t.pc = "applySecond" /\ t.match = m /\ t.saved = s
        <2>1. CASE d = -1
            <3> DEFINE r == [q EXCEPT !.report = s]
            <3>1. RowShape(r) /\ r.report = s /\ r.result = d
                BY <1>2, RowChanges DEF RowShape
            <3>2. row' = [row EXCEPT ![m] = r] /\ task' = [task EXCEPT ![a] = Idle]
                BY <2>1 DEF ApplyDecision, q
            <3> HIDE DEF r
            <3> QED BY <3>1, <3>2, IdleShape, NotBusy
        <2>2. CASE d # -1
            <3> DEFINE t == [Command(m, d) EXCEPT !.pc = "applySecond", !.saved = s]
            <3>1. TaskShape(t) /\ t.pc = "applySecond" /\ t.match = m /\ t.saved = s
                <4>1. [Command(m, d) EXCEPT !.pc = "applySecond"] =
                          [pc |-> "applySecond", match |-> m, decision |-> d,
                           saved |-> <<None, None>>]
                    BY CommandIs, StageSet
                <4>2. ASSUME NEW w, w = [pc |-> "applySecond", match |-> m, decision |-> d,
                                         saved |-> <<None, None>>]
                      PROVE  [w EXCEPT !.saved = s] =
                                 [pc |-> "applySecond", match |-> m, decision |-> d, saved |-> s]
                    BY <4>2
                <4>3. t = [pc |-> "applySecond", match |-> m, decision |-> d, saved |-> s]
                    BY <4>1, <4>2
                <4> QED BY <4>3 DEF TaskShape, Busy
            <3>2. row' = [row EXCEPT ![m] = q] /\ task' = [task EXCEPT ![a] = t]
                BY <2>2 DEF ApplyDecision, q
            <3> HIDE DEF t
            <3> QED BY <1>2, <3>1, <3>2
        <2> QED BY <2>1, <2>2
    <1>4. processed' = processed \ {m}
        BY DEF ApplyDecision
    <1>5. RowsOK' /\ HandlersOK'
        BY <1>1, <1>3, RowIsSet, SameHandlers DEF Inv, Shape
    <1>6. HoldersWait'
        BY <1>1, <1>3, HoldersStay DEF Inv
    <1>7. "applySecond" \in Busy /\ "applySecond" # "waiting"
        BY DEF Busy
    <1>8. row'[m] = r /\ \A k \in Match \ {m} : row'[k] = row[k]
        BY <1>1, <1>3
    <1>9. m \notin crossed' =>
              /\ \A b \in Admin : On(b, m) => b = a
              /\ t.pc \in Busy => t.saved = said[m] /\ t.pc # "waiting"
              /\ t.pc \notin Busy => row'[m].report = said[m]
              /\ m \notin reopened' => CountedOK(m)'
        <2>1. ASSUME m \notin crossed', m \notin reopened' PROVE CountedOK(m)'
            BY <1>1, <1>3, <1>8, <2>1 DEF CountedOK
        <2> QED BY <1>3, <1>7, <1>8, <2>1
    <1>10. /\ \A k \in Match \ {m} : /\ row'[k] = row[k] /\ handler'[k] = handler[k]
                                     /\ counted'[k] = counted[k]
           /\ counted' \in [Match -> Nat]
        BY <1>1, <1>8
    <1>11. t.pc \in Busy => t.match = m
        BY <1>3
    <1>12. processed' \in {processed, processed \cup {m}, processed \ {m}}
        BY <1>4
    <1> QED BY <1>3, <1>5, <1>6, <1>9, <1>10, <1>11, <1>12, AdminKeeps

LEMMA ResolveTerminalKeeps ==
    ASSUME Inv, NEW a \in Admin, NEW m \in Match, NEW d \in Decision, ResolveTerminal(a, m, d),
           Marked(IF Quiet(m) THEN {} ELSE {m})
    PROVE  Inv'
    <1>1. /\ task[a].pc = "idle" /\ m \in created
          /\ UNCHANGED <<created, pending, handler, said, counted, reopened>>
        BY DEF ResolveTerminal, AdminResolve, Found
    <1>2. task[a].pc \notin Busy /\ task[a].pc # "holding"
        BY <1>1, NotBusy
    <1>3. row[m].report \in Reports /\ counted \in [Match -> Nat]
        BY DEF Inv, Shape, RowsOK, RowShape, MarksOK
    <1>4. ASSUME m \notin crossed'
          PROVE  /\ row[m].report = said[m] /\ pending[m] = 0
                 /\ \A b \in Admin : On(b, m) => b = a
                 /\ m \notin reopened => CountedOK(m)
        <2>1. m \notin crossed /\ Quiet(m)
            BY <1>4 DEF Marked
        <2> QED BY <2>1, NobodyThere
    <1>5. CASE ApplyDecision(a, m, d, row[m].report)
        BY <1>1, <1>2, <1>3, <1>4, <1>5, DecisionKeeps
    <1>6. CASE /\ task' = [task EXCEPT ![a] = [Command(m, d) EXCEPT
                              !.pc = "restoreSecond", !.saved = row[m].report]]
               /\ UNCHANGED <<row, processed>>
        <2>1. PICK t : /\ task' = [task EXCEPT ![a] = t]
                       /\ t = [pc |-> "restoreSecond", match |-> m, decision |-> d,
                               saved |-> row[m].report]
            <3> DEFINE t == [Command(m, d) EXCEPT !.pc = "restoreSecond", !.saved = row[m].report]
            <3>1. [Command(m, d) EXCEPT !.pc = "restoreSecond"] =
                      [pc |-> "restoreSecond", match |-> m, decision |-> d, saved |-> <<None, None>>]
                BY CommandIs, StageSet
            <3>2. ASSUME NEW w, w = [pc |-> "restoreSecond", match |-> m, decision |-> d,
                                     saved |-> <<None, None>>]
                  PROVE  [w EXCEPT !.saved = row[m].report] =
                             [pc |-> "restoreSecond", match |-> m, decision |-> d,
                              saved |-> row[m].report]
                BY <3>2
            <3>3. t = [pc |-> "restoreSecond", match |-> m, decision |-> d,
                       saved |-> row[m].report]
                BY <3>1, <3>2
            <3>4. task' = [task EXCEPT ![a] = t]
                BY <1>6
            <3> HIDE DEF t
            <3> QED BY <3>3, <3>4
        <2>2. /\ TaskShape(t) /\ t.pc # "waiting" /\ t.pc \in Busy
              /\ t.match = m /\ t.saved = row[m].report
            BY <1>1, <1>3, <2>1 DEF TaskShape, Busy
        <2>3. RowsOK' /\ HandlersOK'
            BY <1>1, <1>6, SameRows, SameHandlers DEF Inv, Shape
        <2>4. HoldersWait'
            BY <1>1, <1>2, <2>1, HoldersStay DEF Inv, Shape, TasksOK
        <2>5. m \notin reopened => (CountedOK(m) => CountedOK(m)')
            BY <1>1, <1>6 DEF CountedOK
        <2>6. m \notin crossed' =>
                  /\ \A b \in Admin : On(b, m) => b = a
                  /\ t.pc \in Busy => t.saved = said[m] /\ t.pc # "waiting"
                  /\ t.pc \notin Busy => row'[m].report = said[m]
                  /\ m \notin reopened' => CountedOK(m)'
            BY <1>1, <1>4, <2>2, <2>5
        <2> QED BY <1>1, <1>2, <1>3, <1>6, <2>1, <2>2, <2>3, <2>4, <2>6, AdminKeeps
    <1> QED BY <1>5, <1>6 DEF ResolveTerminal

LEMMA ApplyFirstKeeps ==
    ASSUME Inv, NEW a \in Admin, ApplyFirst(a), Marked({})
    PROVE  Inv'
    <1>1. PICK m, d, s : m = task[a].match /\ d = task[a].decision /\ s = task[a].saved
        OBVIOUS
    <1>2. /\ task[a].pc = "restored" /\ ApplyDecision(a, m, d, s)
          /\ UNCHANGED <<created, pending, handler, said, counted, reopened>>
        BY <1>1 DEF ApplyFirst
    <1>3. task[a].pc \in Busy /\ task[a].pc # "holding"
        BY <1>2 DEF Busy
    <1>4. m \in created /\ m \in Match /\ d \in Decision /\ s \in Reports /\ On(a, m)
        BY <1>1, <1>3, BusyTask DEF Inv, On
    <1>5. ASSUME m \notin crossed'
          PROVE  /\ s = said[m] /\ pending[m] = 0
                 /\ \A b \in Admin : On(b, m) => b = a
                 /\ m \notin reopened => CountedOK(m)
        <2>1. m \notin crossed
            BY <1>5 DEF Marked
        <2> QED BY <1>1, <1>4, <2>1, Alone
    <1> QED BY <1>1, <1>2, <1>3, <1>4, <1>5, DecisionKeeps

LEMMA TerminalEndsKeeps ==
    ASSUME Inv, NEW a \in Admin, TerminalEnds(a), Marked({})
    PROVE  Inv'
    <1>1. PICK m, r, x : /\ m = task[a].match /\ x = NewChange(task[a].match, task[a].decision)
                         /\ r = FinalRow(a, row[m])
        OBVIOUS
    <1>2. /\ task[a].pc = "applied"
          /\ row' = [row EXCEPT ![m] = r] /\ task' = [task EXCEPT ![a] = Idle]
          /\ UNCHANGED <<created, processed, pending, handler, said, counted, reopened>>
        BY <1>1 DEF TerminalEnds
    <1>3. task[a].pc \in Busy /\ task[a].pc # "holding"
        BY <1>2 DEF Busy
    <1>4. /\ m \in created /\ m \in Match /\ task[a].decision \in Decision
          /\ task[a].saved \in Reports /\ On(a, m) /\ task[a].match = m
        BY <1>1, <1>3, BusyTask DEF Inv, On
    <1>5. RowShape(row[m]) /\ DOMAIN row = Match /\ DOMAIN task = Admin
          /\ counted \in [Match -> Nat]
        BY <1>4 DEF Inv, Shape, RowsOK, TasksOK, MarksOK
    <1>6. RowShape(r) /\ r.report = task[a].saved /\ r.result = task[a].decision
        <2> DEFINE q == [row[m] EXCEPT !.result = task[a].decision]
                   p == [q EXCEPT !.report = task[a].saved]
                   o == [p EXCEPT !.change = x]
        <2>1. r = o
            BY <1>1 DEF FinalRow, OriginalReports
        <2>2. RowShape(q) /\ q.result = task[a].decision
            BY <1>4, <1>5, RowChanges DEF RowShape
        <2> HIDE DEF q
        <2>3. RowShape(p) /\ p.result = task[a].decision /\ p.report = task[a].saved
            BY <1>4, <2>2, RowChanges DEF RowShape
        <2> HIDE DEF p
        <2>4. RowShape(o) /\ o.result = task[a].decision /\ o.report = task[a].saved
            BY <2>3, RowChanges DEF RowShape
        <2> QED BY <2>1, <2>4
    <1>7. RowsOK' /\ HandlersOK'
        BY <1>2, <1>4, <1>6, RowIsSet, SameHandlers DEF Inv, Shape
    <1>8. HoldersWait'
        BY <1>2, <1>3, <1>5, HoldersStay DEF Inv
    <1>9. TaskShape(Idle) /\ Idle.pc \notin Busy
        BY IdleShape, NotBusy
    <1>10. row'[m] = r /\ \A k \in Match \ {m} : row'[k] = row[k]
        BY <1>2, <1>4, <1>5
    <1>11. ASSUME m \notin crossed'
           PROVE  /\ \A b \in Admin : On(b, m) => b = a
                  /\ row'[m].report = said[m]
                  /\ m \notin reopened' => CountedOK(m)'
        <2>1. m \notin crossed
            BY <1>11 DEF Marked
        <2>2. /\ \A b \in Admin : On(b, m) => b = a
              /\ task[a].saved = said[m]
              /\ m \notin reopened => CountedOK(m)
            BY <1>4, <2>1, Alone
        <2>3. task[a].decision # None
            BY <1>4, Codes
        <2>4. m \notin reopened' => CountedOK(m)'
            BY <1>2, <1>6, <1>10, <2>2, <2>3 DEF CountedOK
        <2> QED BY <1>6, <1>10, <2>2, <2>4
    <1>12. m \notin crossed' =>
               /\ \A b \in Admin : On(b, m) => b = a
               /\ Idle.pc \in Busy => Idle.saved = said[m] /\ Idle.pc # "waiting"
               /\ Idle.pc \notin Busy => row'[m].report = said[m]
               /\ m \notin reopened' => CountedOK(m)'
        BY <1>9, <1>11
    <1>13. /\ \A k \in Match \ {m} : /\ row'[k] = row[k] /\ handler'[k] = handler[k]
                                     /\ counted'[k] = counted[k]
           /\ counted' \in [Match -> Nat]
           /\ processed' \in {processed, processed \cup {m}, processed \ {m}}
           /\ reopened \subseteq reopened'
        BY <1>2, <1>5, <1>10
    <1> QED BY <1>2, <1>4, <1>7, <1>8, <1>9, <1>12, <1>13, AdminKeeps

-----------------------------------------------------------------------------
(* Theorems *)

LEMMA InitEstablishes ==
    ASSUME Init
    PROVE  Inv
    <1>1. <<None, None>> \in Reports
        BY Codes DEF Reports
    <1>2. RowsOK
        BY <1>1 DEF Init, RowsOK, RowShape
    <1>3. HandlersOK
        BY FreeShape DEF Init, HandlersOK
    <1>4. TasksOK
        BY IdleShape DEF Init, TasksOK
    <1>5. MarksOK
        BY <1>1 DEF Init, MarksOK
    <1>6. HoldersWait
        BY FreeShape, ActorsAssumption DEF Init, HoldersWait
    <1>7. \A m \in Match : \A a \in Admin : ~On(a, m)
        BY IdleShape, NotBusy DEF Init, On
    <1>8. ASSUME NEW m \in Match PROVE OneWorker(m) /\ Calm(m)
        <2>1. WorkersOf(m) = {}
            <3>1. handler[m].by # m /\ ~(pending[m] > 0)
                BY FreeShape, ActorsAssumption DEF Init
            <3> QED BY <1>7, <3>1 DEF WorkersOf, On
        <2>2. Kept(m) /\ NobodyWaits(m)
            BY <1>7 DEF Init, Kept, NobodyWaits
        <2>3. CountedOK(m)
            BY DEF Init, CountedOK
        <2> QED BY <2>1, <2>2, <2>3 DEF OneWorker, Calm
    <1> QED BY <1>2, <1>3, <1>4, <1>5, <1>6, <1>8 DEF Inv, Shape

LEMMA NextKeeps ==
    ASSUME Inv, [Next]_vars
    PROVE  Inv'
    <1>1. CASE UNCHANGED vars
        <2>1. Shape'
            BY <1>1, SameRows, SameHandlers, SameTasks
               DEF Inv, Shape, MarksOK, vars, rowVars, ghostVars
        <2>2. HoldersWait'
            BY <1>1 DEF Inv, HoldersWait, vars
        <2>3. ASSUME NEW m \in Match, m \notin crossed' PROVE OneWorker(m)' /\ Calm(m)'
            <3>1. OneWorker(m) /\ Calm(m)
                BY <1>1, <2>3 DEF Inv, vars
            <3>2. OneWorker(m)'
                BY <1>1, <3>1 DEF OneWorker, WorkersOf, vars
            <3>3. Calm(m)'
                BY <1>1, <3>1 DEF Calm, Kept, NobodyWaits, CountedOK, On, vars, rowVars, ghostVars
            <3> QED BY <3>2, <3>3
        <2> QED BY <2>1, <2>2, <2>3 DEF Inv
    <1>2. CASE PlayerStep
        <2>1. Marked({})
            BY <1>2, CrossingMarks DEF PlayerStep
        <2>2. ASSUME NEW p \in Player, JoinQueue(p) PROVE Inv'
            BY <2>1, <2>2, QueueOrRatingKeeps DEF JoinQueue, rowVars, ghostVars
        <2>3. ASSUME NEW m \in Match,
                     \/ CreateMatch(m) \/ CloseWindow(m)
                     \/ \E i \in {1, 2} : AbortMatch(m, i) \/ \E v \in Outcome : RecordReport(m, i, v)
              PROVE  Inv'
            BY <2>1, <2>3, CreateKeeps, LockStepsKeep, AbortKeeps, RecordKeeps
        <2> QED BY <1>2, <2>2, <2>3 DEF PlayerStep
    <1>3. ASSUME NEW m \in Match, MatchStep(m) PROVE Inv'
        <2>1. Marked({})
            BY <1>3, CrossingMarks DEF MatchStep
        <2> QED BY <1>3, <2>1, ReportCheckKeeps, LockStepsKeep, WindowKeeps DEF MatchStep
    <1>4. ASSUME NEW a \in Admin, AdminStep(a) PROVE Inv'
        <2>1. ASSUME NEW m \in Match, NEW d \in Decision, ResolveMatchConflict(a, m, d) PROVE Inv'
            <3>1. Marked(IF Quiet(m) THEN {} ELSE {m})
                BY <2>1, CrossingMarks DEF ResolveMatchConflict
            <3> QED BY <2>1, <3>1, ResolveFreshKeeps, ResolveTerminalKeeps DEF ResolveMatchConflict
        <2>2. ASSUME NEW p \in Player, NEW c \in Adjustment, AdjustPlayerMMR(a, p, c),
                     Crossing(AtWorkOn(p))
              PROVE  Inv'
            <3>1. Marked({})
                BY <2>2, CrossingMarks DEF Marked
            <3> QED BY <2>2, <3>1, QueueOrRatingKeeps DEF AdjustPlayerMMR, rowVars
        <2> QED BY <1>4, <2>1, <2>2 DEF AdminStep
    <1>5. ASSUME NEW a \in Admin, ResolveStep(a) PROVE Inv'
        <2>1. Marked({})
            BY <1>5, CrossingMarks DEF ResolveStep
        <2> QED BY <1>5, <2>1, FreshCheckKeeps, FreshEndsKeeps, RatingStepKeeps,
                   ApplyFirstKeeps, TerminalEndsKeeps DEF ResolveStep
    <1> QED BY <1>1, <1>2, <1>3, <1>4, <1>5 DEF Next

\* The invariant holds in every reachable state.
THEOREM Invariant == Spec => []Inv
    <1>1. Init => Inv
        BY InitEstablishes
    <1>2. Inv /\ [Next]_vars => Inv'
        BY NextKeeps
    <1> QED BY <1>1, <1>2, PTL DEF Spec

\* However many admins resolve however many matches, in any order and beside
\* any reports, a match that only one task worked on at a time keeps the
\* players' own reports: the simulated ones that resolve_match_conflict writes *
\* never outlive the resolution.
THEOREM ReportsComeBack == Spec => []ReportsSurvive
    <1>1. Inv => ReportsSurvive
        BY InvImplies
    <1> QED BY <1>1, Invariant, PTL

\* A match is counted as a game at most once, whatever resolutions follow the
\* players' reports: a terminal resolution, which takes the match out of
\* processed_matches, meets no check that is still to run.
THEOREM OneGameCounted == Spec => []CountedOnce
    <1>1. Inv => CountedOnce
        BY InvImplies
    <1> QED BY <1>1, Invariant, PTL

-----------------------------------------------------------------------------
(* Ratings are whole numbers when the rule that exchanges points gives such *)

PointsAreWhole == \A x, y \in Int, o \in Outcome : Points(x, y, o) \in Int

PlayersOK ==
    /\ mmr \in [Player -> Int] /\ games \in [Player -> Nat]
    /\ state \in [Player -> {"idle", "queueing", "in_match"}] /\ queue \subseteq Player
RowNumbers(r) == r.initial \in Int \X Int /\ r.change \in Int
HandlerNumbers(h) == h.second \in Int /\ h.played \in Nat /\ h.change \in Int
RatedRows == \A m \in Match : RowNumbers(row[m])
RatedHandlers == \A m \in Match : HandlerNumbers(handler[m])
Numbers == PlayersOK /\ RatedRows /\ RatedHandlers

LEMMA TheSides ==
    ASSUME NEW m \in Match
    PROVE  Sides[m][1] \in Player /\ Sides[m][2] \in Player /\ PlayersOf(m) \subseteq Player
    BY AdminAssumption DEF PlayersOf

LEMMA Releases ==
    ASSUME NEW m, ReleasePlayers(m), PlayersOK
    PROVE  /\ queue' \subseteq Player
           /\ state' \in [Player -> {"idle", "queueing", "in_match"}]
    <1>1. /\ state' = [p \in Player |-> IF p \in PlayersOf(m) THEN "idle" ELSE state[p]]
          /\ queue' = queue \ PlayersOf(m)
        BY DEF ReleasePlayers
    <1> QED BY <1>1 DEF PlayersOK

LEMMA RowNumbersStay ==
    ASSUME NEW r, RowShape(r), RowNumbers(r)
    PROVE  /\ \A x : RowNumbers([r EXCEPT !.report = x]) /\ RowNumbers([r EXCEPT !.result = x])
           /\ \A x \in Int \X Int : RowNumbers([r EXCEPT !.initial = x])
           /\ \A x \in Int : RowNumbers([r EXCEPT !.change = x])
    BY DEF RowShape, RowNumbers

LEMMA RowRated ==
    ASSUME RatedRows, RowsOK, NEW m \in Match, NEW r, RowNumbers(r), row' = [row EXCEPT ![m] = r]
    PROVE  RatedRows'
    <1>1. \A k \in Match : row'[k] = IF k = m THEN r ELSE row[k]
        BY DEF RowsOK
    <1> QED BY <1>1 DEF RatedRows, RowNumbers

LEMMA HandlerRated ==
    ASSUME RatedHandlers, HandlersOK, NEW m \in Match, NEW h, HandlerNumbers(h),
           handler' = [handler EXCEPT ![m] = h]
    PROVE  RatedHandlers'
    <1>1. \A k \in Match : handler'[k] = IF k = m THEN h ELSE handler[k]
        BY DEF HandlersOK
    <1> QED BY <1>1 DEF RatedHandlers, HandlerNumbers

LEMMA FreeNumbers ==
    /\ HandlerNumbers(FreeLock)
    /\ \A x, y : HandlerNumbers([FreeLock EXCEPT !.by = x, !.pc = y])
    <1>1. HandlerNumbers(FreeLock)
        BY DEF FreeLock, HandlerNumbers
    <1>2. ASSUME NEW x, NEW y PROVE HandlerNumbers([FreeLock EXCEPT !.by = x, !.pc = y])
        <2>1. [FreeLock EXCEPT !.by = x] =
                  [by |-> x, pc |-> "free", second |-> 0, played |-> 0, change |-> 0]
            BY DEF FreeLock
        <2>2. ASSUME NEW w, w = [by |-> x, pc |-> "free", second |-> 0, played |-> 0, change |-> 0]
              PROVE  HandlerNumbers([w EXCEPT !.pc = y])
            BY <2>2 DEF HandlerNumbers
        <2> QED BY <2>1, <2>2
    <1> QED BY <1>1, <1>2

LEMMA NextStageNumbers ==
    ASSUME NEW m, NEW h, HandlerShape(h, m), HandlerNumbers(h), NEW s
    PROVE  HandlerNumbers([h EXCEPT !.pc = s])
    BY DEF HandlerShape, HandlerNumbers

LEMMA DecidedNumbers ==
    ASSUME NEW r, RowShape(r), RowNumbers(r), NEW d \in Decision
    PROVE  RowNumbers(Decided(r, d))
    <1> DEFINE q == [r EXCEPT !.result = d]
    <1>1. RowShape(q) /\ RowNumbers(q)
        BY RowChanges, RowNumbersStay
    <1>2. Decided(r, d) = [q EXCEPT !.report = <<d, d>>]
        BY DEF Decided
    <1>3. ASSUME NEW w, RowShape(w), RowNumbers(w)
          PROVE  RowNumbers([w EXCEPT !.report = <<d, d>>])
        BY <1>3 DEF RowShape, RowNumbers
    <1> HIDE DEF q
    <1> QED BY <1>1, <1>2, <1>3

LEMMA HandlesRates ==
    ASSUME PointsAreWhole, Inv, Numbers, NEW m \in Match, NEW by, NEW r, RowShape(r), RowNumbers(r),
           Handles(m, by, r)
    PROVE  Numbers'
    <1>1. RowsOK /\ HandlersOK /\ PlayersOK /\ RatedRows /\ RatedHandlers
        BY DEF Inv, Shape, Numbers
    <1>2. CASE CheckAborts(m, by, r)
        <2>1. RatedRows' /\ RatedHandlers'
            BY <1>1, <1>2, RowRated, HandlerRated, FreeNumbers DEF CheckAborts
        <2>2. PlayersOK'
            BY <1>1, <1>2, Releases DEF CheckAborts, PlayersOK
        <2> QED BY <2>1, <2>2 DEF Numbers
    <1>3. CASE CheckConflicts(m, by, r)
        <2>1. RatedRows' /\ RatedHandlers'
            BY <1>1, <1>3, RowRated, HandlerRated, FreeNumbers DEF CheckConflicts
        <2>2. PlayersOK'
            BY <1>1, <1>3 DEF CheckConflicts, PlayersOK
        <2> QED BY <2>1, <2>2 DEF Numbers
    <1>4. CASE CheckCompletes(m, by, r)
        <2>1. PICK first, second, gain :
                 /\ first = Sides[m][1] /\ second = Sides[m][2]
                 /\ gain = Points(mmr[first], mmr[second], r.report[1])
                 /\ row' = [row EXCEPT ![m] = [r EXCEPT !.result = r.report[1]]]
                 /\ mmr' = [mmr EXCEPT ![first] = @ + gain]
                 /\ games' = [games EXCEPT ![first] = @ + 1]
                 /\ handler' = [handler EXCEPT ![m] =
                       [by |-> by, pc |-> "rateSecond", second |-> mmr[second] - gain,
                        played |-> games[second] + 1, change |-> gain]]
                 /\ UNCHANGED <<state, queue>>
            BY <1>4 DEF CheckCompletes
        <2>2. r.report[1] \in Outcome
            BY <1>4, ResultIsReported DEF CheckCompletes, Rateable
        <2>3. /\ mmr[first] \in Int /\ mmr[second] \in Int
              /\ games[first] \in Nat /\ games[second] \in Nat
            BY <1>1, <2>1, TheSides DEF PlayersOK
        <2>4. gain \in Int
            BY <2>1, <2>2, <2>3 DEF PointsAreWhole
        <2>5. PlayersOK'
            <3>1. mmr[first] + gain \in Int /\ games[first] + 1 \in Nat
                BY <2>3, <2>4
            <3>2. mmr' \in [Player -> Int]
                BY <1>1, <2>1, <3>1 DEF PlayersOK
            <3>3. games' \in [Player -> Nat]
                BY <1>1, <2>1, <3>1 DEF PlayersOK
            <3> QED BY <1>1, <2>1, <3>2, <3>3 DEF PlayersOK
        <2>6. HandlerNumbers([by |-> by, pc |-> "rateSecond", second |-> mmr[second] - gain,
                              played |-> games[second] + 1, change |-> gain])
            BY <2>3, <2>4 DEF HandlerNumbers
        <2>7. RatedHandlers'
            BY <1>1, <2>1, <2>6, HandlerRated
        <2>8. RatedRows'
            BY <1>1, <2>1, RowNumbersStay, RowRated
        <2> QED BY <2>5, <2>7, <2>8 DEF Numbers
    <1> QED BY <1>2, <1>3, <1>4 DEF Handles

\* What a decision writes into the ratings.
LEMMA NewChangeIsWhole ==
    ASSUME PointsAreWhole, Numbers, NEW m \in Match, NEW d \in Decision
    PROVE  /\ NewChange(m, d) \in Int
           /\ row[m].initial[1] \in Int /\ row[m].initial[2] \in Int
    <1>1. row[m].initial[1] \in Int /\ row[m].initial[2] \in Int
        BY DEF Numbers, RatedRows, RowNumbers
    <1>2. d # -1 => d \in Outcome
        BY DEF Decision
    <1> QED BY <1>1, <1>2 DEF PointsAreWhole, NewChange

LEMMA DecisionRates ==
    ASSUME PointsAreWhole, Inv, Numbers, NEW a \in Admin, NEW m \in Match, NEW d \in Decision,
           NEW s, ApplyDecision(a, m, d, s), UNCHANGED <<games, state, handler>>
    PROVE  Numbers'
    <1>1. RowShape(row[m]) /\ RowNumbers(row[m]) /\ RowsOK
        BY DEF Inv, Shape, RowsOK, Numbers, RatedRows
    <1>2. NewChange(m, d) \in Int /\ row[m].initial[1] \in Int
        BY NewChangeIsWhole
    <1> DEFINE o == Decided(row[m], d)
               q == [o EXCEPT !.change = 0]
    <1>3. RowShape(o) /\ RowNumbers(o)
        BY <1>1, DecidedShape, DecidedNumbers
    <1>4. RowShape(q) /\ RowNumbers(q)
        <2>1. ASSUME NEW w, RowShape(w), RowNumbers(w)
              PROVE  RowShape([w EXCEPT !.change = 0]) /\ RowNumbers([w EXCEPT !.change = 0])
            BY <2>1 DEF RowShape, RowNumbers
        <2> HIDE DEF o
        <2> QED BY <1>3, <2>1
    <1>5. RatedHandlers'
        BY DEF Numbers, RatedHandlers, HandlerNumbers
    <1>6. CASE d = -1
        <2>1. /\ row' = [row EXCEPT ![m] = [q EXCEPT !.report = s]]
              /\ queue' = queue \ PlayersOf(m) /\ UNCHANGED mmr
            BY <1>6 DEF ApplyDecision, ClearQueueLocks
        <2> HIDE DEF q
        <2>2. RatedRows'
            BY <1>1, <1>4, <2>1, RowNumbersStay, RowRated DEF Numbers
        <2>3. PlayersOK'
            BY <2>1 DEF Numbers, PlayersOK
        <2> QED BY <1>5, <2>2, <2>3 DEF Numbers
    <1>7. CASE d # -1
        <2>1. /\ row' = [row EXCEPT ![m] = q]
              /\ mmr' = [mmr EXCEPT ![Sides[m][1]] = row[m].initial[1] + NewChange(m, d)]
              /\ UNCHANGED queue
            BY <1>7 DEF ApplyDecision
        <2> HIDE DEF q
        <2>2. RatedRows'
            BY <1>1, <1>4, <2>1, RowRated DEF Numbers
        <2>3. row[m].initial[1] + NewChange(m, d) \in Int
            BY <1>2
        <2>4. PlayersOK'
            BY <2>1, <2>3 DEF Numbers, PlayersOK
        <2> QED BY <1>5, <2>2, <2>4 DEF Numbers
    <1> QED BY <1>6, <1>7

LEMMA NewRatingIsWhole ==
    ASSUME NEW old \in Int, NEW c \in Adjustment
    PROVE  NewRating(old, c) \in Int
    <1>1. c.value \in Int /\ c.op \in {"set", "add", "subtract"}
        BY AdminAssumption
    <1> QED BY <1>1 DEF NewRating

LEMMA PlayerStepRates ==
    ASSUME Inv, Numbers, PlayerStep
    PROVE  Numbers'
    <1>0. RowsOK /\ HandlersOK /\ PlayersOK /\ RatedRows /\ RatedHandlers
        BY DEF Inv, Shape, Numbers
    <1>1. ASSUME NEW p \in Player, JoinQueue(p) PROVE Numbers'
        BY <1>0, <1>1 DEF JoinQueue, Numbers, PlayersOK, RatedRows, RatedHandlers, RowNumbers,
                          HandlerNumbers, rowVars
    <1>2. ASSUME NEW m \in Match, CreateMatch(m) PROVE Numbers'
        <2>1. RowShape(row[m]) /\ RowNumbers(row[m])
            BY <1>0 DEF RowsOK, RatedRows
        <2> DEFINE x == <<mmr[Sides[m][1]], mmr[Sides[m][2]]>>
        <2>2. x \in Int \X Int
            BY <1>0, TheSides DEF PlayersOK
        <2>3. row' = [row EXCEPT ![m] = [row[m] EXCEPT !.initial = x]]
            BY <1>2 DEF CreateMatch
        <2> HIDE DEF x
        <2>4. RatedRows'
            BY <1>0, <2>1, <2>2, <2>3, RowNumbersStay, RowRated
        <2>5. RatedHandlers'
            BY <1>0, <1>2 DEF CreateMatch, RatedHandlers, HandlerNumbers
        <2>6. PlayersOK'
            BY <1>0, <1>2 DEF CreateMatch, PlayersOK
        <2> QED BY <2>4, <2>5, <2>6 DEF Numbers
    <1>3. ASSUME NEW m \in Match, CloseWindow(m) PROVE Numbers'
        <2>1. RatedHandlers'
            BY <1>0, <1>3, FreeNumbers, HandlerRated DEF CloseWindow
        <2> QED BY <1>0, <1>3, <2>1 DEF CloseWindow, playerVars, Numbers, PlayersOK, RatedRows, RowNumbers
    <1>4. ASSUME NEW m \in Match, NEW i \in {1, 2},
                 AbortMatch(m, i) \/ \E v \in Outcome : RecordReport(m, i, v)
          PROVE  Numbers'
        <2>1. RowShape(row[m]) /\ RowNumbers(row[m])
            BY <1>0 DEF RowsOK, RatedRows
        <2>2. PICK r : RowNumbers(r) /\ row' = [row EXCEPT ![m] = r]
            <3>1. CASE AbortMatch(m, i)
                <4> DEFINE codes == IF i = 1 THEN <<-3, -1>> ELSE <<-1, -3>>
                           q == [row[m] EXCEPT !.report = codes]
                           r == [q EXCEPT !.result = -1]
                <4>1. row' = [row EXCEPT ![m] = r]
                    BY <3>1 DEF AbortMatch
                <4> HIDE DEF codes
                <4>2. q.initial = row[m].initial /\ q.change = row[m].change
                    BY <2>1 DEF RowShape
                <4>3. DOMAIN q = DOMAIN row[m]
                    OBVIOUS
                <4> HIDE DEF q
                <4>4. RowNumbers(r)
                    BY <2>1, <4>2, <4>3 DEF RowShape, RowNumbers
                <4> HIDE DEF r
                <4> QED BY <4>1, <4>4
            <3>2. ASSUME NEW v \in Outcome, RecordReport(m, i, v)
                  PROVE  \E r : RowNumbers(r) /\ row' = [row EXCEPT ![m] = r]
                <4> DEFINE r == [row[m] EXCEPT !.report = [row[m].report EXCEPT ![i] = v]]
                <4>1. row' = [row EXCEPT ![m] = r]
                    BY <3>2 DEF RecordReport
                <4>2. RowNumbers(r)
                    BY <2>1, RowNumbersStay
                <4> HIDE DEF r
                <4> QED BY <4>1, <4>2
            <3> QED BY <1>4, <3>1, <3>2
        <2>3. UNCHANGED <<playerVars, handler>>
            BY <1>4 DEF AbortMatch, RecordReport
        <2>4. RatedRows'
            BY <1>0, <2>2, RowRated
        <2> QED BY <1>0, <2>3, <2>4 DEF playerVars, Numbers, PlayersOK, RatedHandlers, HandlerNumbers
    <1> QED BY <1>1, <1>2, <1>3, <1>4 DEF PlayerStep

LEMMA MatchStepRates ==
    ASSUME PointsAreWhole, Inv, Numbers, NEW m \in Match, MatchStep(m)
    PROVE  Numbers'
    <1>0. /\ RowsOK /\ HandlersOK /\ PlayersOK /\ RatedRows /\ RatedHandlers
          /\ RowShape(row[m]) /\ RowNumbers(row[m])
          /\ HandlerShape(handler[m], m) /\ HandlerNumbers(handler[m])
        BY DEF Inv, Shape, Numbers, RowsOK, HandlersOK, RatedRows, RatedHandlers
    <1>1. CASE ReportCheck(m)
        <2>1. CASE Handles(m, m, row[m])
            BY <1>0, <2>1, HandlesRates
        <2>2. CASE UNCHANGED <<playerVars, row, handler>>
            BY <1>0, <2>2 DEF playerVars, Numbers, PlayersOK, RatedRows, RatedHandlers, RowNumbers,
                              HandlerNumbers
        <2> QED BY <1>1, <2>1, <2>2 DEF ReportCheck
    <1>2. CASE RateSecond(m)
        <2>1. RatedHandlers'
            BY <1>0, <1>2, NextStageNumbers, HandlerRated DEF RateSecond
        <2>2. PlayersOK'
            BY <1>0, <1>2 DEF RateSecond, PlayersOK, HandlerNumbers
        <2> QED BY <1>0, <1>2, <2>1, <2>2 DEF RateSecond, rowVars, Numbers, RatedRows, RowNumbers
    <1>3. CASE Complete(m)
        <2>1. handler[m].change \in Int
            BY <1>0 DEF HandlerNumbers
        <2>2. RatedRows'
            BY <1>0, <1>3, <2>1, RowNumbersStay, RowRated DEF Complete
        <2>3. RatedHandlers'
            BY <1>0, <1>3, NextStageNumbers, HandlerRated DEF Complete
        <2>4. PlayersOK'
            BY <1>0, <1>3, Releases DEF Complete, PlayersOK
        <2> QED BY <2>2, <2>3, <2>4 DEF Numbers
    <1>4. CASE EndCheck(m)
        <2>1. RatedHandlers'
            BY <1>0, <1>4, FreeShape, FreeNumbers, HandlerRated DEF EndCheck
        <2>2. PlayersOK'
            BY <1>0, <1>4, Releases DEF EndCheck, MarkIfConflict, PlayersOK
        <2> QED BY <1>0, <1>4, <2>1, <2>2 DEF EndCheck, Numbers, RatedRows, RowNumbers
    <1>5. CASE WindowClosed(m)
        <2>1. CASE AbortUnconfirmed(m)
            <3>1. PICK codes : row' = [row EXCEPT ![m].report = codes, ![m].result = -1]
                BY <2>1 DEF AbortUnconfirmed
            <3> DEFINE q == [row[m] EXCEPT !.report = codes]
                       r == [q EXCEPT !.result = -1]
            <3>2. row' = [row EXCEPT ![m] = r]
                BY <3>1
            <3>3. q.initial = row[m].initial /\ q.change = row[m].change /\ DOMAIN q = DOMAIN row[m]
                BY <1>0 DEF RowShape
            <3> HIDE DEF q
            <3>4. RowNumbers(r)
                BY <1>0, <3>3 DEF RowShape, RowNumbers
            <3> HIDE DEF r
            <3>5. RatedRows'
                BY <1>0, <3>2, <3>4, RowRated
            <3>6. RatedHandlers'
                <4>1. handler' = [handler EXCEPT ![m] = [handler[m] EXCEPT !.pc = "telling"]]
                    BY <2>1 DEF AbortUnconfirmed
                <4>2. HandlerNumbers([handler[m] EXCEPT !.pc = "telling"])
                    BY <1>0, NextStageNumbers
                <4> QED BY <1>0, <4>1, <4>2, HandlerRated
            <3>7. PlayersOK'
                BY <1>0, <1>5, <2>1, Releases DEF WindowClosed, AbortUnconfirmed, PlayersOK
            <3> QED BY <3>5, <3>6, <3>7 DEF Numbers
        <2>2. CASE /\ handler' = [handler EXCEPT ![m] = Unlocked(@)]
                   /\ UNCHANGED <<state, queue, row, processed, said>>
            <3>1. RatedHandlers'
                BY <1>0, <2>2, FreeShape, FreeNumbers, HandlerRated
            <3> QED BY <1>0, <1>5, <2>2, <3>1
                    DEF WindowClosed, Numbers, PlayersOK, RatedRows, RowNumbers
        <2> QED BY <1>5, <2>1, <2>2 DEF WindowClosed
    <1> QED BY <1>1, <1>2, <1>3, <1>4, <1>5 DEF MatchStep

LEMMA AdminStepRates ==
    ASSUME PointsAreWhole, Inv, Numbers, NEW a \in Admin, AdminStep(a) \/ ResolveStep(a)
    PROVE  Numbers'
    <1>0. RowsOK /\ HandlersOK /\ PlayersOK /\ RatedRows /\ RatedHandlers
        BY DEF Inv, Shape, Numbers
    <1>1. ASSUME UNCHANGED <<row, handler, games, state, queue>>,
                 NEW p \in Player, NEW n \in Int, mmr' = [mmr EXCEPT ![p] = n]
          PROVE  Numbers'
        BY <1>0, <1>1 DEF Numbers, PlayersOK, RatedRows, RowNumbers, RatedHandlers, HandlerNumbers
    <1>2. ASSUME NEW m \in Match, NEW r, RowNumbers(r), row' = [row EXCEPT ![m] = r],
                 RatedHandlers', PlayersOK'
          PROVE  Numbers'
        BY <1>0, <1>2, RowRated DEF Numbers
    <1>3. ASSUME NEW m \in Match, NEW d \in Decision, ResolveFresh(a, m, d) PROVE Numbers'
        <2>1. RowShape(row[m]) /\ RowNumbers(row[m])
            BY <1>0 DEF RowsOK, RatedRows
        <2>2. RowShape(Decided(row[m], d)) /\ RowNumbers(Decided(row[m], d))
            BY <2>1, DecidedShape, DecidedNumbers
        <2>3. CASE Handles(m, a, Decided(row[m], d))
            BY <2>2, <2>3, HandlesRates
        <2>4. CASE UNCHANGED <<playerVars, handler>> /\ row' = [row EXCEPT ![m].result = d]
            <3>1. RowNumbers([row[m] EXCEPT !.result = d])
                BY <2>1, RowNumbersStay
            <3>2. RatedHandlers' /\ PlayersOK'
                BY <1>0, <2>4 DEF playerVars, RatedHandlers, HandlerNumbers, PlayersOK
            <3> QED BY <1>2, <2>4, <3>1, <3>2
        <2>5. CASE UNCHANGED <<playerVars, handler>> /\ row' = [row EXCEPT ![m] = Decided(row[m], d)]
            <3>1. RatedHandlers' /\ PlayersOK'
                BY <1>0, <2>5 DEF playerVars, RatedHandlers, HandlerNumbers, PlayersOK
            <3> QED BY <1>2, <2>2, <2>5, <3>1
        <2> QED BY <1>3, <2>3, <2>4, <2>5 DEF ResolveFresh
    <1>4. ASSUME NEW m \in Match, NEW d \in Decision, ResolveTerminal(a, m, d) PROVE Numbers'
        <2>1. UNCHANGED <<games, state, handler>>
            BY <1>4 DEF ResolveTerminal
        <2>2. CASE ApplyDecision(a, m, d, row[m].report)
            BY <2>1, <2>2, DecisionRates
        <2>3. CASE /\ mmr' = [mmr EXCEPT ![Sides[m][1]] = row[m].initial[1]]
                   /\ UNCHANGED <<row, queue>>
            <3>1. row[m].initial[1] \in Int /\ Sides[m][1] \in Player
                BY <1>0, TheSides DEF RatedRows, RowNumbers
            <3> QED BY <1>1, <2>1, <2>3, <3>1
        <2> QED BY <1>4, <2>2, <2>3 DEF ResolveTerminal
    <1>5. ASSUME NEW p \in Player, NEW c \in Adjustment, AdjustPlayerMMR(a, p, c) PROVE Numbers'
        <2>1. mmr[p] \in Int
            BY <1>0 DEF PlayersOK
        <2>2. NewRating(mmr[p], c) \in Int
            BY <2>1, NewRatingIsWhole
        <2>3. /\ mmr' = [mmr EXCEPT ![p] = NewRating(mmr[p], c)]
              /\ UNCHANGED <<row, handler, games, state, queue>>
            BY <1>5 DEF AdjustPlayerMMR, rowVars
        <2> QED BY <1>1, <2>2, <2>3
    <1>6. ASSUME task[a].pc \in Busy, NEW m, m = task[a].match
          PROVE  /\ m \in Match /\ RowShape(row[m]) /\ RowNumbers(row[m])
                 /\ task[a].decision \in Decision
        BY <1>0, <1>6, BusyTask DEF Inv, RowsOK, RatedRows
    <1>7. ASSUME task[a].pc \in Busy, Closes(a), RatedHandlers', PlayersOK' PROVE Numbers'
        <2>1. PICK m : m = task[a].match
            OBVIOUS
        <2>2. m \in Match /\ RowShape(row[m]) /\ RowNumbers(row[m])
            BY <1>6, <1>7, <2>1
        <2>3. RowNumbers([row[m] EXCEPT !.report = task[a].saved])
            BY <2>2, RowNumbersStay
        <2>4. row' = [row EXCEPT ![m] = [row[m] EXCEPT !.report = task[a].saved]]
            BY <1>7, <2>1 DEF Closes, OriginalReports
        <2> QED BY <1>2, <1>7, <2>2, <2>3, <2>4
    <1>8. CASE FreshCheck(a)
        <2>1. PICK m : m = task[a].match
            OBVIOUS
        <2>2. task[a].pc \in Busy
            BY <1>8 DEF FreshCheck, Busy
        <2>3. CASE Handles(m, a, row[m])
            BY <1>6, <2>1, <2>2, <2>3, HandlesRates
        <2>4. CASE Closes(a) /\ UNCHANGED <<playerVars, handler>>
            <3>1. RatedHandlers' /\ PlayersOK'
                BY <1>0, <2>4 DEF playerVars, RatedHandlers, HandlerNumbers, PlayersOK
            <3> QED BY <1>7, <2>2, <2>4, <3>1
        <2> QED BY <1>8, <2>1, <2>3, <2>4 DEF FreshCheck
    <1>9. CASE FreshEnds(a)
        <2>1. PICK m : m = task[a].match
            OBVIOUS
        <2>2. task[a].pc \in Busy
            BY <1>9 DEF FreshEnds, Busy
        <2>3. m \in Match
            BY <1>6, <2>1, <2>2
        <2>4. /\ MarkIfConflict(m) /\ Closes(a) /\ UNCHANGED <<mmr, games>>
              /\ handler' = [handler EXCEPT ![m] = FreeLock]
            BY <1>9, <2>1 DEF FreshEnds, Unlocked
        <2>5. RatedHandlers'
            BY <1>0, <2>3, <2>4, FreeNumbers, HandlerRated
        <2>6. PlayersOK'
            BY <1>0, <2>4, Releases DEF MarkIfConflict, PlayersOK
        <2> QED BY <1>7, <2>2, <2>4, <2>5, <2>6
    <1>10. CASE RestoreSecond(a)
        <2>1. PICK m : m = task[a].match
            OBVIOUS
        <2>2. task[a].pc \in Busy
            BY <1>10 DEF RestoreSecond, Busy
        <2>3. Sides[m][2] \in Player /\ row[m].initial[2] \in Int
            BY <1>6, <2>1, <2>2, TheSides DEF RowNumbers
        <2>4. /\ mmr' = [mmr EXCEPT ![Sides[m][2]] = row[m].initial[2]]
              /\ UNCHANGED <<row, handler, games, state, queue>>
            BY <1>10, <2>1 DEF RestoreSecond, rowVars
        <2> QED BY <1>1, <2>3, <2>4
    <1>11. CASE ApplyFirst(a)
        <2>1. PICK m, d : m = task[a].match /\ d = task[a].decision
            OBVIOUS
        <2>2. task[a].pc \in Busy
            BY <1>11 DEF ApplyFirst, Busy
        <2>3. ApplyDecision(a, m, d, task[a].saved) /\ UNCHANGED <<games, state, handler>>
            BY <1>11, <2>1 DEF ApplyFirst
        <2> QED BY <1>6, <2>1, <2>2, <2>3, DecisionRates
    <1>12. CASE ApplySecond(a)
        <2>1. PICK m, d : m = task[a].match /\ d = task[a].decision
            OBVIOUS
        <2>2. task[a].pc \in Busy
            BY <1>12 DEF ApplySecond, Busy
        <2>3. m \in Match /\ d \in Decision /\ Sides[m][2] \in Player
            BY <1>6, <2>1, <2>2, TheSides
        <2>4. row[m].initial[2] - NewChange(m, d) \in Int
            BY <2>3, NewChangeIsWhole
        <2>5. /\ mmr' = [mmr EXCEPT ![Sides[m][2]] = row[m].initial[2] - NewChange(m, d)]
              /\ UNCHANGED <<row, handler, games, state, queue>>
            BY <1>12, <2>1 DEF ApplySecond, rowVars
        <2> QED BY <1>1, <2>3, <2>4, <2>5
    <1>13. CASE TerminalEnds(a)
        <2>1. PICK m, d, x : m = task[a].match /\ d = task[a].decision /\ x = NewChange(m, d)
            OBVIOUS
        <2>2. task[a].pc \in Busy
            BY <1>13 DEF TerminalEnds, Busy
        <2>3. m \in Match /\ d \in Decision /\ RowShape(row[m]) /\ RowNumbers(row[m])
            BY <1>6, <2>1, <2>2
        <2>4. x \in Int
            BY <2>1, <2>3, NewChangeIsWhole
        <2> DEFINE q == [row[m] EXCEPT !.result = d]
                   p == [q EXCEPT !.report = task[a].saved]
                   r == [p EXCEPT !.change = x]
        <2>5. row' = [row EXCEPT ![m] = r]
            BY <1>13, <2>1 DEF TerminalEnds, FinalRow, OriginalReports
        <2>6. q.initial = row[m].initial /\ DOMAIN q = DOMAIN row[m]
            BY <2>3 DEF RowShape
        <2> HIDE DEF q
        <2>7. p.initial = row[m].initial /\ DOMAIN p = DOMAIN row[m]
            BY <2>3, <2>6 DEF RowShape
        <2> HIDE DEF p
        <2>8. RowNumbers(r)
            BY <2>3, <2>4, <2>7 DEF RowShape, RowNumbers
        <2> HIDE DEF r
        <2>9. RatedHandlers' /\ PlayersOK'
            BY <1>0, <1>13 DEF TerminalEnds, ClearQueueLocks, RatedHandlers, HandlerNumbers, PlayersOK
        <2> QED BY <1>2, <2>3, <2>5, <2>8, <2>9
    <1> QED BY <1>3, <1>4, <1>5, <1>8, <1>9, <1>10, <1>11, <1>12, <1>13
            DEF AdminStep, ResolveMatchConflict, ResolveStep

LEMMA InitNumbers == Init => Numbers
    <1> SUFFICES ASSUME Init PROVE Numbers
        OBVIOUS
    <1>1. PlayersOK
        <2>1. StartMMR \in Int
            BY AdminAssumption
        <2> QED BY <2>1 DEF Init, PlayersOK
    <1>2. RatedRows
        <2>1. <<0, 0>> \in Int \X Int /\ 0 \in Int
            OBVIOUS
        <2> QED BY <2>1 DEF Init, RatedRows, RowNumbers
    <1>3. RatedHandlers
        BY FreeNumbers DEF Init, RatedHandlers
    <1> QED BY <1>1, <1>2, <1>3 DEF Numbers

LEMMA NextNumbers == ASSUME PointsAreWhole PROVE Inv /\ Numbers /\ [Next]_vars => Numbers'
    <1>1. CASE UNCHANGED vars
        BY <1>1 DEF vars, rowVars, playerVars, Numbers, PlayersOK, RatedRows, RowNumbers,
                    RatedHandlers, HandlerNumbers
    <1> QED BY <1>1, PlayerStepRates, MatchStepRates, AdminStepRates DEF Next

\* Under a rule that exchanges whole points every variable keeps its shape,
\* through every mixture of checks, decisions and adjustments: the codes in the
\* rows are codes the program knows, and an admin whose task holds the lock of
\* a match is waiting for the check of that match.
THEOREM TypeCorrect == ASSUME PointsAreWhole PROVE Spec => []TypeOK
    <1>1. Init => Numbers
        BY InitNumbers
    <1>2. Inv /\ Numbers /\ [Next]_vars => Numbers'
        BY NextNumbers
    <1>3. Inv /\ Numbers => TypeOK
        <2> SUFFICES ASSUME Inv, Numbers PROVE TypeOK
            OBVIOUS
        <2>1. PlayersOK /\ created \subseteq Match /\ processed \subseteq created
            BY DEF Inv, Shape, MarksOK, Numbers
        <2>2. ASSUME NEW m \in Match
              PROVE  /\ row[m].report[1] \in ReportCode /\ row[m].report[2] \in ReportCode
                     /\ row[m].result \in Decision \cup {None} /\ row[m].change \in Int
            BY DEF Inv, Shape, RowsOK, RowShape, Reports, Numbers, RatedRows, RowNumbers
        <2>3. \A a \in Admin : task[a].pc \in Busy => task[a].match \in created
            BY BusyTask DEF Inv
        <2> QED BY <2>1, <2>2, <2>3 DEF Inv, HoldersWait, PlayersOK, TypeOK
    <1> QED BY <1>1, <1>2, <1>3, Invariant, PTL DEF Spec

-----------------------------------------------------------------------------
(* Sums over the matches *)

\* What holds of 0, and of n + 1 when it holds of n, holds of every number.
LEMMA SetInduction ==
    ASSUME NEW S, 0 \in S, \A n \in Nat : n \in S => n + 1 \in S
    PROVE  Nat \subseteq S
    <1> DEFINE R == OpToRel(<, Nat)
               T == Nat \ S
    <1> SUFFICES ASSUME T # {} PROVE FALSE
        OBVIOUS
    <1>1. \E x \in T : \A y \in T : ~ (<<y, x>> \in R)
        <2>1. IsWellFoundedOn(R, Nat)
            BY NatLessThanWellFounded
        <2>2. T \subseteq Nat
            OBVIOUS
        <2> QED BY <2>1, <2>2, WFMin
    <1>2. PICK x \in T : \A y \in T : ~ (<<y, x>> \in R)
        BY <1>1
    <1>3. \A y \in T : ~(y < x)
        BY <1>2 DEF OpToRel
    <1>4. x # 0 /\ x - 1 \in Nat
        OBVIOUS
    <1>5. x - 1 \in S
        BY <1>3, <1>4
    <1> QED BY <1>4, <1>5

\* What a sum over S recurs on: the element that CHOOSE takes from a subset.
Taken(s) == CHOOSE x \in s : TRUE
Adds(f, S, g) ==
    [s \in SUBSET S |-> IF s = {} THEN 0 ELSE f[Taken(s)] + g[s \ {Taken(s)}]]

LEMMA TakenIn ==
    ASSUME NEW S, IsFiniteSet(S), NEW s \in SUBSET S, s # {}
    PROVE  /\ Taken(s) \in s /\ Taken(s) \in S /\ s \ {Taken(s)} \in SUBSET S
           /\ Cardinality(s) \in Nat /\ Cardinality(s \ {Taken(s)}) = Cardinality(s) - 1
    <1>1. Taken(s) \in s
        BY DEF Taken
    <1>2. IsFiniteSet(s) /\ Cardinality(s) \in Nat
        BY FS_Subset, FS_CardinalityType
    <1>3. Cardinality(s \ {Taken(s)}) = Cardinality(s) - 1
        BY <1>1, <1>2, FS_RemoveElement
    <1> QED BY <1>1, <1>2, <1>3

\* A function on the subsets that satisfies the recursion exists.
LEMMA SumExists ==
    ASSUME NEW S, IsFiniteSet(S), NEW f \in [S -> Int]
    PROVE  \E g \in [SUBSET S -> Int] : g = Adds(f, S, g)
    <1> DEFINE Upto(g, k) ==
                   /\ g \in [SUBSET S -> Int]
                   /\ \A s \in SUBSET S : Cardinality(s) <= k => g[s] = Adds(f, S, g)[s]
               Good == {k \in Nat : \E g : Upto(g, k)}
    <1>0. Cardinality(S) \in Nat /\ \A s \in SUBSET S : Cardinality(s) <= Cardinality(S)
        BY FS_Subset, FS_CardinalityType
    <1>1. ASSUME NEW g \in [SUBSET S -> Int] PROVE Adds(f, S, g) \in [SUBSET S -> Int]
        <2>1. ASSUME NEW s \in SUBSET S, s # {} PROVE f[Taken(s)] + g[s \ {Taken(s)}] \in Int
            <3>1. Taken(s) \in S /\ s \ {Taken(s)} \in SUBSET S
                BY <2>1, TakenIn
            <3>2. f[Taken(s)] \in Int /\ g[s \ {Taken(s)}] \in Int
                BY <3>1
            <3> QED BY <3>2
        <2> QED BY <2>1 DEF Adds
    <1>2. 0 \in Good
        <2> DEFINE g == [s \in SUBSET S |-> 0]
        <2>1. ASSUME NEW s \in SUBSET S, Cardinality(s) <= 0 PROVE g[s] = Adds(f, S, g)[s]
            <3>1. s = {}
                BY <2>1, FS_Subset, FS_CardinalityType, FS_EmptySet
            <3> QED BY <3>1 DEF Adds
        <2>2. Upto(g, 0)
            BY <2>1
        <2> QED BY <2>2
    <1>3. ASSUME NEW k \in Nat, k \in Good PROVE k + 1 \in Good
        <2>1. PICK g : Upto(g, k)
            BY <1>3
        <2>2. PICK h : h = Adds(f, S, g)
            OBVIOUS
        <2>3. h \in [SUBSET S -> Int]
            BY <1>1, <2>1, <2>2
        <2>4. ASSUME NEW s \in SUBSET S, Cardinality(s) <= k + 1 PROVE h[s] = Adds(f, S, h)[s]
            <3>1. CASE s = {}
                BY <2>2, <3>1 DEF Adds
            <3>2. CASE s # {}
                <4> DEFINE t == s \ {Taken(s)}
                <4>1. t \in SUBSET S /\ Cardinality(t) <= k
                    BY <2>4, <3>2, TakenIn
                <4>2. g[t] = h[t]
                    BY <2>1, <2>2, <4>1
                <4>3. h[s] = f[Taken(s)] + g[t] /\ Adds(f, S, h)[s] = f[Taken(s)] + h[t]
                    BY <2>2, <3>2 DEF Adds
                <4> QED BY <4>2, <4>3
            <3> QED BY <3>1, <3>2
        <2>5. Upto(h, k + 1)
            BY <2>3, <2>4
        <2> QED BY <2>5
    <1>4. Cardinality(S) \in Good
        <2> HIDE DEF Good
        <2> QED BY <1>0, <1>2, <1>3, SetInduction
    <1>5. PICK g : Upto(g, Cardinality(S))
        BY <1>4
    <1>6. \A s \in SUBSET S : g[s] = Adds(f, S, g)[s]
        BY <1>0, <1>5
    <1>7. g = Adds(f, S, g)
        BY <1>1, <1>5, <1>6
    <1> QED BY <1>5, <1>7

\* SumFunction is such a function at the whole domain.
LEMMA SumIs ==
    ASSUME NEW S, IsFiniteSet(S), NEW f \in [S -> Int]
    PROVE  \E g \in [SUBSET S -> Int] : g = Adds(f, S, g) /\ SumFunction(f) = g[S]
    <1> DEFINE P(g) == g = [s \in SUBSET S |-> IF s = {} THEN 0
                                              ELSE f[CHOOSE x \in s : TRUE] + g[s \ {CHOOSE x \in s : TRUE}]]
    <1>1. DOMAIN f = S
        OBVIOUS
    <1>2. SumFunction(f) = (CHOOSE g : P(g))[S]
        BY <1>1 DEF SumFunction, SumFunctionOnSet, FoldFunctionOnSet, MapThenFoldSet
    <1>3. \A g : P(g) <=> g = Adds(f, S, g)
        BY DEF Adds, Taken
    <1> HIDE DEF P
    <1>4. PICK g \in [SUBSET S -> Int] : P(g)
        BY <1>3, SumExists
    <1>5. P(CHOOSE h : P(h))
        BY <1>4
    <1>6. PICK c : c = (CHOOSE h : P(h))
        OBVIOUS
    <1>7. c = Adds(f, S, c) /\ SumFunction(f) = c[S]
        BY <1>2, <1>3, <1>5, <1>6
    <1>8. c = g
        <2> DEFINE Good == {k \in Nat : \A s \in SUBSET S : Cardinality(s) <= k => c[s] = g[s]}
        <2>0. g = Adds(f, S, g)
            BY <1>3, <1>4
        <2>1. 0 \in Good
            <3>1. ASSUME NEW s \in SUBSET S, Cardinality(s) <= 0 PROVE c[s] = g[s]
                <4>1. s = {}
                    BY <3>1, FS_Subset, FS_CardinalityType, FS_EmptySet
                <4> QED BY <1>7, <2>0, <4>1 DEF Adds
            <3> QED BY <3>1
        <2>2. ASSUME NEW k \in Nat, k \in Good PROVE k + 1 \in Good
            <3>1. ASSUME NEW s \in SUBSET S, Cardinality(s) <= k + 1 PROVE c[s] = g[s]
                <4>1. CASE s = {}
                    BY <1>7, <2>0, <4>1 DEF Adds
                <4>2. CASE s # {}
                    <5> DEFINE t == s \ {Taken(s)}
                    <5>1. t \in SUBSET S /\ Cardinality(t) <= k
                        BY <3>1, <4>2, TakenIn
                    <5>2. c[t] = g[t]
                        BY <2>2, <5>1
                    <5>3. c[s] = f[Taken(s)] + c[t] /\ g[s] = f[Taken(s)] + g[t]
                        BY <1>7, <2>0, <4>2 DEF Adds
                    <5> QED BY <5>2, <5>3
                <4> QED BY <4>1, <4>2
            <3> QED BY <3>1
        <2>3. Cardinality(S) \in Good
            <3> HIDE DEF Good
            <3>1. Cardinality(S) \in Nat
                BY FS_CardinalityType
            <3> QED BY <2>1, <2>2, <3>1, SetInduction
        <2>4. \A s \in SUBSET S : c[s] = g[s]
            BY <2>3, FS_Subset, FS_CardinalityType
        <2>5. DOMAIN c = SUBSET S
            BY <1>7 DEF Adds
        <2>6. c = [s \in SUBSET S |-> c[s]]
            BY <1>7, <2>5 DEF Adds
        <2> QED BY <2>4, <2>6
    <1> QED BY <1>7, <1>8

\* One summand changes the sum by its own change.
LEMMA SumChanges ==
    ASSUME NEW S, IsFiniteSet(S), NEW f \in [S -> Int], NEW h \in [S -> Int],
           NEW m \in S, \A k \in S \ {m} : h[k] = f[k]
    PROVE  SumFunction(h) = SumFunction(f) + h[m] - f[m]
    <1>1. PICK F \in [SUBSET S -> Int] : F = Adds(f, S, F) /\ SumFunction(f) = F[S]
        BY SumIs
    <1>2. PICK H \in [SUBSET S -> Int] : H = Adds(h, S, H) /\ SumFunction(h) = H[S]
        BY SumIs
    <1> DEFINE More(s) == IF m \in s THEN h[m] - f[m] ELSE 0
               Good == {k \in Nat : \A s \in SUBSET S : Cardinality(s) <= k => H[s] = F[s] + More(s)}
    <1>3. 0 \in Good
        <2>1. ASSUME NEW s \in SUBSET S, Cardinality(s) <= 0 PROVE H[s] = F[s] + More(s)
            <3>1. s = {}
                BY <2>1, FS_Subset, FS_CardinalityType, FS_EmptySet
            <3>2. F[s] = 0 /\ H[s] = 0
                BY <1>1, <1>2, <3>1 DEF Adds
            <3> QED BY <3>1, <3>2
        <2> QED BY <2>1
    <1>4. ASSUME NEW k \in Nat, k \in Good PROVE k + 1 \in Good
        <2>1. ASSUME NEW s \in SUBSET S, Cardinality(s) <= k + 1 PROVE H[s] = F[s] + More(s)
            <3>1. CASE s = {}
                <4>1. F[s] = 0 /\ H[s] = 0
                    BY <1>1, <1>2, <3>1 DEF Adds
                <4> QED BY <3>1, <4>1
            <3>2. CASE s # {}
                <4>0. PICK x, t : x = Taken(s) /\ t = s \ {x}
                    OBVIOUS
                <4>1. t \in SUBSET S /\ Cardinality(t) <= k /\ x \in s /\ x \in S
                    BY <2>1, <3>2, <4>0, TakenIn
                <4>2. H[t] = F[t] + More(t)
                    BY <1>4, <4>1
                <4>3. F[s] = f[x] + F[t] /\ H[s] = h[x] + H[t]
                    BY <1>1, <1>2, <3>2, <4>0 DEF Adds
                <4>4. F[t] \in Int /\ f[x] \in Int /\ h[x] \in Int /\ f[m] \in Int /\ h[m] \in Int
                    BY <4>1
                <4>5. CASE x = m
                    <5>1. m \in s /\ m \notin t
                        BY <4>0, <4>1, <4>5
                    <5> QED BY <4>2, <4>3, <4>4, <4>5, <5>1
                <4>6. CASE x # m
                    <5>1. h[x] = f[x] /\ (m \in s <=> m \in t)
                        BY <4>0, <4>1, <4>6
                    <5> QED BY <4>2, <4>3, <4>4, <5>1
                <4> QED BY <4>5, <4>6
            <3> QED BY <3>1, <3>2
        <2> QED BY <2>1
    <1>5. Cardinality(S) \in Good
        <2> HIDE DEF Good
        <2>1. Cardinality(S) \in Nat
            BY FS_CardinalityType
        <2> QED BY <1>3, <1>4, <2>1, SetInduction
    <1>6. H[S] = F[S] + More(S)
        BY <1>5, FS_CardinalityType
    <1>7. F[S] \in Int /\ f[m] \in Int /\ h[m] \in Int
        OBVIOUS
    <1> QED BY <1>1, <1>2, <1>6, <1>7

LEMMA SumIsWhole ==
    ASSUME NEW S, IsFiniteSet(S), NEW f \in [S -> Int]
    PROVE  SumFunction(f) \in Int
    <1>1. PICK g \in [SUBSET S -> Int] : SumFunction(f) = g[S]
        BY SumIs
    <1> QED BY <1>1

\* Nothing adds up to nothing.
LEMMA SumOfNothing ==
    ASSUME NEW S, IsFiniteSet(S), NEW f \in [S -> Int], \A k \in S : f[k] = 0
    PROVE  SumFunction(f) = 0
    <1>1. PICK F \in [SUBSET S -> Int] : F = Adds(f, S, F) /\ SumFunction(f) = F[S]
        BY SumIs
    <1> DEFINE Good == {k \in Nat : \A s \in SUBSET S : Cardinality(s) <= k => F[s] = 0}
    <1>2. 0 \in Good
        <2>1. ASSUME NEW s \in SUBSET S, Cardinality(s) <= 0 PROVE F[s] = 0
            <3>1. s = {}
                BY <2>1, FS_Subset, FS_CardinalityType, FS_EmptySet
            <3> QED BY <1>1, <3>1 DEF Adds
        <2> QED BY <2>1
    <1>3. ASSUME NEW k \in Nat, k \in Good PROVE k + 1 \in Good
        <2>1. ASSUME NEW s \in SUBSET S, Cardinality(s) <= k + 1 PROVE F[s] = 0
            <3>1. CASE s = {}
                BY <1>1, <3>1 DEF Adds
            <3>2. CASE s # {}
                <4>0. PICK x, t : x = Taken(s) /\ t = s \ {x}
                    OBVIOUS
                <4>1. t \in SUBSET S /\ Cardinality(t) <= k /\ x \in S
                    BY <2>1, <3>2, <4>0, TakenIn
                <4>2. F[t] = 0 /\ f[x] = 0
                    BY <1>3, <4>1
                <4>3. F[s] = f[x] + F[t]
                    BY <1>1, <3>2, <4>0 DEF Adds
                <4> QED BY <4>2, <4>3
            <3> QED BY <3>1, <3>2
        <2> QED BY <2>1
    <1>4. Cardinality(S) \in Good
        <2> HIDE DEF Good
        <2>1. Cardinality(S) \in Nat
            BY FS_CardinalityType
        <2> QED BY <1>2, <1>3, <2>1, SetInduction
    <1> QED BY <1>1, <1>4, FS_CardinalityType

-----------------------------------------------------------------------------
(* Every step is about one match, or about a player only *)

\* Nothing happens at the other matches.
OnlyAt(m) ==
    \A k \in Match \ {m} :
        /\ row'[k] = row[k] /\ handler'[k] = handler[k] /\ pending'[k] = pending[k]
        /\ k \in processed' <=> k \in processed
        /\ \A b \in Admin : (On(b, k)' <=> On(b, k)) /\ (On(b, k) => task'[b] = task[b])

\* One admin starts, goes on or ends at the match.
TaskMovesAt(m) ==
    \E a \in Admin : \E t :
        /\ task' = [task EXCEPT ![a] = t]
        /\ task[a].pc \in Busy => task[a].match = m
        /\ t.pc \in Busy => t.match = m

LEMMA OnlyAtOne ==
    ASSUME Inv, NEW m \in Match,
           \A k \in Match \ {m} : /\ row'[k] = row[k] /\ handler'[k] = handler[k]
                                  /\ pending'[k] = pending[k],
           processed' \in {processed, processed \cup {m}, processed \ {m}},
           \/ UNCHANGED task
           \/ TaskMovesAt(m)
    PROVE  OnlyAt(m)
    <1>1. DOMAIN task = Admin
        BY DEF Inv, Shape, TasksOK
    <1>2. ASSUME NEW k \in Match \ {m}, NEW b \in Admin
          PROVE  (On(b, k)' <=> On(b, k)) /\ (On(b, k) => task'[b] = task[b])
        <2>1. CASE UNCHANGED task
            BY <2>1 DEF On
        <2>2. ASSUME NEW a \in Admin, NEW t, task' = [task EXCEPT ![a] = t],
                     task[a].pc \in Busy => task[a].match = m, t.pc \in Busy => t.match = m
              PROVE  (On(b, k)' <=> On(b, k)) /\ (On(b, k) => task'[b] = task[b])
            BY <1>1, <2>2 DEF On
        <2> QED BY <2>1, <2>2 DEF TaskMovesAt
    <1> QED BY <1>2 DEF OnlyAt

LEMMA PlayersOnly ==
    ASSUME Inv, NEW m \in Match,
           \/ CreateMatch(m) \/ CloseWindow(m)
           \/ \E i \in {1, 2} : AbortMatch(m, i) \/ \E v \in Outcome : RecordReport(m, i, v)
    PROVE  OnlyAt(m)
    <1>0. DOMAIN row = Match /\ DOMAIN handler = Match /\ pending \in [Match -> Nat]
        BY DEF Inv, Shape, RowsOK, HandlersOK, MarksOK
    <1>1. CASE CreateMatch(m)
        BY <1>0, <1>1, OnlyAtOne DEF CreateMatch
    <1>2. CASE CloseWindow(m)
        BY <1>0, <1>2, OnlyAtOne DEF CloseWindow
    <1>3. ASSUME NEW i \in {1, 2}, AbortMatch(m, i) PROVE OnlyAt(m)
        <2>1. PICK codes : row' = [row EXCEPT ![m].report = codes, ![m].result = -1]
            BY <1>3 DEF AbortMatch
        <2> QED BY <1>0, <1>3, <2>1, OnlyAtOne DEF AbortMatch
    <1>4. ASSUME NEW i \in {1, 2}, NEW v \in Outcome, RecordReport(m, i, v) PROVE OnlyAt(m)
        BY <1>0, <1>4, OnlyAtOne DEF RecordReport
    <1> QED BY <1>1, <1>2, <1>3, <1>4

LEMMA HandlesOnly ==
    ASSUME Inv, NEW m \in Match, NEW by, NEW r, Handles(m, by, r)
    PROVE  /\ \A k \in Match \ {m} : row'[k] = row[k] /\ handler'[k] = handler[k]
           /\ processed' \in {processed, processed \cup {m}, processed \ {m}}
    <1>0. DOMAIN row = Match /\ DOMAIN handler = Match
        BY DEF Inv, Shape, RowsOK, HandlersOK
    <1>1. CASE CheckAborts(m, by, r)
        BY <1>0, <1>1 DEF CheckAborts
    <1>2. CASE CheckCompletes(m, by, r)
        <2>1. PICK q, h : /\ row' = [row EXCEPT ![m] = q] /\ handler' = [handler EXCEPT ![m] = h]
                          /\ processed' = processed
            BY <1>2 DEF CheckCompletes
        <2> QED BY <1>0, <2>1
    <1>3. CASE CheckConflicts(m, by, r)
        BY <1>0, <1>3 DEF CheckConflicts
    <1> QED BY <1>1, <1>2, <1>3 DEF Handles

LEMMA MatchStepOnly ==
    ASSUME Inv, NEW m \in Match, MatchStep(m)
    PROVE  OnlyAt(m)
    <1>0. DOMAIN row = Match /\ DOMAIN handler = Match /\ pending \in [Match -> Nat]
        BY DEF Inv, Shape, RowsOK, HandlersOK, MarksOK
    <1>1. CASE ReportCheck(m)
        <2>1. /\ \A k \in Match \ {m} : pending'[k] = pending[k]
              /\ UNCHANGED task
            BY <1>0, <1>1 DEF ReportCheck
        <2>2. /\ \A k \in Match \ {m} : row'[k] = row[k] /\ handler'[k] = handler[k]
              /\ processed' \in {processed, processed \cup {m}, processed \ {m}}
            <3>1. CASE Handles(m, m, row[m])
                BY <3>1, HandlesOnly
            <3>2. CASE UNCHANGED <<row, processed, handler>>
                BY <3>2
            <3> QED BY <1>1, <3>1, <3>2 DEF ReportCheck
        <2> QED BY <2>1, <2>2, OnlyAtOne
    <1>2. CASE RateSecond(m)
        BY <1>0, <1>2, OnlyAtOne DEF RateSecond, rowVars
    <1>3. CASE Complete(m)
        BY <1>0, <1>3, OnlyAtOne DEF Complete
    <1>4. CASE EndCheck(m)
        BY <1>0, <1>4, OnlyAtOne DEF EndCheck, MarkIfConflict
    <1>5. CASE WindowClosed(m)
        <2>1. UNCHANGED <<pending, task>>
            BY <1>5 DEF WindowClosed
        <2>2. CASE AbortUnconfirmed(m)
            <3>1. PICK codes : row' = [row EXCEPT ![m].report = codes, ![m].result = -1]
                BY <2>2 DEF AbortUnconfirmed
            <3> QED BY <1>0, <2>1, <2>2, <3>1, OnlyAtOne DEF AbortUnconfirmed
        <2>3. CASE /\ handler' = [handler EXCEPT ![m] = Unlocked(@)]
                   /\ UNCHANGED <<row, processed>>
            BY <1>0, <2>1, <2>3, OnlyAtOne
        <2> QED BY <1>5, <2>2, <2>3 DEF WindowClosed
    <1> QED BY <1>1, <1>2, <1>3, <1>4, <1>5 DEF MatchStep

LEMMA DecisionOnly ==
    ASSUME Inv, NEW a \in Admin, NEW m \in Match, NEW d, NEW s, ApplyDecision(a, m, d, s),
           task[a].pc \in Busy => task[a].match = m, UNCHANGED <<handler, pending>>
    PROVE  OnlyAt(m)
    <1>0. DOMAIN row = Match /\ DOMAIN handler = Match
        BY DEF Inv, Shape, RowsOK, HandlersOK
    <1>1. processed' = processed \ {m}
        BY DEF ApplyDecision
    <1>2. PICK r, t : /\ row' = [row EXCEPT ![m] = r] /\ task' = [task EXCEPT ![a] = t]
                      /\ t.pc \in Busy => t.match = m
        <2>1. CASE d = -1
            BY <2>1, IdleShape, NotBusy DEF ApplyDecision
        <2>2. CASE d # -1
            <3>1. PICK t : /\ t = [Command(m, d) EXCEPT !.pc = "applySecond", !.saved = s]
                           /\ task' = [task EXCEPT ![a] = t]
                BY <2>2 DEF ApplyDecision
            <3>2. t.match = m
                <4>1. [Command(m, d) EXCEPT !.pc = "applySecond"] =
                          [pc |-> "applySecond", match |-> m, decision |-> d,
                           saved |-> <<None, None>>]
                    BY CommandIs, StageSet
                <4>2. ASSUME NEW w, w = [pc |-> "applySecond", match |-> m, decision |-> d,
                                         saved |-> <<None, None>>]
                      PROVE  [w EXCEPT !.saved = s].match = m
                    BY <4>2
                <4> QED BY <3>1, <4>1, <4>2
            <3> QED BY <2>2, <3>1, <3>2 DEF ApplyDecision
        <2> QED BY <2>1, <2>2
    <1>3. TaskMovesAt(m)
        BY <1>2 DEF TaskMovesAt
    <1> QED BY <1>0, <1>1, <1>2, <1>3, OnlyAtOne

LEMMA ResolveOnly ==
    ASSUME Inv, NEW a \in Admin, NEW m \in Match, NEW d \in Decision,
           ResolveFresh(a, m, d) \/ ResolveTerminal(a, m, d)
    PROVE  OnlyAt(m)
    <1>0. DOMAIN row = Match /\ DOMAIN handler = Match
        BY DEF Inv, Shape, RowsOK, HandlersOK
    <1>1. task[a].pc \notin Busy /\ UNCHANGED pending
        BY NotBusy DEF ResolveFresh, ResolveTerminal, AdminResolve
    <1>2. ASSUME NEW p, NEW s, task' = [task EXCEPT ![a] = [pc |-> p, match |-> m,
                                                           decision |-> d, saved |-> s]]
          PROVE  TaskMovesAt(m)
        <2>1. PICK t : t = [pc |-> p, match |-> m, decision |-> d, saved |-> s]
            OBVIOUS
        <2>2. task' = [task EXCEPT ![a] = t] /\ t.match = m
            BY <1>2, <2>1
        <2> QED BY <1>1, <2>2 DEF TaskMovesAt
    <1>3. CASE ResolveFresh(a, m, d)
        <2> DEFINE held == [Command(m, d) EXCEPT !.saved = row[m].report]
        <2>0. held = [pc |-> "idle", match |-> m, decision |-> d, saved |-> row[m].report]
            BY CommandIs
        <2>5. /\ UNCHANGED pending
              /\ \/ Handles(m, a, Decided(row[m], d))
                    /\ task' = [task EXCEPT ![a] = [held EXCEPT !.pc = "holding"]]
                 \/ row' = [row EXCEPT ![m].result = d] /\ UNCHANGED <<processed, handler, task>>
                 \/ /\ row' = [row EXCEPT ![m] = Decided(row[m], d)]
                    /\ task' = [task EXCEPT ![a] = [held EXCEPT !.pc = "waiting"]]
                    /\ UNCHANGED <<processed, handler>>
            BY <1>3 DEF ResolveFresh
        <2> HIDE DEF held
        <2>1. CASE /\ Handles(m, a, Decided(row[m], d))
                   /\ task' = [task EXCEPT ![a] = [held EXCEPT !.pc = "holding"]]
            <3>0. [held EXCEPT !.pc = "holding"] =
                      [pc |-> "holding", match |-> m, decision |-> d, saved |-> row[m].report]
                BY <2>0, StageSet
            <3>1. task' = [task EXCEPT ![a] = [pc |-> "holding", match |-> m, decision |-> d,
                                               saved |-> row[m].report]]
                BY <2>1, <3>0
            <3>2. /\ \A k \in Match \ {m} : row'[k] = row[k] /\ handler'[k] = handler[k]
                  /\ processed' \in {processed, processed \cup {m}, processed \ {m}}
                BY <2>1, HandlesOnly
            <3>3. TaskMovesAt(m)
                BY <1>2, <3>1
            <3> QED BY <1>1, <3>2, <3>3, OnlyAtOne
        <2>2. CASE row' = [row EXCEPT ![m].result = d] /\ UNCHANGED <<processed, handler, task>>
            BY <1>0, <1>1, <2>2, OnlyAtOne
        <2>3. CASE /\ row' = [row EXCEPT ![m] = Decided(row[m], d)]
                   /\ task' = [task EXCEPT ![a] = [held EXCEPT !.pc = "waiting"]]
                   /\ UNCHANGED <<processed, handler>>
            <3>0. [held EXCEPT !.pc = "waiting"] =
                      [pc |-> "waiting", match |-> m, decision |-> d, saved |-> row[m].report]
                BY <2>0, StageSet
            <3>1. task' = [task EXCEPT ![a] = [pc |-> "waiting", match |-> m, decision |-> d,
                                               saved |-> row[m].report]]
                BY <2>3, <3>0
            <3>2. TaskMovesAt(m)
                BY <1>2, <3>1
            <3>3. /\ processed' \in {processed, processed \cup {m}, processed \ {m}}
                  /\ \A k \in Match \ {m} : /\ row'[k] = row[k] /\ handler'[k] = handler[k]
                                            /\ pending'[k] = pending[k]
                BY <1>0, <1>1, <2>3
            <3> QED BY <3>2, <3>3, OnlyAtOne
        <2> QED BY <2>1, <2>2, <2>3, <2>5
    <1>4. CASE ResolveTerminal(a, m, d)
        <2>1. UNCHANGED <<handler, pending>>
            BY <1>4 DEF ResolveTerminal
        <2>2. CASE ApplyDecision(a, m, d, row[m].report)
            BY <1>1, <2>1, <2>2, DecisionOnly
        <2>3. CASE /\ task' = [task EXCEPT ![a] = [Command(m, d) EXCEPT
                                  !.pc = "restoreSecond", !.saved = row[m].report]]
                   /\ UNCHANGED <<row, processed>>
            <3>0. [Command(m, d) EXCEPT !.pc = "restoreSecond", !.saved = row[m].report] =
                      [pc |-> "restoreSecond", match |-> m, decision |-> d, saved |-> row[m].report]
                <4>1. [Command(m, d) EXCEPT !.pc = "restoreSecond"] =
                          [pc |-> "restoreSecond", match |-> m, decision |-> d,
                           saved |-> <<None, None>>]
                    BY CommandIs, StageSet
                <4>2. ASSUME NEW w, w = [pc |-> "restoreSecond", match |-> m, decision |-> d,
                                         saved |-> <<None, None>>]
                      PROVE  [w EXCEPT !.saved = row[m].report] =
                                 [pc |-> "restoreSecond", match |-> m, decision |-> d,
                                  saved |-> row[m].report]
                    BY <4>2
                <4> QED BY <4>1, <4>2
            <3>1. task' = [task EXCEPT ![a] = [pc |-> "restoreSecond", match |-> m, decision |-> d,
                                               saved |-> row[m].report]]
                BY <2>3, <3>0
            <3>2. TaskMovesAt(m)
                BY <1>2, <3>1
            <3> QED BY <2>1, <2>3, <3>2, OnlyAtOne
        <2> QED BY <1>4, <2>2, <2>3 DEF ResolveTerminal
    <1> QED BY <1>3, <1>4

LEMMA ResolveStepOnly ==
    ASSUME Inv, NEW a \in Admin, ResolveStep(a), NEW m, m = task[a].match
    PROVE  m \in created /\ m \in Match /\ On(a, m) /\ task[a].decision \in Decision /\ OnlyAt(m)
    <1>1. task[a].pc \in Busy /\ UNCHANGED pending
        BY DEF ResolveStep, FreshCheck, FreshEnds, RestoreSecond, ApplyFirst, ApplySecond,
               TerminalEnds, Busy
    <1>2. m \in created /\ m \in Match /\ On(a, m) /\ task[a].decision \in Decision
        BY <1>1, BusyTask DEF Inv, On
    <1>3. DOMAIN row = Match /\ DOMAIN handler = Match /\ TaskShape(task[a])
        BY DEF Inv, Shape, RowsOK, HandlersOK, TasksOK
    <1>4. ASSUME NEW p \in Busy, task' = [task EXCEPT ![a].pc = p]
          PROVE  TaskMovesAt(m)
        <2> DEFINE t == [task[a] EXCEPT !.pc = p]
        <2>1. task' = [task EXCEPT ![a] = t]
            BY <1>4
        <2>2. t.match = m
            BY <1>1, <1>3, <1>4, NextPc
        <2> HIDE DEF t
        <2> QED BY <2>1, <2>2 DEF TaskMovesAt
    <1>5. ASSUME task' = [task EXCEPT ![a] = Idle]
          PROVE  TaskMovesAt(m)
        BY <1>5, IdleShape, NotBusy DEF TaskMovesAt
    <1>6. ASSUME Closes(a)
          PROVE  /\ task' = [task EXCEPT ![a] = Idle]
                 /\ \A k \in Match \ {m} : row'[k] = row[k]
        BY <1>3, <1>6 DEF Closes
    <1>7. CASE FreshCheck(a)
        <2>1. CASE Handles(m, a, row[m]) /\ task' = [task EXCEPT ![a].pc = "holding"]
            <3>1. "holding" \in Busy
                BY DEF Busy
            <3>2. /\ \A k \in Match \ {m} : row'[k] = row[k] /\ handler'[k] = handler[k]
                  /\ processed' \in {processed, processed \cup {m}, processed \ {m}}
                BY <1>2, <2>1, HandlesOnly
            <3> QED BY <1>1, <1>2, <1>4, <2>1, <3>1, <3>2, OnlyAtOne
        <2>2. CASE Closes(a) /\ UNCHANGED <<processed, handler>>
            BY <1>1, <1>2, <1>5, <1>6, <2>2, OnlyAtOne
        <2> QED BY <1>7, <2>1, <2>2 DEF FreshCheck
    <1>8. CASE FreshEnds(a)
        <2>1. /\ Closes(a) /\ handler' = [handler EXCEPT ![m] = Unlocked(@)]
              /\ processed' \in {processed, processed \cup {m}, processed \ {m}}
            BY <1>8 DEF FreshEnds, MarkIfConflict
        <2>2. \A k \in Match \ {m} : handler'[k] = handler[k]
            BY <1>3, <2>1
        <2> QED BY <1>1, <1>2, <1>5, <1>6, <2>1, <2>2, OnlyAtOne
    <1>9. CASE RestoreSecond(a) \/ ApplySecond(a)
        <2>1. PICK p \in {"restored", "applied"} : task' = [task EXCEPT ![a].pc = p]
            BY <1>9 DEF RestoreSecond, ApplySecond
        <2>2. p \in Busy /\ UNCHANGED <<row, processed, handler>>
            BY <1>9 DEF RestoreSecond, ApplySecond, rowVars, Busy
        <2> QED BY <1>1, <1>2, <1>4, <2>1, <2>2, OnlyAtOne
    <1>10. CASE ApplyFirst(a)
        <2>1. PICK d, s : d = task[a].decision /\ s = task[a].saved
            OBVIOUS
        <2>2. ApplyDecision(a, m, d, s) /\ UNCHANGED <<handler, pending>>
            BY <1>10, <2>1 DEF ApplyFirst
        <2> QED BY <1>2, <2>2, DecisionOnly DEF On
    <1>11. CASE TerminalEnds(a)
        <2>1. PICK r : row' = [row EXCEPT ![m] = r]
            BY <1>11 DEF TerminalEnds
        <2>2. task' = [task EXCEPT ![a] = Idle] /\ UNCHANGED <<processed, handler>>
            BY <1>11 DEF TerminalEnds
        <2> QED BY <1>1, <1>2, <1>3, <1>5, <2>1, <2>2, OnlyAtOne
    <1> QED BY <1>2, <1>7, <1>8, <1>9, <1>10, <1>11 DEF ResolveStep

\* Who is not waiting for a check works with the lock of the match free.
LEMMA LockIsFree ==
    ASSUME Inv, NEW m \in Match, m \notin crossed, NEW a \in Admin, On(a, m),
           task[a].pc # "holding"
    PROVE  handler[m].pc = "free" /\ handler[m].by \notin Admin
    <1>1. /\ \A b \in Admin : On(b, m) => b = a
          /\ handler[m].by # m
        BY Alone
    <1>2. ASSUME handler[m].by \in Admin PROVE FALSE
        <2>1. On(handler[m].by, m) /\ task[handler[m].by].pc = "holding"
            BY <1>2 DEF Inv, HoldersWait, On, Busy
        <2> QED BY <1>1, <1>2, <2>1
    <1>3. handler[m].pc # "free" => handler[m].by = m \/ handler[m].by \in Admin
        BY DEF Inv, Shape, HandlersOK, HandlerShape
    <1> QED BY <1>1, <1>2, <1>3

-----------------------------------------------------------------------------
(* Rows that favour the winner *)

\* The winner gains nothing less than nothing.
RuleIsFair == \A x, y \in Int : Points(x, y, 1) >= 0 /\ Points(x, y, 2) <= 0

\* A row's change favours the row's result, the change on its way to the row
\* too, and no check is left that would put another change over it.
Fair(m) ==
    /\ Rewards(row[m].result, row[m].change)
    /\ pending[m] > 0 /\ m \notin processed => row[m].change = 0
    /\ handler[m].pc \in {"rateSecond", "record"} =>
          row[m].change = 0 /\ Rewards(row[m].result, handler[m].change)

AllFair == \A m \in Match : m \notin crossed => (m \notin reopened => Fair(m))

LEMMA Unmoved ==
    \A result : /\ Rewards(result, 0)
                /\ \A change : result = None /\ Rewards(result, change) => change = 0
    <1>1. None \notin {0, 1, 2}
        BY ActorsAssumption
    <1> QED BY <1>1 DEF Rewards

LEMMA PointsReward ==
    ASSUME RuleIsFair, PointsAreWhole, NEW x \in Int, NEW y \in Int, NEW o \in Outcome
    PROVE  Points(x, y, o) \in Int /\ Rewards(o, Points(x, y, o))
    <1>1. o \in {0, 1, 2}
        BY AdminAssumption
    <1>2. CASE o = 0
        BY <1>2 DEF Rewards, PointsAreWhole
    <1>3. CASE o = 1
        BY <1>3 DEF Rewards, PointsAreWhole, RuleIsFair
    <1>4. CASE o = 2
        BY <1>4 DEF Rewards, PointsAreWhole, RuleIsFair
    <1> QED BY <1>1, <1>2, <1>3, <1>4

LEMMA NewChangeRewards ==
    ASSUME RuleIsFair, PointsAreWhole, NEW m \in Match, RowNumbers(row[m]), NEW d \in Decision
    PROVE  NewChange(m, d) \in Int /\ Rewards(d, NewChange(m, d))
    <1>1. row[m].initial[1] \in Int /\ row[m].initial[2] \in Int
        BY DEF RowNumbers
    <1>2. CASE d = -1
        BY <1>2, Unmoved DEF NewChange
    <1>3. CASE d # -1
        <2>1. d \in Outcome
            BY <1>3 DEF Decision
        <2> QED BY <1>1, <1>3, <2>1, PointsReward DEF NewChange
    <1> QED BY <1>2, <1>3

\* A step at one match keeps the rest fair.
LEMMA FairElsewhere ==
    ASSUME AllFair, NEW here, Marked(here), reopened \subseteq reopened',
           NEW m \in Match, OnlyAt(m),
           m \notin crossed' /\ m \notin reopened' => Fair(m)'
    PROVE  AllFair'
    <1> SUFFICES ASSUME NEW k \in Match, k \notin crossed', k \notin reopened'
                 PROVE  Fair(k)'
        BY DEF AllFair
    <1>1. CASE k # m
        <2>1. Fair(k)
            BY DEF AllFair, Marked
        <2> QED BY <1>1, <2>1 DEF OnlyAt, Fair
    <1> QED BY <1>1

LEMMA FairStays ==
    ASSUME NEW m \in Match, Fair(m),
           row'[m].result = row[m].result, row'[m].change = row[m].change,
           pending'[m] > 0 => pending[m] > 0, m \in processed => m \in processed',
           handler'[m].pc \in {"rateSecond", "record"} =>
               handler[m].pc \in {"rateSecond", "record"} /\ handler'[m].change = handler[m].change
    PROVE  Fair(m)'
    BY DEF Fair

\* An unrated row may take any result.
LEMMA FairUnrated ==
    ASSUME NEW m \in Match, row'[m].change = 0,
           handler'[m].pc \notin {"rateSecond", "record"}
    PROVE  Fair(m)'
    BY Unmoved DEF Fair

LEMMA FieldsSet ==
    ASSUME NEW r, RowShape(r)
    PROVE  /\ \A x : /\ [r EXCEPT !.result = x].result = x
                     /\ [r EXCEPT !.result = x].change = r.change
                     /\ [r EXCEPT !.result = x].report = r.report
                     /\ [r EXCEPT !.report = x].result = r.result
                     /\ [r EXCEPT !.report = x].change = r.change
                     /\ [r EXCEPT !.report = x].report = x
                     /\ [r EXCEPT !.report = x].initial = r.initial
                     /\ [r EXCEPT !.result = x].initial = r.initial
                     /\ DOMAIN [r EXCEPT !.report = x] = DOMAIN r
                     /\ DOMAIN [r EXCEPT !.result = x] = DOMAIN r
           /\ \A x, y : /\ [r EXCEPT !.report = x, !.result = y].result = y
                        /\ [r EXCEPT !.report = x, !.result = y].change = r.change
                        /\ [r EXCEPT !.report = x, !.result = y].initial = r.initial
    BY DEF RowShape

LEMMA DecidedKeeps ==
    ASSUME NEW r, RowShape(r), NEW d
    PROVE  /\ Decided(r, d).change = r.change /\ Decided(r, d).initial = r.initial
           /\ [Decided(r, d) EXCEPT !.change = 0].change = 0
           /\ [Decided(r, d) EXCEPT !.change = 0].initial = r.initial
           /\ \A s : /\ [[Decided(r, d) EXCEPT !.change = 0] EXCEPT !.report = s].change = 0
                     /\ [[Decided(r, d) EXCEPT !.change = 0] EXCEPT !.report = s].initial = r.initial
    BY DEF Decided, RowShape

\* A check, of a match that no change was put into, keeps it fair.
LEMMA HandlesFair ==
    ASSUME RuleIsFair, PointsAreWhole, Inv, Numbers, NEW m \in Match, NEW by,
           NEW r, RowShape(r), r.change = 0, Handles(m, by, r)
    PROVE  Fair(m)'
    <1>0. DOMAIN row = Match /\ DOMAIN handler = Match
        BY DEF Inv, Shape, RowsOK, HandlersOK
    <1>1. CASE CheckAborts(m, by, r) \/ CheckConflicts(m, by, r)
        <2>1. /\ row'[m] = r
              /\ \E s \in {"telling", "conflict"} :
                    handler'[m] = [FreeLock EXCEPT !.by = by, !.pc = s]
            BY <1>0, <1>1 DEF CheckAborts, CheckConflicts
        <2>2. \A s : [FreeLock EXCEPT !.by = by, !.pc = s].pc = s
            BY DEF FreeLock
        <2> QED BY <2>1, <2>2, FairUnrated
    <1>2. CASE CheckCompletes(m, by, r)
        <2>1. PICK gain, x, y :
                 /\ gain = Points(mmr[Sides[m][1]], mmr[Sides[m][2]], r.report[1])
                 /\ row' = [row EXCEPT ![m] = [r EXCEPT !.result = r.report[1]]]
                 /\ handler' = [handler EXCEPT ![m] =
                       [by |-> by, pc |-> "rateSecond", second |-> x,
                        played |-> y, change |-> gain]]
            BY <1>2 DEF CheckCompletes
        <2>2. r.report[1] \in Outcome
            BY <1>2, ResultIsReported DEF CheckCompletes, Rateable
        <2>3. mmr[Sides[m][1]] \in Int /\ mmr[Sides[m][2]] \in Int
            BY TheSides DEF Numbers, PlayersOK
        <2>4. Rewards(r.report[1], gain)
            BY <2>1, <2>2, <2>3, PointsReward
        <2>5. row'[m].result = r.report[1] /\ row'[m].change = 0 /\ handler'[m].change = gain
            BY <1>0, <2>1 DEF RowShape
        <2> QED BY <2>4, <2>5, Unmoved DEF Fair
    <1> QED BY <1>1, <1>2 DEF Handles

LEMMA PlayersFair ==
    ASSUME Inv, AllFair, Marked({}), PlayerStep
    PROVE  AllFair'
    <1>0. /\ DOMAIN row = Match /\ DOMAIN handler = Match /\ pending \in [Match -> Nat]
          /\ \A m \in Match : RowShape(row[m])
        BY DEF Inv, Shape, RowsOK, HandlersOK, MarksOK
    <1>1. ASSUME NEW p \in Player, JoinQueue(p) PROVE AllFair'
        BY <1>1 DEF JoinQueue, rowVars, ghostVars, AllFair, Fair, Marked
    <1>2. ASSUME NEW m \in Match, NEW i \in {1, 2},
                 CreateMatch(m) \/ CloseWindow(m) \/ AbortMatch(m, i)
                     \/ \E v \in Outcome : RecordReport(m, i, v)
          PROVE  AllFair'
        <2>1. OnlyAt(m)
            BY <1>2, PlayersOnly
        <2>2. UNCHANGED reopened
            BY <1>2 DEF CreateMatch, CloseWindow, AbortMatch, RecordReport, ghostVars
        <2> SUFFICES ASSUME m \notin crossed', m \notin reopened' PROVE Fair(m)'
            BY <2>1, <2>2, FairElsewhere
        <2>3. Fair(m)
            BY <2>2 DEF AllFair, Marked
        <2>4. CASE CreateMatch(m)
            <3>1. UNCHANGED <<processed, pending, handler>>
                BY <2>4 DEF CreateMatch
            <3>2. PICK x : row' = [row EXCEPT ![m] = [row[m] EXCEPT !.initial = x]]
                BY <2>4 DEF CreateMatch
            <3>3. row'[m].result = row[m].result /\ row'[m].change = row[m].change
                BY <1>0, <3>2 DEF RowShape
            <3> QED BY <2>3, <3>1, <3>3, FairStays
        <2>5. CASE CloseWindow(m)
            <3>1. /\ handler' = [handler EXCEPT ![m] = [FreeLock EXCEPT !.by = m, !.pc = "window"]]
                  /\ UNCHANGED <<row, processed, pending>>
                BY <2>5 DEF CloseWindow
            <3>2. handler'[m].pc = "window"
                BY <1>0, <3>1 DEF FreeLock
            <3> QED BY <2>3, <3>1, <3>2, FairStays
        <2>6. CASE AbortMatch(m, i)
            <3>1. /\ row[m].result = None /\ handler[m].pc = "free" /\ UNCHANGED handler
                BY <2>6 DEF AbortMatch, Accepts
            <3>2. PICK codes : row' = [row EXCEPT ![m].report = codes, ![m].result = -1]
                BY <2>6 DEF AbortMatch
            <3>3. row[m].change = 0
                BY <2>3, <3>1, Unmoved DEF Fair
            <3>4. row'[m].change = row[m].change
                BY <1>0, <3>2 DEF RowShape
            <3> QED BY <3>1, <3>3, <3>4, FairUnrated
        <2>7. ASSUME NEW v \in Outcome, RecordReport(m, i, v) PROVE Fair(m)'
            <3>1. /\ row[m].result = None /\ handler[m].pc = "free" /\ UNCHANGED handler
                BY <2>7 DEF RecordReport, Accepts
            <3>2. row' = [row EXCEPT ![m].report[i] = v]
                BY <2>7 DEF RecordReport
            <3>3. row[m].change = 0
                BY <2>3, <3>1, Unmoved DEF Fair
            <3>4. row'[m].change = row[m].change
                BY <1>0, <3>2 DEF RowShape
            <3> QED BY <3>1, <3>3, <3>4, FairUnrated
        <2> QED BY <1>2, <2>4, <2>5, <2>6, <2>7
    <1> QED BY <1>1, <1>2 DEF PlayerStep

LEMMA MatchStepFair ==
    ASSUME RuleIsFair, PointsAreWhole, Inv, Numbers, AllFair, Marked({}),
           NEW m \in Match, MatchStep(m)
    PROVE  AllFair'
    <1>0. /\ DOMAIN row = Match /\ DOMAIN handler = Match /\ pending \in [Match -> Nat]
          /\ RowShape(row[m]) /\ HandlerShape(handler[m], m)
        BY DEF Inv, Shape, RowsOK, HandlersOK, MarksOK
    <1>1. OnlyAt(m)
        BY MatchStepOnly
    <1>2. UNCHANGED reopened
        BY DEF MatchStep, ReportCheck, RateSecond, Complete, EndCheck, WindowClosed, ghostVars
    <1> SUFFICES ASSUME m \notin crossed', m \notin reopened' PROVE Fair(m)'
        BY <1>1, <1>2, FairElsewhere
    <1>3. Fair(m)
        BY <1>2 DEF AllFair, Marked
    <1>4. CASE ReportCheck(m)
        <2>1. pending[m] > 0 /\ pending' = [pending EXCEPT ![m] = @ - 1]
            BY <1>4 DEF ReportCheck
        <2>2. CASE Handles(m, m, row[m])
            <3>1. m \notin processed
                BY <2>2 DEF Handles, CheckAborts, CheckCompletes, CheckConflicts, Rateable
            <3>2. row[m].change = 0
                BY <1>3, <2>1, <3>1 DEF Fair
            <3> QED BY <1>0, <2>2, <3>2, HandlesFair
        <2>3. CASE UNCHANGED <<row, processed, handler>>
            BY <1>3, <2>1, <2>3, FairStays
        <2> QED BY <1>4, <2>2, <2>3 DEF ReportCheck
    <1>5. CASE RateSecond(m)
        <2>1. /\ handler[m].pc = "rateSecond" /\ handler' = [handler EXCEPT ![m].pc = "record"]
              /\ UNCHANGED <<row, processed, pending>>
            BY <1>5 DEF RateSecond, rowVars
        <2>2. handler'[m].change = handler[m].change
            BY <1>0, <2>1 DEF HandlerShape
        <2> QED BY <1>3, <2>1, <2>2, FairStays
    <1>6. CASE Complete(m)
        <2>1. /\ handler[m].pc = "record" /\ handler' = [handler EXCEPT ![m].pc = "telling"]
              /\ row' = [row EXCEPT ![m].change = handler[m].change]
              /\ m \in processed' /\ UNCHANGED pending
            BY <1>6 DEF Complete
        <2>2. /\ row'[m].result = row[m].result /\ row'[m].change = handler[m].change
              /\ handler'[m].pc = "telling"
            BY <1>0, <2>1 DEF RowShape, HandlerShape
        <2> QED BY <1>3, <2>1, <2>2 DEF Fair
    <1>7. CASE EndCheck(m)
        <2>1. /\ handler' = [handler EXCEPT ![m] = FreeLock]
              /\ processed \subseteq processed' /\ UNCHANGED <<row, pending>>
            BY <1>7 DEF EndCheck, MarkIfConflict, Unlocked
        <2>2. handler'[m].pc = "free"
            BY <1>0, <2>1, FreeShape
        <2> QED BY <1>3, <2>1, <2>2, FairStays
    <1>8. CASE WindowClosed(m)
        <2>1. CASE AbortUnconfirmed(m)
            <3>1. /\ row[m].result = None
                  /\ handler' = [handler EXCEPT ![m].pc = "telling"]
                BY <2>1 DEF AbortUnconfirmed
            <3>2. PICK codes : row' = [row EXCEPT ![m].report = codes, ![m].result = -1]
                BY <2>1 DEF AbortUnconfirmed
            <3>3. row[m].change = 0
                BY <1>3, <3>1, Unmoved DEF Fair
            <3>4. row'[m].change = row[m].change /\ handler'[m].pc = "telling"
                BY <1>0, <3>1, <3>2 DEF RowShape, HandlerShape
            <3> QED BY <3>3, <3>4, FairUnrated
        <2>2. CASE /\ handler' = [handler EXCEPT ![m] = Unlocked(@)]
                   /\ UNCHANGED <<row, processed>>
            <3>1. UNCHANGED pending
                BY <1>8 DEF WindowClosed
            <3>2. handler'[m].pc = "free"
                BY <1>0, <2>2, FreeShape
            <3> QED BY <1>3, <2>2, <3>1, <3>2, FairStays
        <2> QED BY <1>8, <2>1, <2>2 DEF WindowClosed
    <1> QED BY <1>4, <1>5, <1>6, <1>7, <1>8 DEF MatchStep

\* What the decision leaves in the row and, unless it invalidates the match, does.
LEMMA DecisionDoes ==
    ASSUME Inv, NEW a \in Admin, NEW m \in Match, NEW d, NEW s, ApplyDecision(a, m, d, s)
    PROVE  /\ row'[m].change = 0 /\ row'[m].initial = row[m].initial
           /\ d = -1 => UNCHANGED mmr /\ task' = [task EXCEPT ![a] = Idle]
           /\ d # -1 =>
                 /\ mmr' = [mmr EXCEPT ![Sides[m][1]] = row[m].initial[1] + NewChange(m, d)]
                 /\ \E t : /\ task' = [task EXCEPT ![a] = t]
                           /\ t.pc = "applySecond" /\ t.match = m /\ t.decision = d
    <1>0. DOMAIN row = Match /\ RowShape(row[m])
        BY DEF Inv, Shape, RowsOK
    <1>1. CASE d = -1
        <2>1. row' = [row EXCEPT ![m] = [[Decided(row[m], d) EXCEPT !.change = 0]
                                            EXCEPT !.report = s]]
            BY <1>1 DEF ApplyDecision
        <2>2. row'[m] = [[Decided(row[m], d) EXCEPT !.change = 0] EXCEPT !.report = s]
            BY <1>0, <2>1
        <2>3. row'[m].change = 0 /\ row'[m].initial = row[m].initial
            BY <1>0, <2>2, DecidedKeeps
        <2> QED BY <1>1, <2>3 DEF ApplyDecision
    <1>2. CASE d # -1
        <2>1. row' = [row EXCEPT ![m] = [Decided(row[m], d) EXCEPT !.change = 0]]
            BY <1>2 DEF ApplyDecision
        <2>2. row'[m] = [Decided(row[m], d) EXCEPT !.change = 0]
            BY <1>0, <2>1
        <2>3. row'[m].change = 0 /\ row'[m].initial = row[m].initial
            BY <1>0, <2>2, DecidedKeeps
        <2>4. PICK t : /\ t = [Command(m, d) EXCEPT !.pc = "applySecond", !.saved = s]
                       /\ task' = [task EXCEPT ![a] = t]
            BY <1>2 DEF ApplyDecision
        <2>5. t.pc = "applySecond" /\ t.match = m /\ t.decision = d
            <3>1. [Command(m, d) EXCEPT !.pc = "applySecond"] =
                      [pc |-> "applySecond", match |-> m, decision |-> d, saved |-> <<None, None>>]
                BY CommandIs, StageSet
            <3>2. ASSUME NEW w, w = [pc |-> "applySecond", match |-> m, decision |-> d,
                                     saved |-> <<None, None>>]
                  PROVE  /\ [w EXCEPT !.saved = s].match = m
                         /\ [w EXCEPT !.saved = s].pc = "applySecond"
                         /\ [w EXCEPT !.saved = s].decision = d
                BY <3>2
            <3> QED BY <2>4, <3>1, <3>2
        <2> QED BY <1>2, <2>3, <2>4, <2>5 DEF ApplyDecision
    <1> QED BY <1>1, <1>2

LEMMA DecideFair ==
    ASSUME RuleIsFair, PointsAreWhole, Inv, Numbers, AllFair, NEW a \in Admin, NEW m \in Match,
           NEW d \in Decision, ResolveFresh(a, m, d) \/ ResolveTerminal(a, m, d),
           Marked(IF Quiet(m) THEN {} ELSE {m})
    PROVE  AllFair'
    <1>0. /\ DOMAIN row = Match /\ DOMAIN handler = Match /\ RowShape(row[m])
        BY DEF Inv, Shape, RowsOK, HandlersOK
    <1>1. OnlyAt(m)
        BY ResolveOnly
    <1>2. reopened \subseteq reopened'
        BY DEF ResolveFresh, ResolveTerminal
    <1> SUFFICES ASSUME m \notin crossed', m \notin reopened' PROVE Fair(m)'
        BY <1>1, <1>2, FairElsewhere
    <1>3. Fair(m) /\ m \notin crossed /\ Quiet(m)
        BY <1>2 DEF AllFair, Marked
    <1>4. handler[m].pc = "free"
        BY <1>3, HeldIsBusy
    <1>5. CASE ResolveFresh(a, m, d)
        <2>1. row[m].result = None
            BY <1>5 DEF ResolveFresh
        <2>2. row[m].change = 0
            BY <1>3, <2>1, Unmoved DEF Fair
        <2>3. CASE Handles(m, a, Decided(row[m], d))
            <3>1. RowShape(Decided(row[m], d)) /\ Decided(row[m], d).change = 0
                BY <1>0, <2>2, DecidedShape, DecidedKeeps
            <3> QED BY <2>3, <3>1, HandlesFair
        <2>4. CASE row' = [row EXCEPT ![m].result = d] /\ UNCHANGED handler
            <3>1. row'[m].change = 0
                BY <1>0, <2>2, <2>4 DEF RowShape
            <3> QED BY <1>4, <2>4, <3>1, FairUnrated
        <2> QED BY <1>4, <1>5, <2>3, <2>4 DEF ResolveFresh
    <1>6. CASE ResolveTerminal(a, m, d)
        <2>1. UNCHANGED <<handler, pending>>
            BY <1>6 DEF ResolveTerminal
        <2>2. CASE ApplyDecision(a, m, d, row[m].report)
            <3>1. row'[m].change = 0
                BY <2>2, DecisionDoes
            <3> QED BY <1>4, <2>1, <3>1, FairUnrated
        <2>3. CASE UNCHANGED <<row, processed>>
            BY <1>3, <2>1, <2>3, FairStays
        <2> QED BY <1>6, <2>2, <2>3 DEF ResolveTerminal
    <1> QED BY <1>5, <1>6

LEMMA ResolveStepFair ==
    ASSUME RuleIsFair, PointsAreWhole, Inv, Numbers, AllFair, NEW a \in Admin, ResolveStep(a),
           Marked({})
    PROVE  AllFair'
    <1>1. PICK m : m = task[a].match
        OBVIOUS
    <1>2. m \in Match /\ On(a, m) /\ task[a].decision \in Decision /\ OnlyAt(m)
        BY <1>1, ResolveStepOnly
    <1>3. /\ DOMAIN row = Match /\ DOMAIN handler = Match /\ RowShape(row[m])
          /\ RowNumbers(row[m])
        BY <1>2 DEF Inv, Shape, RowsOK, HandlersOK, Numbers, RatedRows
    <1>4. UNCHANGED reopened
        BY DEF ResolveStep, FreshCheck, FreshEnds, RestoreSecond, ApplyFirst, ApplySecond,
               TerminalEnds, ghostVars
    <1> SUFFICES ASSUME m \notin crossed', m \notin reopened' PROVE Fair(m)'
        BY <1>2, <1>4, FairElsewhere
    <1>5. Fair(m) /\ m \notin crossed
        BY <1>2, <1>4 DEF AllFair, Marked
    <1>6. task[a].pc # "waiting" /\ pending[m] = 0
        BY <1>2, <1>5, Alone
    <1>7. task[a].pc # "holding" => handler[m].pc = "free"
        BY <1>2, <1>5, LockIsFree
    <1>8. ~FreshCheck(a)
        BY <1>6 DEF FreshCheck
    <1>9. CASE FreshEnds(a)
        <2>1. /\ handler' = [handler EXCEPT ![m] = FreeLock]
              /\ processed \subseteq processed' /\ UNCHANGED pending
              /\ row' = [row EXCEPT ![m].report = task[a].saved]
            BY <1>1, <1>9 DEF FreshEnds, MarkIfConflict, Unlocked, Closes, OriginalReports
        <2>2. /\ row'[m].result = row[m].result /\ row'[m].change = row[m].change
              /\ handler'[m].pc = "free"
            BY <1>2, <1>3, <2>1, FreeShape DEF RowShape
        <2> QED BY <1>2, <1>5, <2>1, <2>2, FairStays
    <1>10. CASE RestoreSecond(a) \/ ApplySecond(a)
        <2>1. UNCHANGED <<row, processed, pending, handler>>
            BY <1>10 DEF RestoreSecond, ApplySecond, rowVars
        <2> QED BY <1>2, <1>5, <2>1, FairStays
    <1>11. CASE ApplyFirst(a)
        <2>1. PICK d, s : d = task[a].decision /\ s = task[a].saved
            OBVIOUS
        <2>2. ApplyDecision(a, m, d, s) /\ UNCHANGED handler /\ task[a].pc = "restored"
            BY <1>1, <1>11, <2>1 DEF ApplyFirst
        <2>3. row'[m].change = 0
            BY <1>2, <2>2, DecisionDoes
        <2> QED BY <1>2, <1>7, <2>2, <2>3, FairUnrated
    <1>12. CASE TerminalEnds(a)
        <2>1. PICK x, d, s : x = NewChange(m, d) /\ d = task[a].decision /\ s = task[a].saved
            OBVIOUS
        <2>2. /\ row' = [row EXCEPT ![m] = [row[m] EXCEPT !.result = d, !.report = s, !.change = x]]
              /\ UNCHANGED <<handler, pending>> /\ task[a].pc = "applied"
            BY <1>1, <1>12, <2>1 DEF TerminalEnds, FinalRow, OriginalReports
        <2>3. row'[m].result = d /\ row'[m].change = x
            BY <1>2, <1>3, <2>2 DEF RowShape
        <2>4. Rewards(d, x)
            BY <1>2, <1>3, <2>1, NewChangeRewards
        <2> QED BY <1>6, <1>7, <2>2, <2>3, <2>4 DEF Fair
    <1> QED BY <1>8, <1>9, <1>10, <1>11, <1>12 DEF ResolveStep

LEMMA NextFair ==
    ASSUME RuleIsFair, PointsAreWhole, Inv, Numbers, AllFair, [Next]_vars
    PROVE  AllFair'
    <1>1. CASE UNCHANGED vars
        BY <1>1 DEF vars, rowVars, ghostVars, AllFair, Fair
    <1>2. CASE PlayerStep
        BY <1>2, PlayersFair, CrossingMarks DEF PlayerStep
    <1>3. ASSUME NEW m \in Match, MatchStep(m) PROVE AllFair'
        BY <1>3, MatchStepFair, CrossingMarks DEF MatchStep
    <1>4. ASSUME NEW a \in Admin, AdminStep(a) PROVE AllFair'
        <2>1. ASSUME NEW m \in Match, NEW d \in Decision, ResolveMatchConflict(a, m, d)
              PROVE  AllFair'
            BY <2>1, DecideFair, CrossingMarks DEF ResolveMatchConflict
        <2>2. ASSUME NEW p \in Player, NEW c \in Adjustment, AdjustPlayerMMR(a, p, c),
                     Crossing(AtWorkOn(p))
              PROVE  AllFair'
            BY <2>2, CrossingMarks DEF AdjustPlayerMMR, rowVars, AllFair, Fair, Marked
        <2> QED BY <1>4, <2>1, <2>2 DEF AdminStep
    <1>5. ASSUME NEW a \in Admin, ResolveStep(a) PROVE AllFair'
        BY <1>5, ResolveStepFair, CrossingMarks DEF ResolveStep
    <1> QED BY <1>1, <1>2, <1>3, <1>4, <1>5 DEF Next

-----------------------------------------------------------------------------
(* Ratings that follow the rows *)

\* The stages of an admin between the first rating taken back or given and the
\* row that records it, ...
Rating == {"restoreSecond", "restored", "applySecond", "applied"}

\* ... and the matches that one player's rating knows more of than the other's.
Midway(m) ==
    \/ handler[m].pc = "rateSecond"
    \/ \E a \in Admin : On(a, m) /\ task[a].pc \in {"restoreSecond", "restored", "applySecond"}

Apart ==
    \A m, k \in Match : m # k /\ Midway(m) /\ Midway(k) => PlayersOf(m) \cap PlayersOf(k) = {}

\* What a match moved the players by: x on side 1, y on side 2.
Part(m, x, y) ==
    [p \in Player |-> IF p = Sides[m][1] THEN x ELSE IF p = Sides[m][2] THEN y ELSE 0]

AtRest(m) ==
    /\ handler[m].pc \notin {"rateSecond", "record"}
    /\ \A a \in Admin : On(a, m) => task[a].pc \notin Rating

\* At every stage of a check or a resolution of m the players of m were moved by c.
Accounts(m, c) ==
    /\ AtRest(m) => c = Part(m, row[m].change, -row[m].change)
    /\ handler[m].pc = "rateSecond" =>
          /\ c = Part(m, handler[m].change, 0)
          /\ handler[m].second = mmr[Sides[m][2]] - handler[m].change
    /\ handler[m].pc = "record" => c = Part(m, handler[m].change, -handler[m].change)
    /\ \A a \in Admin : On(a, m) =>
          /\ task[a].pc = "restoreSecond" =>
                /\ c = Part(m, 0, -row[m].change)
                /\ mmr[Sides[m][1]] = row[m].initial[1]
                /\ mmr[Sides[m][2]] = row[m].initial[2] - row[m].change
          /\ task[a].pc = "restored" =>
                /\ c = Part(m, 0, 0)
                /\ mmr[Sides[m][1]] = row[m].initial[1]
                /\ mmr[Sides[m][2]] = row[m].initial[2]
          /\ task[a].pc = "applySecond" =>
                /\ c = Part(m, NewChange(m, task[a].decision), 0)
                /\ mmr[Sides[m][2]] = row[m].initial[2]
          /\ task[a].pc = "applied" =>
                c = Part(m, NewChange(m, task[a].decision), -NewChange(m, task[a].decision))

\* e tells what each match moved each player by, and every rating is made of it.
Balanced(e) ==
    /\ e \in [Match -> [Player -> Int]]
    /\ adjusted \in [Player -> Int]
    /\ \A p \in Player : mmr[p] = StartMMR + SumFunction([m \in Match |-> e[m][p]]) + adjusted[p]
    /\ \A m \in Match : Accounts(m, e[m])
    /\ \A m \in Match \ created : row[m].change = 0

Clean == crossed = {} /\ stale = {} /\ reopened = {}
Ledger ==
    /\ created = 1 .. Cardinality(created)
    /\ crossed = {} => Apart
    /\ Clean => \E e : Balanced(e)

LEMMA MatchIsFinite == IsFiniteSet(Match)
    <1>1. 1 \in Int /\ MaxMatch \in Int
        BY AdminAssumption
    <1> QED BY <1>1, FS_Interval DEF Match

LEMMA SidesDiffer ==
    ASSUME NEW m \in Match
    PROVE  Sides[m][1] # Sides[m][2] /\ Sides[m][1] \in Player /\ Sides[m][2] \in Player
    BY AdminAssumption, TheSides

LEMMA CrossingApart ==
    ASSUME NEW here, Crossing(here), crossed' = {}
    PROVE  Apart'
    <1> SUFFICES ASSUME NEW m \in Match, NEW k \in Match, m # k, Midway(m)', Midway(k)',
                        NEW p, p \in PlayersOf(m), p \in PlayersOf(k)
                 PROVE  FALSE
        BY DEF Apart
    <1>1. IsFiniteSet(RatersOf(p)')
        <2>1. RatersOf(p)' \subseteq Admin \cup Match
            BY DEF RatersOf
        <2>2. IsFiniteSet(Admin \cup Match)
            BY MatchIsFinite, ActorsAssumption, FS_Union
        <2> QED BY <2>1, <2>2, FS_Subset
    <1>2. ~(Cardinality(RatersOf(p)') > 1)
        BY DEF Crossing
    <1>3. \A x, y \in RatersOf(p)' : x = y
        BY <1>1, <1>2, AtMostOne
    <1>4. ASSUME NEW j \in Match, Midway(j)', p \in PlayersOf(j)
          PROVE  \E w \in RatersOf(p)' : w = j \/ (w \in Admin /\ task'[w].match = j)
        <2>1. CASE handler'[j].pc = "rateSecond"
            BY <1>4, <2>1 DEF RatersOf
        <2>2. CASE \E a \in Admin : On(a, j)' /\ task'[a].pc \in {"restoreSecond", "restored", "applySecond"}
            BY <1>4, <2>2 DEF RatersOf, On
        <2> QED BY <1>4, <2>1, <2>2 DEF Midway
    <1>5. PICK w \in RatersOf(p)' : w = m \/ (w \in Admin /\ task'[w].match = m)
        BY <1>4
    <1>6. PICK v \in RatersOf(p)' : v = k \/ (v \in Admin /\ task'[v].match = k)
        BY <1>4
    <1>7. w = v
        BY <1>3
    <1> QED BY <1>5, <1>6, <1>7, ActorsAssumption

LEMMA MidwayElsewhere ==
    ASSUME NEW m \in Match, OnlyAt(m), NEW k \in Match, k # m, Midway(k)
    PROVE  Midway(k)'
    BY DEF OnlyAt, Midway

\* The players of a match midway are in no other match midway.
LEMMA NobodyElse ==
    ASSUME NEW m \in Match, OnlyAt(m), (Apart /\ Midway(m)) \/ (Apart' /\ Midway(m)'),
           NEW k \in Match, k # m, Midway(k)
    PROVE  \A p \in PlayersOf(k) : p \notin PlayersOf(m)
    <1>1. CASE Apart /\ Midway(m)
        BY <1>1 DEF Apart
    <1>2. CASE Apart' /\ Midway(m)'
        <2>1. Midway(k)'
            BY MidwayElsewhere
        <2> QED BY <1>2, <2>1 DEF Apart
    <1> QED BY <1>1, <1>2

LEMMA AccountsElsewhere ==
    ASSUME NEW m \in Match, OnlyAt(m), NEW k \in Match, k # m, NEW c, Accounts(k, c),
           Midway(k) => /\ mmr'[Sides[k][1]] = mmr[Sides[k][1]]
                        /\ mmr'[Sides[k][2]] = mmr[Sides[k][2]]
    PROVE  Accounts(k, c)'
    <1>1. /\ row'[k] = row[k] /\ handler'[k] = handler[k]
          /\ \A a \in Admin : (On(a, k)' <=> On(a, k)) /\ (On(a, k) => task'[a] = task[a])
        BY DEF OnlyAt
    <1>2. \A d : NewChange(k, d)' = NewChange(k, d)
        BY <1>1 DEF NewChange
    <1>3. AtRest(k)' => AtRest(k)
        BY <1>1 DEF AtRest
    <1>4. handler[k].pc = "rateSecond" => Midway(k)
        BY DEF Midway
    <1>5. ASSUME NEW a \in Admin, On(a, k)'
          PROVE  /\ On(a, k) /\ task'[a] = task[a]
                 /\ task[a].pc \in {"restoreSecond", "restored", "applySecond"} => Midway(k)
        BY <1>1, <1>5 DEF Midway
    <1> QED BY <1>1, <1>2, <1>3, <1>4, <1>5 DEF Accounts

LEMMA AccountsStay ==
    ASSUME NEW m \in Match, NEW c, Accounts(m, c), UNCHANGED mmr,
           row'[m].change = row[m].change, row'[m].initial = row[m].initial,
           \/ handler'[m] = handler[m]
           \/ /\ handler'[m].pc \notin {"rateSecond", "record"}
              /\ handler[m].pc \notin {"rateSecond", "record"},
           \A a \in Admin : task[a].pc \in Rating \/ task'[a].pc \in Rating => task'[a] = task[a]
    PROVE  Accounts(m, c)'
    <1>1. \A d : NewChange(m, d)' = NewChange(m, d)
        BY DEF NewChange
    <1>2. \A a \in Admin : On(a, m)' /\ task'[a].pc \in Rating => On(a, m) /\ task'[a] = task[a]
        BY DEF On
    <1>3. \A a \in Admin : On(a, m) /\ task[a].pc \in Rating => On(a, m)' /\ task'[a] = task[a]
        BY DEF On
    <1>4. AtRest(m)' => AtRest(m)
        BY <1>3 DEF AtRest
    <1>5. /\ "restoreSecond" \in Rating /\ "restored" \in Rating
          /\ "applySecond" \in Rating /\ "applied" \in Rating
        BY DEF Rating
    <1> QED BY <1>1, <1>2, <1>4, <1>5 DEF Accounts

LEMMA RestAccounts ==
    ASSUME NEW m \in Match, NEW c, AtRest(m)',
           c = Part(m, row'[m].change, -row'[m].change)
    PROVE  Accounts(m, c)'
    <1>1. /\ "restoreSecond" \in Rating /\ "restored" \in Rating
          /\ "applySecond" \in Rating /\ "applied" \in Rating
        BY DEF Rating
    <1> QED BY <1>1 DEF Accounts, AtRest

\* A step that rates nobody.
LEMMA LedgerStays ==
    ASSUME NEW m \in Match, OnlyAt(m), UNCHANGED <<mmr, adjusted>>, created \subseteq created',
           NEW e, Balanced(e), Accounts(m, e[m])', m \notin created' => row'[m].change = 0
    PROVE  Balanced(e)'
    <1>1. ASSUME NEW k \in Match PROVE Accounts(k, e[k])'
        <2>1. CASE k = m
            BY <2>1
        <2>2. CASE k # m
            BY <2>2, AccountsElsewhere DEF Balanced
        <2> QED BY <2>1, <2>2
    <1>2. \A k \in Match \ created' : row'[k].change = 0
        BY DEF Balanced, OnlyAt
    <1> QED BY <1>1, <1>2 DEF Balanced

\* A step that moves the players of m from x0 and y0 to x and y.
LEMMA LedgerMoves ==
    ASSUME PlayersOK, PlayersOK', NEW m \in Match, OnlyAt(m),
           (Apart /\ Midway(m)) \/ (Apart' /\ Midway(m)'),
           UNCHANGED adjusted, created \subseteq created', m \in created',
           NEW e, Balanced(e),
           NEW x0 \in Int, NEW y0 \in Int, e[m] = Part(m, x0, y0),
           NEW x \in Int, NEW y \in Int, Accounts(m, Part(m, x, y))',
           mmr'[Sides[m][1]] = mmr[Sides[m][1]] + x - x0,
           mmr'[Sides[m][2]] = mmr[Sides[m][2]] + y - y0,
           \A p \in Player : p \notin PlayersOf(m) => mmr'[p] = mmr[p]
    PROVE  \E f : Balanced(f)'
    <1> DEFINE d == Part(m, x, y)
               f == [e EXCEPT ![m] = d]
    <1>1. d \in [Player -> Int]
        BY DEF Part
    <1>2. f \in [Match -> [Player -> Int]] /\ f[m] = d /\ \A k \in Match \ {m} : f[k] = e[k]
        BY <1>1 DEF Balanced
    <1> HIDE DEF f
    <1>3. ASSUME NEW k \in Match PROVE Accounts(k, f[k])'
        <2>1. CASE k = m
            BY <1>2, <2>1
        <2>2. CASE k # m
            <3>1. Midway(k) => /\ mmr'[Sides[k][1]] = mmr[Sides[k][1]]
                               /\ mmr'[Sides[k][2]] = mmr[Sides[k][2]]
                <4>1. Midway(k) => \A p \in PlayersOf(k) : p \notin PlayersOf(m)
                    BY <2>2, NobodyElse
                <4> QED BY <4>1, SidesDiffer DEF PlayersOf
            <3>2. Accounts(k, e[k])
                BY DEF Balanced
            <3>3. Accounts(k, e[k])'
                BY <2>2, <3>1, <3>2, AccountsElsewhere
            <3> QED BY <1>2, <2>2, <3>3
        <2> QED BY <2>1, <2>2
    <1>4. ASSUME NEW p \in Player PROVE mmr'[p] = mmr[p] + d[p] - e[m][p]
        <2>1. mmr[p] \in Int /\ mmr'[p] \in Int
            BY DEF PlayersOK
        <2>2. CASE p = Sides[m][1]
            BY <2>1, <2>2 DEF Part
        <2>3. CASE p # Sides[m][1] /\ p = Sides[m][2]
            BY <2>1, <2>3 DEF Part
        <2>4. CASE p # Sides[m][1] /\ p # Sides[m][2]
            <3>1. mmr'[p] = mmr[p]
                BY <2>4 DEF PlayersOf
            <3>2. d[p] = 0 /\ e[m][p] = 0
                BY <2>4 DEF Part
            <3> QED BY <2>1, <3>1, <3>2
        <2> QED BY <2>2, <2>3, <2>4
    <1>5. ASSUME NEW p \in Player
          PROVE  mmr'[p] = StartMMR + SumFunction([k \in Match |-> f[k][p]]) + adjusted'[p]
        <2>1. PICK g, h : g = [k \in Match |-> e[k][p]] /\ h = [k \in Match |-> f[k][p]]
            OBVIOUS
        <2>2. g \in [Match -> Int] /\ h \in [Match -> Int]
            BY <1>2, <2>1 DEF Balanced
        <2>3. \A k \in Match \ {m} : h[k] = g[k]
            BY <1>2, <2>1
        <2>4. SumFunction(h) = SumFunction(g) + h[m] - g[m]
            BY <2>2, <2>3, MatchIsFinite, SumChanges
        <2>5. h[m] = d[p] /\ g[m] = e[m][p]
            BY <1>2, <2>1
        <2>6. mmr[p] = StartMMR + SumFunction(g) + adjusted[p] /\ adjusted[p] \in Int
            BY <2>1 DEF Balanced
        <2>7. /\ SumFunction(g) \in Int /\ SumFunction(h) \in Int /\ g[m] \in Int /\ h[m] \in Int
              /\ StartMMR \in Int
            BY <2>2, MatchIsFinite, SumIsWhole, AdminAssumption
        <2>8. mmr'[p] = mmr[p] + h[m] - g[m]
            BY <1>4, <2>5
        <2>9. mmr'[p] = StartMMR + SumFunction(h) + adjusted'[p]
            <3>1. \A s1, s2, a, b, c, j \in Int :
                      s2 = s1 + b - c => j + s1 + a + b - c = j + s2 + a
                OBVIOUS
            <3> HIDE DEF d
            <3> QED BY <2>4, <2>6, <2>7, <2>8, <3>1
        <2> QED BY <2>1, <2>9
    <1>6. \A k \in Match \ created' : row'[k].change = 0
        BY DEF Balanced, OnlyAt
    <1>7. Balanced(f)'
        BY <1>2, <1>3, <1>5, <1>6 DEF Balanced
    <1> QED BY <1>7

\* An adjustment is recorded as it is made, of a player no match is at work on.
LEMMA AdjustBalances ==
    ASSUME Inv, Numbers, NEW a \in Admin, NEW p \in Player, NEW c \in Adjustment,
           AdjustPlayerMMR(a, p, c), Marked(AtWorkOn(p)), crossed' = {}, NEW e, Balanced(e)
    PROVE  Balanced(e)'
    <1>1. PICK new : new = NewRating(mmr[p], c)
        OBVIOUS
    <1>2. /\ mmr' = [mmr EXCEPT ![p] = new]
          /\ adjusted' = [adjusted EXCEPT ![p] = @ + new - mmr[p]]
          /\ UNCHANGED <<row, handler, task, created>>
        BY <1>1 DEF AdjustPlayerMMR, rowVars
    <1>3. mmr \in [Player -> Int] /\ adjusted \in [Player -> Int] /\ new \in Int
        BY <1>1, NewRatingIsWhole DEF Numbers, PlayersOK, Balanced
    <1>4. adjusted' \in [Player -> Int]
        BY <1>2, <1>3
    <1>5. ASSUME NEW q \in Player
          PROVE  mmr'[q] = StartMMR + SumFunction([m \in Match |-> e[m][q]]) + adjusted'[q]
        <2>1. PICK s : s = SumFunction([m \in Match |-> e[m][q]])
            OBVIOUS
        <2>2. s \in Int /\ StartMMR \in Int
            <3>1. [m \in Match |-> e[m][q]] \in [Match -> Int]
                BY DEF Balanced
            <3> QED BY <2>1, <3>1, MatchIsFinite, SumIsWhole, AdminAssumption
        <2>3. mmr[q] = StartMMR + s + adjusted[q] /\ mmr[q] \in Int /\ adjusted[q] \in Int
            BY <1>3, <2>1 DEF Balanced
        <2>4. mmr'[q] = StartMMR + s + adjusted'[q]
            <3>1. CASE q = p
                <4>1. mmr'[q] = new /\ adjusted'[q] = adjusted[q] + new - mmr[q]
                    BY <1>2, <1>3, <3>1
                <4> QED BY <1>3, <2>2, <2>3, <4>1
            <3>2. CASE q # p
                BY <1>2, <1>3, <2>3, <3>2
            <3> QED BY <3>1, <3>2
        <2> QED BY <2>1, <2>4
    <1>6. ASSUME NEW k \in Match PROVE Accounts(k, e[k])'
        <2>1. Midway(k) => p \notin PlayersOf(k)
            <3>1. ASSUME Midway(k), p \in PlayersOf(k) PROVE FALSE
                <4>1. ~Quiet(k)
                    <5>1. CASE handler[k].pc = "rateSecond"
                        BY <5>1, HeldIsBusy
                    <5>2. CASE \E b \in Admin : On(b, k)
                        BY <5>2, WorkersAre DEF Quiet
                    <5> QED BY <3>1, <5>1, <5>2 DEF Midway
                <4>2. k \in AtWorkOn(p)
                    BY <3>1, <4>1 DEF AtWorkOn
                <4> QED BY <4>2 DEF Marked
            <3> QED BY <3>1
        <2>2. Midway(k) => /\ mmr'[Sides[k][1]] = mmr[Sides[k][1]]
                           /\ mmr'[Sides[k][2]] = mmr[Sides[k][2]]
            BY <1>2, <1>3, <2>1 DEF PlayersOf
        <2>3. Accounts(k, e[k])
            BY DEF Balanced
        <2>4. \A d : NewChange(k, d)' = NewChange(k, d)
            BY <1>2 DEF NewChange
        <2>5. handler[k].pc = "rateSecond" => Midway(k)
            BY DEF Midway
        <2>6. ASSUME NEW b \in Admin, On(b, k)'
              PROVE  /\ On(b, k) /\ task'[b] = task[b]
                     /\ task[b].pc \in {"restoreSecond", "restored", "applySecond"} => Midway(k)
            BY <1>2, <2>6 DEF On, Midway
        <2>7. AtRest(k)' => AtRest(k)
            BY <1>2 DEF AtRest, On
        <2> QED BY <1>2, <2>2, <2>3, <2>4, <2>5, <2>6, <2>7 DEF Accounts
    <1>7. \A k \in Match \ created' : row'[k].change = 0
        BY <1>2 DEF Balanced
    <1> QED BY <1>4, <1>5, <1>6, <1>7 DEF Balanced

\* Where a match has nobody midway, its players were moved by what its row says.
LEMMA RestIs ==
    ASSUME NEW e, Balanced(e), NEW m \in Match, AtRest(m)
    PROVE  e[m] = Part(m, row[m].change, -row[m].change)
    BY DEF Balanced, Accounts

\* Nobody is at a rating stage of the matches other than m.
LEMMA PlayersBalance ==
    ASSUME Inv, AllFair, crossed' = {}, crossed = {}, PlayerStep, Apart, NEW e, Balanced(e),
           created = 1 .. Cardinality(created)
    PROVE  Balanced(e)'
    <1>0. /\ DOMAIN row = Match /\ DOMAIN handler = Match
          /\ \A m \in Match : RowShape(row[m]) /\ HandlerShape(handler[m], m)
        BY DEF Inv, Shape, RowsOK, HandlersOK
    <1>1. ASSUME NEW p \in Player, JoinQueue(p) PROVE Balanced(e)'
        <2>1. UNCHANGED <<mmr, row, handler, task, created, adjusted>>
            BY <1>1 DEF JoinQueue, rowVars, ghostVars
        <2>2. ASSUME NEW k \in Match PROVE Accounts(k, e[k])'
            BY <2>1, AccountsStay DEF Balanced
        <2> QED BY <2>1, <2>2 DEF Balanced
    <1>2. ASSUME NEW m \in Match, CreateMatch(m) PROVE Balanced(e)'
        <2>1. PICK x : row' = [row EXCEPT ![m] = [row[m] EXCEPT !.initial = x]]
            BY <1>2 DEF CreateMatch
        <2>2. /\ UNCHANGED <<mmr, handler, task, adjusted>> /\ created' = created \cup {m}
            BY <1>2 DEF CreateMatch, ghostVars
        <2>3. m \notin created
            <3>1. m = Cardinality(created) + 1
                BY <1>2 DEF CreateMatch
            <3>2. Cardinality(created) \in Int
                <4>1. IsFiniteSet(created)
                    BY MatchIsFinite, FS_Subset DEF Inv, Shape, MarksOK
                <4> QED BY <4>1, FS_CardinalityType
            <3> QED BY <3>1, <3>2
        <2>4. row'[m].change = row[m].change
            BY <1>0, <2>1 DEF RowShape
        <2>5. AtRest(m)
            <3>1. handler[m].pc = "free"
                BY <1>0, <2>3 DEF HandlerShape
            <3>2. \A a \in Admin : ~On(a, m)
                BY <2>3, BusyTask DEF Inv, On
            <3> QED BY <3>1, <3>2 DEF AtRest
        <2>6. AtRest(m)'
            BY <2>2, <2>5 DEF AtRest, On
        <2>7. Accounts(m, e[m])'
            BY <2>4, <2>5, <2>6, RestIs, RestAccounts
        <2>8. OnlyAt(m)
            BY <1>2, PlayersOnly
        <2> QED BY <2>2, <2>7, <2>8, LedgerStays
    <1>3. ASSUME NEW m \in Match, NEW i \in {1, 2},
                 CloseWindow(m) \/ AbortMatch(m, i) \/ \E v \in Outcome : RecordReport(m, i, v)
          PROVE  Balanced(e)'
        <2>1. OnlyAt(m)
            BY <1>3, PlayersOnly
        <2>2. /\ UNCHANGED <<mmr, task, adjusted, created>> /\ m \in created
            BY <1>3 DEF CloseWindow, AbortMatch, RecordReport, Accepts, playerVars, ghostVars
        <2>3. row'[m].change = row[m].change /\ row'[m].initial = row[m].initial
            <3>1. CASE CloseWindow(m)
                BY <3>1 DEF CloseWindow
            <3>2. CASE AbortMatch(m, i)
                <4>1. PICK codes : row' = [row EXCEPT ![m].report = codes, ![m].result = -1]
                    BY <3>2 DEF AbortMatch
                <4> QED BY <1>0, <4>1 DEF RowShape
            <3>3. ASSUME NEW v \in Outcome, RecordReport(m, i, v)
                  PROVE  row'[m].change = row[m].change /\ row'[m].initial = row[m].initial
                <4>1. row' = [row EXCEPT ![m].report[i] = v]
                    BY <3>3 DEF RecordReport
                <4> QED BY <1>0, <4>1 DEF RowShape
            <3> QED BY <1>3, <3>1, <3>2, <3>3
        <2>4. \/ handler'[m] = handler[m]
              \/ /\ handler'[m].pc \notin {"rateSecond", "record"}
                 /\ handler[m].pc \notin {"rateSecond", "record"}
            <3>1. CASE CloseWindow(m)
                <4>1. /\ handler[m].pc = "free"
                      /\ handler' = [handler EXCEPT ![m] = [FreeLock EXCEPT !.by = m, !.pc = "window"]]
                    BY <3>1 DEF CloseWindow
                <4>2. handler'[m].pc = "window"
                    BY <1>0, <4>1 DEF FreeLock
                <4> QED BY <4>1, <4>2
            <3>2. CASE UNCHANGED handler
                BY <3>2
            <3> QED BY <1>3, <3>1, <3>2 DEF AbortMatch, RecordReport
        <2>5. Accounts(m, e[m])'
            BY <2>2, <2>3, <2>4, AccountsStay DEF Balanced
        <2> QED BY <2>1, <2>2, <2>5, LedgerStays
    <1> QED BY <1>1, <1>2, <1>3 DEF PlayerStep

\* A check of m that rates nobody leaves the ledger; one that does moves it.
LEMMA HandlesBalance ==
    ASSUME PointsAreWhole, Inv, Numbers, Numbers', crossed = {}, Apart', NEW e, Balanced(e),
           NEW m \in created, m \in Match, OnlyAt(m), NEW by, NEW r, RowShape(r), RowNumbers(r),
           r.change = 0, row[m].change = 0, r.initial = row[m].initial,
           Handles(m, by, r), UNCHANGED <<adjusted, created>>,
           \A a \in Admin : ~On(a, m),
           \A a \in Admin : On(a, m)' => task'[a].pc = "holding",
           \A a \in Admin : task[a].pc \in Rating \/ task'[a].pc \in Rating => task'[a] = task[a]
    PROVE  \E f : Balanced(f)'
    <1>0. DOMAIN row = Match /\ DOMAIN handler = Match /\ handler[m].pc = "free"
        BY DEF Inv, Shape, RowsOK, HandlersOK, Handles
    <1>1. e[m] = Part(m, 0, 0)
        <2>1. AtRest(m)
            BY <1>0 DEF AtRest
        <2>2. e[m] = Part(m, row[m].change, -row[m].change)
            BY <2>1, RestIs
        <2> QED BY <2>2
    <1>2. CASE CheckAborts(m, by, r) \/ CheckConflicts(m, by, r)
        <2>1. /\ row'[m] = r /\ UNCHANGED mmr
              /\ \E s \in {"telling", "conflict"} :
                    handler'[m] = [FreeLock EXCEPT !.by = by, !.pc = s]
            BY <1>0, <1>2 DEF CheckAborts, CheckConflicts
        <2>2. handler'[m].pc \in {"telling", "conflict"}
            BY <2>1 DEF FreeLock
        <2>3. Accounts(m, e[m])'
            BY <1>0, <2>1, <2>2, AccountsStay DEF Balanced
        <2>4. Balanced(e)'
            BY <2>1, <2>3, LedgerStays
        <2> QED BY <2>4
    <1>3. CASE CheckCompletes(m, by, r)
        <2>1. PICK first, second, gain, y :
                 /\ first = Sides[m][1] /\ second = Sides[m][2]
                 /\ gain = Points(mmr[first], mmr[second], r.report[1])
                 /\ row' = [row EXCEPT ![m] = [r EXCEPT !.result = r.report[1]]]
                 /\ mmr' = [mmr EXCEPT ![first] = @ + gain]
                 /\ handler' = [handler EXCEPT ![m] =
                       [by |-> by, pc |-> "rateSecond", second |-> mmr[second] - gain,
                        played |-> y, change |-> gain]]
            BY <1>3 DEF CheckCompletes
        <2>2. r.report[1] \in Outcome
            BY <1>3, ResultIsReported DEF CheckCompletes, Rateable
        <2>3. /\ first \in Player /\ second \in Player /\ first # second
              /\ mmr \in [Player -> Int] /\ PlayersOK /\ PlayersOK'
            BY <2>1, SidesDiffer DEF Numbers, PlayersOK
        <2>4. gain \in Int
            BY <2>1, <2>2, <2>3 DEF PointsAreWhole
        <2>5. /\ handler'[m].pc = "rateSecond" /\ handler'[m].change = gain
              /\ handler'[m].second = mmr[second] - gain
            BY <1>0, <2>1
        <2>6. mmr'[second] = mmr[second] /\ mmr'[first] = mmr[first] + gain
            BY <2>1, <2>3
        <2>7. Accounts(m, Part(m, gain, 0))'
            <3>1. ~AtRest(m)'
                BY <2>5 DEF AtRest
            <3> QED BY <2>1, <2>5, <2>6, <3>1 DEF Accounts
        <2>8. Midway(m)'
            BY <2>5 DEF Midway
        <2>9. \A p \in Player : p \notin PlayersOf(m) => mmr'[p] = mmr[p]
            BY <2>1, <2>3 DEF PlayersOf
        <2>10. /\ mmr'[Sides[m][1]] = mmr[Sides[m][1]] + gain - 0
               /\ mmr'[Sides[m][2]] = mmr[Sides[m][2]] + 0 - 0
            BY <2>1, <2>3, <2>4, <2>6
        <2> QED BY <1>1, <2>3, <2>4, <2>7, <2>8, <2>9, <2>10, LedgerMoves
    <1> QED BY <1>2, <1>3 DEF Handles

LEMMA MatchStepBalances ==
    ASSUME RuleIsFair, PointsAreWhole, Inv, Numbers, Numbers', AllFair, Marked({}), Clean',
           Apart, Apart', NEW m \in Match, MatchStep(m), NEW e, Balanced(e)
    PROVE  \E f : Balanced(f)'
    <1>0. /\ DOMAIN row = Match /\ DOMAIN handler = Match
          /\ RowShape(row[m]) /\ HandlerShape(handler[m], m) /\ HandlerNumbers(handler[m])
          /\ RowNumbers(row[m]) /\ PlayersOK /\ PlayersOK'
        BY DEF Inv, Shape, RowsOK, HandlersOK, Numbers, RatedHandlers, RatedRows
    <1>1. OnlyAt(m)
        BY MatchStepOnly
    <1>2. UNCHANGED <<reopened, adjusted, created, task>>
        BY DEF MatchStep, ReportCheck, RateSecond, Complete, EndCheck, WindowClosed,
               rowVars, ghostVars
    <1>3. crossed = {} /\ reopened = {} /\ crossed' = {}
        BY <1>2 DEF Clean, Marked
    <1>4. Fair(m) /\ OneWorker(m)
        BY <1>3 DEF AllFair, Inv
    <1>5. handler[m].pc # "free" => m \in created
        BY <1>0 DEF HandlerShape
    <1>6. handler[m].pc \in {"rateSecond", "record"} =>
              /\ \A a \in Admin : On(a, m) => task[a].pc \notin Rating
        <2>1. ASSUME handler[m].pc \in {"rateSecond", "record"}, NEW a \in Admin, On(a, m),
                     task[a].pc \in Rating
              PROVE  FALSE
            <3>1. task[a].pc # "holding"
                BY <2>1 DEF Rating
            <3> QED BY <1>3, <2>1, <3>1, LockIsFree
        <2> QED BY <2>1
    \* Steps that move no rating.
    <1>7. ASSUME UNCHANGED mmr, m \in created,
                 row'[m].change = row[m].change, row'[m].initial = row[m].initial,
                 \/ handler'[m] = handler[m]
                 \/ /\ handler'[m].pc \notin {"rateSecond", "record"}
                    /\ handler[m].pc \notin {"rateSecond", "record"}
          PROVE  \E f : Balanced(f)'
        <2>1. Accounts(m, e[m])'
            BY <1>2, <1>7, AccountsStay DEF Balanced
        <2>2. Balanced(e)'
            BY <1>1, <1>2, <1>7, <2>1, LedgerStays
        <2> QED BY <2>2
    <1>8. CASE ReportCheck(m)
        <2>1. pending[m] > 0
            BY <1>8 DEF ReportCheck
        <2>2. m \in created
            BY <2>1 DEF Inv, Shape, MarksOK
        <2>3. CASE Handles(m, m, row[m])
            <3>1. m \notin processed
                BY <2>3 DEF Handles, CheckAborts, CheckCompletes, CheckConflicts, Rateable
            <3>2. row[m].change = 0
                BY <1>4, <2>1, <3>1 DEF Fair
            <3>3. \A a \in Admin : ~On(a, m)
                <4>1. m \in WorkersOf(m) /\ m \notin Admin
                    BY <2>1, WorkersAre
                <4> QED BY <1>4, <4>1, WorkersAre DEF OneWorker
            <3>4. \A a \in Admin : ~On(a, m)'
                BY <1>2, <3>3 DEF On
            <3>5. \A a \in Admin : task'[a] = task[a]
                BY <1>2
            <3> QED BY <1>0, <1>1, <1>2, <1>3, <2>2, <2>3, <3>2, <3>3, <3>4, <3>5, HandlesBalance
        <2>4. CASE UNCHANGED <<playerVars, row, handler>>
            BY <1>7, <2>2, <2>4 DEF playerVars
        <2> QED BY <1>8, <2>3, <2>4 DEF ReportCheck
    <1>9. CASE RateSecond(m)
        <2>1. PICK x, second : x = handler[m].change /\ second = Sides[m][2]
            OBVIOUS
        <2>2. /\ handler[m].pc = "rateSecond" /\ handler' = [handler EXCEPT ![m].pc = "record"]
              /\ mmr' = [mmr EXCEPT ![second] = handler[m].second]
            BY <1>9, <2>1 DEF RateSecond
        <2>3. x \in Int /\ -x \in Int /\ mmr[second] \in Int /\ second \in Player
              /\ second # Sides[m][1] /\ Sides[m][1] \in Player /\ mmr[Sides[m][1]] \in Int
            BY <1>0, <2>1, SidesDiffer DEF HandlerNumbers, PlayersOK
        <2>4. e[m] = Part(m, x, 0) /\ handler[m].second = mmr[second] - x
            BY <2>1, <2>2 DEF Balanced, Accounts
        <2>5. handler'[m].pc = "record" /\ handler'[m].change = x
            BY <1>0, <2>1, <2>2 DEF HandlerShape
        <2>6. Accounts(m, Part(m, x, -x))'
            <3>1. \A a \in Admin : On(a, m)' => task'[a].pc \notin Rating
                BY <1>2, <1>6, <2>2 DEF On
            <3>2. ~AtRest(m)'
                BY <2>5 DEF AtRest
            <3> QED BY <2>5, <3>1, <3>2 DEF Accounts, Rating
        <2>7. Midway(m)
            BY <2>2 DEF Midway
        <2>8. /\ mmr'[Sides[m][1]] = mmr[Sides[m][1]] + x - x
              /\ mmr'[Sides[m][2]] = mmr[Sides[m][2]] + (-x) - 0
            <3>1. mmr'[second] = mmr[second] - x /\ mmr'[Sides[m][1]] = mmr[Sides[m][1]]
                BY <1>0, <2>2, <2>3, <2>4 DEF PlayersOK
            <3> QED BY <2>1, <2>3, <3>1
        <2>9. \A p \in Player : p \notin PlayersOf(m) => mmr'[p] = mmr[p]
            BY <1>0, <2>1, <2>2 DEF PlayersOf, PlayersOK
        <2>10. m \in created
            BY <1>5, <2>2
        <2> QED BY <1>0, <1>1, <1>2, <2>3, <2>4, <2>6, <2>7, <2>8, <2>9, <2>10, LedgerMoves
    <1>10. CASE Complete(m)
        <2>1. PICK x : x = handler[m].change
            OBVIOUS
        <2>2. /\ handler[m].pc = "record" /\ handler' = [handler EXCEPT ![m].pc = "telling"]
              /\ row' = [row EXCEPT ![m].change = x] /\ UNCHANGED mmr
            BY <1>10, <2>1 DEF Complete
        <2>3. e[m] = Part(m, x, -x)
            BY <2>1, <2>2 DEF Balanced, Accounts
        <2>4. handler'[m].pc = "telling" /\ row'[m].change = x
            BY <1>0, <2>2 DEF HandlerShape, RowShape
        <2>5. AtRest(m)'
            BY <1>2, <1>6, <2>2, <2>4 DEF AtRest, On
        <2>6. Accounts(m, e[m])'
            BY <2>3, <2>4, <2>5, RestAccounts
        <2>7. Balanced(e)'
            BY <1>1, <1>2, <1>5, <2>2, <2>6, LedgerStays
        <2> QED BY <2>7
    <1>11. CASE EndCheck(m)
        <2>1. /\ handler[m].pc \in {"telling", "conflict"}
              /\ handler' = [handler EXCEPT ![m] = FreeLock] /\ UNCHANGED <<mmr, row>>
            BY <1>11 DEF EndCheck, Ended, Unlocked
        <2>2. handler'[m].pc = "free"
            BY <1>0, <2>1, FreeShape
        <2> QED BY <1>5, <1>7, <2>1, <2>2
    <1>12. CASE WindowClosed(m)
        <2>1. handler[m].pc = "window" /\ UNCHANGED mmr
            BY <1>12 DEF WindowClosed
        <2>2. CASE AbortUnconfirmed(m)
            <3>1. handler' = [handler EXCEPT ![m].pc = "telling"]
                BY <2>2 DEF AbortUnconfirmed
            <3>2. PICK codes : row' = [row EXCEPT ![m].report = codes, ![m].result = -1]
                BY <2>2 DEF AbortUnconfirmed
            <3>3. /\ row'[m].change = row[m].change /\ row'[m].initial = row[m].initial
                  /\ handler'[m].pc = "telling"
                BY <1>0, <3>1, <3>2 DEF RowShape, HandlerShape
            <3> QED BY <1>5, <1>7, <2>1, <3>3
        <2>3. CASE handler' = [handler EXCEPT ![m] = Unlocked(@)] /\ UNCHANGED row
            <3>1. handler'[m].pc = "free"
                BY <1>0, <2>3, FreeShape
            <3> QED BY <1>5, <1>7, <2>1, <2>3, <3>1
        <2> QED BY <1>12, <2>2, <2>3 DEF WindowClosed
    <1> QED BY <1>8, <1>9, <1>10, <1>11, <1>12 DEF MatchStep

\* The stages at which the one admin at work on a match accounts for it.
LEMMA OneAccounts ==
    ASSUME NEW m \in Match, NEW a \in Admin, \A b \in Admin : On(b, m)' => b = a,
           handler'[m].pc \notin {"rateSecond", "record"}, On(a, m)', NEW c,
           \/ /\ task'[a].pc = "restoreSecond"
              /\ c = Part(m, 0, -row'[m].change)
              /\ mmr'[Sides[m][1]] = row'[m].initial[1]
              /\ mmr'[Sides[m][2]] = row'[m].initial[2] - row'[m].change
           \/ /\ task'[a].pc = "restored"
              /\ c = Part(m, 0, 0)
              /\ mmr'[Sides[m][1]] = row'[m].initial[1]
              /\ mmr'[Sides[m][2]] = row'[m].initial[2]
           \/ /\ task'[a].pc = "applySecond"
              /\ c = Part(m, NewChange(m, task[a].decision)', 0)
              /\ mmr'[Sides[m][2]] = row'[m].initial[2]
           \/ /\ task'[a].pc = "applied"
              /\ c = Part(m, NewChange(m, task[a].decision)', -NewChange(m, task[a].decision)')
    PROVE  Accounts(m, c)'
    <1>1. ~AtRest(m)'
        BY DEF AtRest, Rating
    <1> QED BY <1>1 DEF Accounts

LEMMA SecondIsAnother ==
    ASSUME PlayersOK, NEW m \in Match, NEW i \in {1, 2}, NEW v \in Int,
           mmr' = [mmr EXCEPT ![Sides[m][i]] = v]
    PROVE  /\ mmr'[Sides[m][i]] = v
           /\ i = 1 => mmr'[Sides[m][2]] = mmr[Sides[m][2]]
           /\ i = 2 => mmr'[Sides[m][1]] = mmr[Sides[m][1]]
           /\ \A p \in Player : p \notin PlayersOf(m) => mmr'[p] = mmr[p]
           /\ mmr[Sides[m][1]] \in Int /\ mmr[Sides[m][2]] \in Int
    BY SidesDiffer DEF PlayersOK, PlayersOf

\* From players moved by nothing, the first is given the new change.
LEMMA DecisionBalances ==
    ASSUME PointsAreWhole, Inv, Numbers, Numbers', crossed = {}, Apart, Apart', NEW a \in Admin,
           NEW m \in created, m \in Match, OnlyAt(m), NEW d \in Decision, NEW s,
           ApplyDecision(a, m, d, s), UNCHANGED <<handler, created, adjusted>>,
           handler[m].pc = "free", \A b \in Admin : On(b, m) => b = a,
           NEW e, Balanced(e), e[m] = Part(m, 0, 0),
           mmr[Sides[m][1]] = row[m].initial[1], mmr[Sides[m][2]] = row[m].initial[2]
    PROVE  \E f : Balanced(f)'
    <1>0. PlayersOK /\ PlayersOK' /\ DOMAIN task = Admin
        BY DEF Numbers, Inv, Shape, TasksOK
    <1>1. row'[m].change = 0 /\ row'[m].initial = row[m].initial
        BY DecisionDoes
    <1>2. CASE d = -1
        <2>1. UNCHANGED mmr /\ task' = [task EXCEPT ![a] = Idle]
            BY <1>2, DecisionDoes
        <2>2. \A b \in Admin : ~On(b, m)'
            BY <1>0, <2>1, IdleShape, NotBusy DEF On
        <2>3. AtRest(m)'
            BY <2>2 DEF AtRest
        <2>4. Accounts(m, e[m])'
            <3>1. e[m] = Part(m, row'[m].change, -row'[m].change)
                BY <1>1
            <3> QED BY <2>3, <3>1, RestAccounts
        <2>5. Balanced(e)'
            BY <2>1, <2>4, LedgerStays
        <2> QED BY <2>5
    <1>3. CASE d # -1
        <2>1. PICK x, t :
                 /\ x = NewChange(m, d)
                 /\ mmr' = [mmr EXCEPT ![Sides[m][1]] = row[m].initial[1] + x]
                 /\ task' = [task EXCEPT ![a] = t]
                 /\ t.pc = "applySecond" /\ t.match = m /\ t.decision = d
            BY <1>3, DecisionDoes
        <2>2. x \in Int /\ row[m].initial[1] \in Int /\ row[m].initial[1] + x \in Int
            BY <2>1, NewChangeIsWhole
        <2>3. /\ mmr'[Sides[m][1]] = row[m].initial[1] + x
              /\ mmr'[Sides[m][2]] = mmr[Sides[m][2]]
              /\ \A p \in Player : p \notin PlayersOf(m) => mmr'[p] = mmr[p]
              /\ mmr[Sides[m][1]] \in Int /\ mmr[Sides[m][2]] \in Int
            BY <1>0, <2>1, <2>2, SecondIsAnother
        <2>4. NewChange(m, d)' = x
            BY <1>1, <2>1 DEF NewChange
        <2>5. task'[a] = t /\ On(a, m)' /\ \A b \in Admin : On(b, m)' => b = a
            BY <1>0, <2>1 DEF On, Busy
        <2>6. Accounts(m, Part(m, x, 0))'
            <3>1. NewChange(m, task[a].decision)' = x
                BY <2>1, <2>4, <2>5
            <3> QED BY <1>1, <2>1, <2>3, <2>5, <3>1, OneAccounts
        <2>7. Midway(m)'
            BY <2>1, <2>5 DEF Midway
        <2>8. /\ mmr'[Sides[m][1]] = mmr[Sides[m][1]] + x - 0
              /\ mmr'[Sides[m][2]] = mmr[Sides[m][2]] + 0 - 0
            BY <2>2, <2>3
        <2> QED BY <1>0, <2>2, <2>3, <2>6, <2>7, <2>8, LedgerMoves
    <1> QED BY <1>2, <1>3

LEMMA DecideBalances ==
    ASSUME RuleIsFair, PointsAreWhole, Inv, Numbers, Numbers', AllFair, Clean, Clean',
           Apart, Apart', NEW a \in Admin, NEW m \in Match, NEW d \in Decision,
           ResolveFresh(a, m, d) \/ ResolveTerminal(a, m, d),
           Marked(IF Quiet(m) THEN {} ELSE {m}), NEW e, Balanced(e)
    PROVE  \E f : Balanced(f)'
    <1>0. /\ DOMAIN row = Match /\ DOMAIN handler = Match /\ DOMAIN task = Admin
          /\ RowShape(row[m]) /\ RowNumbers(row[m]) /\ PlayersOK /\ PlayersOK'
        BY DEF Inv, Shape, RowsOK, HandlersOK, TasksOK, Numbers, RatedRows
    <1>1. OnlyAt(m)
        BY ResolveOnly
    <1>2. /\ m \in created /\ task[a].pc = "idle" /\ UNCHANGED <<created, adjusted>>
        BY DEF ResolveFresh, ResolveTerminal, AdminResolve, Found
    <1>3. m \notin crossed /\ Quiet(m) /\ Fair(m)
        BY DEF Marked, Clean, AllFair
    <1>4. handler[m].pc = "free" /\ \A b \in Admin : ~On(b, m)
        BY <1>3, HeldIsBusy, NobodyThere
    <1>5. e[m] = Part(m, row[m].change, -row[m].change)
        <2>1. AtRest(m)
            BY <1>4 DEF AtRest
        <2> QED BY <2>1, RestIs
    <1>6. CASE ResolveFresh(a, m, d)
        <2>1. row[m].result = None
            BY <1>6 DEF ResolveFresh, Clean
        <2>2. row[m].change = 0
            BY <1>3, <2>1, Unmoved DEF Fair
        <2> DEFINE held == [Command(m, d) EXCEPT !.saved = row[m].report]
        <2>3. CASE /\ Handles(m, a, Decided(row[m], d))
                   /\ task' = [task EXCEPT ![a] = [held EXCEPT !.pc = "holding"]]
            <3> DEFINE t == [held EXCEPT !.pc = "holding"]
            <3>1. t.pc = "holding"
                <4>1. held = [pc |-> "idle", match |-> m, decision |-> d, saved |-> row[m].report]
                    BY CommandIs
                <4> HIDE DEF held
                <4> QED BY <4>1, StageSet
            <3>2. task' = [task EXCEPT ![a] = t]
                BY <2>3
            <3> HIDE DEF t
            <3>3. \A b \in Admin : On(b, m)' => task'[b].pc = "holding"
                BY <1>0, <1>4, <3>1, <3>2 DEF On
            <3>4. \A b \in Admin : task[b].pc \in Rating \/ task'[b].pc \in Rating => task'[b] = task[b]
                BY <1>0, <1>2, <3>1, <3>2 DEF Rating
            <3>5. RowShape(Decided(row[m], d)) /\ RowNumbers(Decided(row[m], d))
                BY <1>0, DecidedShape, DecidedNumbers
            <3>6. Decided(row[m], d).change = 0 /\ Decided(row[m], d).initial = row[m].initial
                BY <1>0, <2>2, DecidedKeeps
            <3>7. crossed = {}
                BY DEF Clean
            <3>8. Handles(m, a, Decided(row[m], d)) /\ UNCHANGED <<adjusted, created>>
                BY <1>2, <2>3
            <3> QED BY <1>1, <1>2, <1>4, <2>2, <3>3, <3>4, <3>5, <3>6, <3>7, <3>8, HandlesBalance
        <2>4. CASE row' = [row EXCEPT ![m].result = d] /\ UNCHANGED <<playerVars, handler, task>>
            <3>1. row'[m].change = row[m].change /\ row'[m].initial = row[m].initial
                BY <1>0, <2>4 DEF RowShape
            <3>2. UNCHANGED mmr
                BY <2>4 DEF playerVars
            <3>3. Accounts(m, e[m])'
                BY <2>4, <3>1, <3>2, AccountsStay DEF Balanced
            <3>4. Balanced(e)'
                BY <1>1, <1>2, <3>2, <3>3, LedgerStays
            <3> QED BY <3>4
        <2> QED BY <1>4, <1>6, <2>3, <2>4 DEF ResolveFresh
    <1>7. CASE ResolveTerminal(a, m, d)
        <2>1. UNCHANGED handler
            BY <1>7 DEF ResolveTerminal
        <2>2. PICK c : c = row[m].change
            OBVIOUS
        <2>3. /\ mmr[Sides[m][1]] = row[m].initial[1] + c
              /\ mmr[Sides[m][2]] = row[m].initial[2] - c
              /\ c \in Int /\ -c \in Int /\ row[m].initial[1] \in Int /\ row[m].initial[2] \in Int
            <3>1. ~MovedOn(m)
                BY <1>7 DEF ResolveTerminal, Clean
            <3>2. \A i \in {1, 2} : mmr[Sides[m][i]] = row[m].initial[i] + Share(m, i)
                BY <3>1 DEF MovedOn
            <3>3. mmr[Sides[m][1]] = row[m].initial[1] + c /\ mmr[Sides[m][2]] = row[m].initial[2] + (-c)
                BY <2>2, <3>2 DEF Share
            <3>4. c \in Int /\ row[m].initial[1] \in Int /\ row[m].initial[2] \in Int
                BY <1>0, <2>2 DEF RowNumbers
            <3> QED BY <3>3, <3>4
        <2>4. CASE Unrestored(m) /\ ApplyDecision(a, m, d, row[m].report)
            <3>1. c = 0
                BY <2>2, <2>4 DEF Unrestored
            <3>2. e[m] = Part(m, 0, 0)
                BY <1>5, <2>2, <3>1
            <3>3. /\ mmr[Sides[m][1]] = row[m].initial[1]
                  /\ mmr[Sides[m][2]] = row[m].initial[2]
                BY <2>3, <3>1
            <3>4. PICK s : s = row[m].report
                OBVIOUS
            <3>5. ApplyDecision(a, m, d, s) /\ crossed = {}
                BY <2>4, <3>4 DEF Clean
            <3> QED BY <1>1, <1>2, <1>4, <2>1, <3>2, <3>3, <3>5, DecisionBalances
        <2>5. CASE /\ mmr' = [mmr EXCEPT ![Sides[m][1]] = row[m].initial[1]]
                   /\ task' = [task EXCEPT ![a] = [Command(m, d) EXCEPT
                                  !.pc = "restoreSecond", !.saved = row[m].report]]
                   /\ UNCHANGED row
            <3>1. PICK t : /\ t = [Command(m, d) EXCEPT !.pc = "restoreSecond", !.saved = row[m].report]
                           /\ task' = [task EXCEPT ![a] = t]
                BY <2>5
            <3>2. t.pc = "restoreSecond" /\ t.match = m
                <4>1. [Command(m, d) EXCEPT !.pc = "restoreSecond"] =
                          [pc |-> "restoreSecond", match |-> m, decision |-> d,
                           saved |-> <<None, None>>]
                    BY CommandIs, StageSet
                <4>2. ASSUME NEW w, w = [pc |-> "restoreSecond", match |-> m, decision |-> d,
                                         saved |-> <<None, None>>]
                      PROVE  /\ [w EXCEPT !.saved = row[m].report].match = m
                             /\ [w EXCEPT !.saved = row[m].report].pc = "restoreSecond"
                    BY <4>2
                <4> QED BY <3>1, <4>1, <4>2
            <3>3. /\ mmr'[Sides[m][1]] = row[m].initial[1]
                  /\ mmr'[Sides[m][2]] = mmr[Sides[m][2]]
                  /\ \A p \in Player : p \notin PlayersOf(m) => mmr'[p] = mmr[p]
                  /\ mmr[Sides[m][1]] \in Int /\ mmr[Sides[m][2]] \in Int
                BY <1>0, <2>3, <2>5, SecondIsAnother
            <3>4. task'[a] = t /\ On(a, m)' /\ \A b \in Admin : On(b, m)' => b = a
                BY <1>0, <1>4, <3>1, <3>2 DEF On, Busy
            <3>5. Accounts(m, Part(m, 0, -c))'
                <4>1. /\ mmr'[Sides[m][2]] = row'[m].initial[2] - row'[m].change
                      /\ mmr'[Sides[m][1]] = row'[m].initial[1]
                      /\ Part(m, 0, -c) = Part(m, 0, -row'[m].change)
                      /\ handler'[m].pc = "free" /\ task'[a].pc = "restoreSecond"
                    BY <1>4, <2>1, <2>2, <2>3, <2>5, <3>2, <3>3, <3>4
                <4> QED BY <3>4, <4>1, OneAccounts
            <3>6. Midway(m)'
                BY <3>2, <3>4 DEF Midway
            <3>7. /\ mmr'[Sides[m][1]] = mmr[Sides[m][1]] + 0 - c
                  /\ mmr'[Sides[m][2]] = mmr[Sides[m][2]] + (-c) - (-c)
                BY <2>3, <3>3
            <3>8. e[m] = Part(m, c, -c)
                BY <1>5, <2>2
            <3> QED BY <1>0, <1>1, <1>2, <2>3, <3>3, <3>5, <3>6, <3>7, <3>8, LedgerMoves
        <2> QED BY <1>7, <2>4, <2>5 DEF ResolveTerminal
    <1> QED BY <1>6, <1>7

LEMMA ResolveStepBalances ==
    ASSUME RuleIsFair, PointsAreWhole, Inv, Numbers, Numbers', Clean, Apart, Apart',
           NEW a \in Admin, ResolveStep(a), NEW e, Balanced(e)
    PROVE  \E f : Balanced(f)'
    <1>1. PICK m, d, s : m = task[a].match /\ d = task[a].decision /\ s = task[a].saved
        OBVIOUS
    <1>2. m \in created /\ m \in Match /\ On(a, m) /\ d \in Decision /\ OnlyAt(m)
        BY <1>1, ResolveStepOnly
    <1>3. /\ DOMAIN row = Match /\ DOMAIN handler = Match /\ DOMAIN task = Admin
          /\ RowShape(row[m]) /\ RowNumbers(row[m]) /\ TaskShape(task[a])
          /\ PlayersOK /\ PlayersOK'
        BY <1>2 DEF Inv, Shape, RowsOK, HandlersOK, TasksOK, Numbers, RatedRows
    <1>4. UNCHANGED <<created, adjusted>>
        BY DEF ResolveStep, FreshCheck, FreshEnds, RestoreSecond, ApplyFirst, ApplySecond,
               TerminalEnds, rowVars, ghostVars
    <1>5. /\ crossed = {} /\ task[a].pc # "waiting"
          /\ \A b \in Admin : On(b, m) => b = a
        BY <1>2, Alone DEF Clean
    <1>6. task[a].pc # "holding" => handler[m].pc = "free"
        BY <1>2, <1>5, LockIsFree
    <1>7. ~FreshCheck(a)
        BY <1>5 DEF FreshCheck
    <1>8. /\ row[m].change \in Int /\ row[m].initial[1] \in Int /\ row[m].initial[2] \in Int
          /\ -row[m].change \in Int /\ NewChange(m, d) \in Int /\ 0 \in Int
        BY <1>2, <1>3, NewChangeIsWhole DEF RowNumbers
    <1>9. Accounts(m, e[m])
        BY <1>2 DEF Balanced
    <1>10. CASE FreshEnds(a)
        <2>1. /\ task[a].pc = "holding" /\ handler[m].pc \in {"telling", "conflict"}
              /\ handler' = [handler EXCEPT ![m] = FreeLock]
              /\ row' = [row EXCEPT ![m].report = s] /\ task' = [task EXCEPT ![a] = Idle]
              /\ UNCHANGED mmr
            BY <1>1, <1>10 DEF FreshEnds, Ended, Unlocked, Closes, OriginalReports
        <2>2. /\ row'[m].initial = row[m].initial /\ row'[m].change = row[m].change
              /\ handler'[m].pc = "free"
            BY <1>2, <1>3, <2>1, FreeShape DEF RowShape
        <2>3. \A b \in Admin : task[b].pc \in Rating \/ task'[b].pc \in Rating => task'[b] = task[b]
            BY <1>3, <2>1, IdleShape DEF Rating
        <2>4. Accounts(m, e[m])'
            BY <1>2, <1>9, <2>1, <2>2, <2>3, AccountsStay
        <2>5. Balanced(e)'
            BY <1>2, <1>4, <2>1, <2>4, LedgerStays
        <2> QED BY <2>5
    <1>11. CASE RestoreSecond(a)
        <2>1. PICK v, c : v = row[m].initial[2] /\ c = row[m].change
            OBVIOUS
        <2>2. /\ task[a].pc = "restoreSecond" /\ mmr' = [mmr EXCEPT ![Sides[m][2]] = v]
              /\ task' = [task EXCEPT ![a].pc = "restored"] /\ UNCHANGED <<row, handler>>
            BY <1>1, <1>11, <2>1 DEF RestoreSecond, rowVars
        <2>3. /\ e[m] = Part(m, 0, -c)
              /\ mmr[Sides[m][1]] = row[m].initial[1]
              /\ mmr[Sides[m][2]] = v - c
            BY <1>2, <1>9, <2>1, <2>2 DEF Accounts
        <2>4. /\ mmr'[Sides[m][2]] = v /\ mmr'[Sides[m][1]] = mmr[Sides[m][1]]
              /\ \A p \in Player : p \notin PlayersOf(m) => mmr'[p] = mmr[p]
              /\ mmr[Sides[m][1]] \in Int
            BY <1>2, <1>3, <1>8, <2>1, <2>2, SecondIsAnother
        <2>5. /\ task'[a].pc = "restored" /\ task'[a].match = m
              /\ On(a, m)' /\ \A b \in Admin : On(b, m)' => b = a
            BY <1>1, <1>3, <1>5, <2>2 DEF On, Busy, TaskShape
        <2>6. Accounts(m, Part(m, 0, 0))'
            <3>1. /\ mmr'[Sides[m][1]] = row'[m].initial[1]
                  /\ mmr'[Sides[m][2]] = row'[m].initial[2]
                  /\ handler'[m].pc = "free"
                BY <1>6, <2>1, <2>2, <2>3, <2>4
            <3> QED BY <1>2, <2>5, <3>1, OneAccounts
        <2>7. Midway(m)
            BY <1>2, <2>2 DEF Midway
        <2>8. /\ mmr'[Sides[m][1]] = mmr[Sides[m][1]] + 0 - 0
              /\ mmr'[Sides[m][2]] = mmr[Sides[m][2]] + 0 - (-c)
              /\ c \in Int /\ -c \in Int
            BY <1>8, <2>1, <2>3, <2>4
        <2> QED BY <1>2, <1>3, <1>4, <1>8, <2>3, <2>4, <2>6, <2>7, <2>8, LedgerMoves
    <1>12. CASE ApplyFirst(a)
        <2>1. task[a].pc = "restored" /\ ApplyDecision(a, m, d, s) /\ UNCHANGED handler
            BY <1>1, <1>12 DEF ApplyFirst
        <2>2. /\ e[m] = Part(m, 0, 0)
              /\ mmr[Sides[m][1]] = row[m].initial[1] /\ mmr[Sides[m][2]] = row[m].initial[2]
            BY <1>2, <1>9, <2>1 DEF Accounts
        <2>3. handler[m].pc = "free"
            BY <1>6, <2>1
        <2> QED BY <1>2, <1>4, <1>5, <2>1, <2>2, <2>3, DecisionBalances
    <1>13. CASE ApplySecond(a)
        <2>1. PICK x, i2 : x = NewChange(m, d) /\ i2 = row[m].initial[2]
            OBVIOUS
        <2>2. /\ task[a].pc = "applySecond" /\ mmr' = [mmr EXCEPT ![Sides[m][2]] = i2 - x]
              /\ task' = [task EXCEPT ![a].pc = "applied"] /\ UNCHANGED <<row, handler>>
            BY <1>1, <1>13, <2>1 DEF ApplySecond, rowVars
        <2>3. e[m] = Part(m, x, 0) /\ mmr[Sides[m][2]] = i2
            BY <1>1, <1>2, <1>9, <2>1, <2>2 DEF Accounts
        <2>4. i2 - x \in Int /\ -x \in Int /\ x \in Int /\ i2 \in Int
            BY <1>8, <2>1
        <2>5. /\ mmr'[Sides[m][2]] = i2 - x /\ mmr'[Sides[m][1]] = mmr[Sides[m][1]]
              /\ \A p \in Player : p \notin PlayersOf(m) => mmr'[p] = mmr[p]
              /\ mmr[Sides[m][1]] \in Int
            BY <1>2, <1>3, <2>2, <2>4, SecondIsAnother
        <2>6. /\ task'[a].pc = "applied" /\ task'[a].match = m /\ task'[a].decision = d
              /\ On(a, m)' /\ \A b \in Admin : On(b, m)' => b = a
            BY <1>1, <1>3, <1>5, <2>2 DEF On, Busy, TaskShape
        <2>7. Accounts(m, Part(m, x, -x))'
            <3>1. NewChange(m, task[a].decision)' = x
                BY <2>1, <2>2, <2>6 DEF NewChange
            <3>2. handler'[m].pc = "free"
                BY <1>6, <2>2
            <3> QED BY <1>2, <2>6, <3>1, <3>2, OneAccounts
        <2>8. Midway(m)
            BY <1>2, <2>2 DEF Midway
        <2>9. /\ mmr'[Sides[m][1]] = mmr[Sides[m][1]] + x - x
              /\ mmr'[Sides[m][2]] = mmr[Sides[m][2]] + (-x) - 0
            BY <2>3, <2>4, <2>5
        <2> QED BY <1>2, <1>3, <1>4, <1>8, <2>3, <2>4, <2>5, <2>7, <2>8, <2>9, LedgerMoves
    <1>14. CASE TerminalEnds(a)
        <2>1. PICK x : x = NewChange(m, d)
            OBVIOUS
        <2>2. /\ row' = [row EXCEPT ![m] = [row[m] EXCEPT !.result = d, !.report = s, !.change = x]]
              /\ UNCHANGED <<handler, mmr>> /\ task[a].pc = "applied"
              /\ task' = [task EXCEPT ![a] = Idle]
            BY <1>1, <1>14, <2>1 DEF TerminalEnds, FinalRow, OriginalReports
        <2>3. e[m] = Part(m, x, -x)
            BY <1>1, <1>2, <1>9, <2>1, <2>2 DEF Accounts
        <2>4. row'[m].change = x
            BY <1>2, <1>3, <2>2 DEF RowShape
        <2>5. \A b \in Admin : ~On(b, m)'
            BY <1>3, <1>5, <2>2, IdleShape, NotBusy DEF On
        <2>6. AtRest(m)'
            BY <1>6, <2>2, <2>5 DEF AtRest
        <2>7. Accounts(m, e[m])'
            BY <1>2, <2>3, <2>4, <2>6, RestAccounts
        <2>8. Balanced(e)'
            BY <1>2, <1>4, <2>2, <2>7, LedgerStays
        <2> QED BY <2>8
    <1> QED BY <1>7, <1>10, <1>11, <1>12, <1>13, <1>14 DEF ResolveStep

\* Matches are numbered as they are made.
LEMMA NumberedOn ==
    ASSUME Inv, created = 1 .. Cardinality(created), [Next]_vars
    PROVE  created' = 1 .. Cardinality(created') /\ created \subseteq created'
    <1>1. CASE UNCHANGED created
        BY <1>1
    <1>2. CASE \E m \in Match : CreateMatch(m)
        <2>1. PICK m \in Match : m = Cardinality(created) + 1 /\ created' = created \cup {m}
            BY <1>2 DEF CreateMatch
        <2>2. IsFiniteSet(created)
            BY MatchIsFinite, FS_Subset DEF Inv, Shape, MarksOK
        <2>3. Cardinality(created) \in Nat
            BY <2>2, FS_CardinalityType
        <2>4. m \notin created
            <3>1. \A n \in Nat : n + 1 \notin 1 .. n
                OBVIOUS
            <3> QED BY <2>1, <2>3, <3>1
        <2>5. Cardinality(created') = Cardinality(created) + 1
            BY <2>1, <2>2, <2>4, FS_AddElement
        <2>6. \A n \in Nat : (1 .. n) \cup {n + 1} = 1 .. (n + 1)
            OBVIOUS
        <2> QED BY <2>1, <2>3, <2>5, <2>6
    <1>3. UNCHANGED created \/ \E m \in Match : CreateMatch(m)
        <2>1. CASE UNCHANGED vars
            BY <2>1 DEF vars, rowVars
        <2>2. CASE PlayerStep
            BY <2>2 DEF PlayerStep, JoinQueue, CloseWindow, AbortMatch, RecordReport, rowVars
        <2>3. ASSUME NEW m \in Match, MatchStep(m) PROVE UNCHANGED created
            BY <2>3 DEF MatchStep, ReportCheck, RateSecond, Complete, EndCheck, WindowClosed, rowVars
        <2>4. ASSUME NEW a \in Admin, AdminStep(a) PROVE UNCHANGED created
            BY <2>4 DEF AdminStep, ResolveMatchConflict, ResolveFresh, ResolveTerminal,
                        AdjustPlayerMMR, rowVars
        <2>5. ASSUME NEW a \in Admin, ResolveStep(a) PROVE UNCHANGED created
            BY <2>5 DEF ResolveStep, FreshCheck, FreshEnds, RestoreSecond, ApplyFirst, ApplySecond,
                        TerminalEnds, rowVars
        <2> QED BY <2>1, <2>2, <2>3, <2>4, <2>5 DEF Next
    <1> QED BY <1>1, <1>2, <1>3

\* What is not clean stays so.
LEMMA WasClean ==
    ASSUME [Next]_vars, Clean'
    PROVE  Clean
    <1>1. ASSUME NEW here, Crossing(here) PROVE crossed = {}
        BY <1>1 DEF Crossing, Clean
    <1>2. CASE UNCHANGED vars
        BY <1>2 DEF Clean, vars, ghostVars
    <1>3. CASE PlayerStep
        <2>1. UNCHANGED <<stale, reopened>>
            BY <1>3 DEF PlayerStep, JoinQueue, CreateMatch, CloseWindow, AbortMatch, RecordReport,
                        ghostVars
        <2> QED BY <1>1, <1>3, <2>1 DEF PlayerStep, Clean
    <1>4. ASSUME NEW m \in Match, MatchStep(m) PROVE Clean
        <2>1. UNCHANGED <<stale, reopened>>
            BY <1>4 DEF MatchStep, ReportCheck, RateSecond, Complete, EndCheck, WindowClosed,
                        ghostVars
        <2> QED BY <1>1, <1>4, <2>1 DEF MatchStep, Clean
    <1>5. ASSUME NEW a \in Admin, AdminStep(a) PROVE Clean
        <2>1. ASSUME NEW m \in Match, NEW d \in Decision, ResolveMatchConflict(a, m, d) PROVE Clean
            <3>1. stale \subseteq stale' /\ reopened \subseteq reopened'
                BY <2>1 DEF ResolveMatchConflict, ResolveFresh, ResolveTerminal
            <3> QED BY <1>1, <2>1, <3>1 DEF ResolveMatchConflict, Clean
        <2>2. ASSUME NEW p \in Player, NEW c \in Adjustment, AdjustPlayerMMR(a, p, c),
                     Crossing(AtWorkOn(p))
              PROVE  Clean
            BY <1>1, <2>2 DEF AdjustPlayerMMR, Clean
        <2> QED BY <1>5, <2>1, <2>2 DEF AdminStep
    <1>6. ASSUME NEW a \in Admin, ResolveStep(a) PROVE Clean
        <2>1. UNCHANGED <<stale, reopened>>
            BY <1>6 DEF ResolveStep, FreshCheck, FreshEnds, RestoreSecond, ApplyFirst, ApplySecond,
                        TerminalEnds, ghostVars
        <2> QED BY <1>1, <1>6, <2>1 DEF ResolveStep, Clean
    <1> QED BY <1>2, <1>3, <1>4, <1>5, <1>6 DEF Next

LEMMA StaysApart ==
    ASSUME crossed = {} => Apart, [Next]_vars, crossed' = {}
    PROVE  Apart'
    <1>1. CASE UNCHANGED vars
        <2>1. \A m \in Match : Midway(m)' => Midway(m)
            BY <1>1 DEF vars, Midway, On
        <2> QED BY <1>1, <2>1 DEF Apart, vars
    <1>2. ASSUME NEW here, Crossing(here) PROVE Apart'
        BY <1>2, CrossingApart
    <1> QED BY <1>1, <1>2 DEF Next, PlayerStep, MatchStep, AdminStep, ResolveMatchConflict, ResolveStep

LEMMA NextLedger ==
    ASSUME RuleIsFair, PointsAreWhole, Inv, Numbers, Numbers', AllFair, Ledger, [Next]_vars
    PROVE  Ledger'
    <1>1. created' = 1 .. Cardinality(created')
        BY NumberedOn DEF Ledger
    <1>2. (crossed = {} => Apart)'
        BY StaysApart DEF Ledger
    <1>3. ASSUME Clean' PROVE \E f : Balanced(f)'
        <2>1. Clean /\ crossed = {} /\ crossed' = {} /\ Apart /\ Apart'
            BY <1>2, <1>3, WasClean DEF Ledger, Clean
        <2>2. PICK e : Balanced(e)
            BY <2>1 DEF Ledger
        <2>3. CASE UNCHANGED vars
            <3>1. UNCHANGED <<mmr, row, handler, task, created, adjusted>>
                BY <2>3 DEF vars, rowVars, playerVars, ghostVars
            <3>2. ASSUME NEW k \in Match PROVE Accounts(k, e[k])'
                BY <2>2, <3>1, AccountsStay DEF Balanced
            <3> QED BY <2>2, <3>1, <3>2 DEF Balanced
        <2>4. CASE PlayerStep
            BY <2>1, <2>2, <2>4, PlayersBalance DEF Ledger
        <2>5. ASSUME NEW m \in Match, MatchStep(m) PROVE \E f : Balanced(f)'
            <3>1. Marked({})
                BY <2>5, CrossingMarks DEF MatchStep
            <3> QED BY <1>3, <2>1, <2>2, <2>5, <3>1, MatchStepBalances
        <2>6. ASSUME NEW a \in Admin, AdminStep(a) PROVE \E f : Balanced(f)'
            <3>1. ASSUME NEW m \in Match, NEW d \in Decision, ResolveMatchConflict(a, m, d)
                  PROVE  \E f : Balanced(f)'
                <4>1. Marked(IF Quiet(m) THEN {} ELSE {m})
                    BY <3>1, CrossingMarks DEF ResolveMatchConflict
                <4>2. ResolveFresh(a, m, d) \/ ResolveTerminal(a, m, d)
                    BY <3>1 DEF ResolveMatchConflict
                <4> QED BY <1>3, <2>1, <2>2, <4>1, <4>2, DecideBalances
            <3>2. ASSUME NEW p \in Player, NEW c \in Adjustment, AdjustPlayerMMR(a, p, c),
                         Crossing(AtWorkOn(p))
                  PROVE  \E f : Balanced(f)'
                <4>1. Marked(AtWorkOn(p))
                    BY <3>2, CrossingMarks
                <4> QED BY <2>1, <2>2, <3>2, <4>1, AdjustBalances
            <3> QED BY <2>6, <3>1, <3>2 DEF AdminStep
        <2>7. ASSUME NEW a \in Admin, ResolveStep(a) PROVE \E f : Balanced(f)'
            BY <2>1, <2>2, <2>7, ResolveStepBalances
        <2> QED BY <2>3, <2>4, <2>5, <2>6, <2>7 DEF Next
    <1> QED BY <1>1, <1>2, <1>3 DEF Ledger

LEMMA InitBalances ==
    ASSUME Init
    PROVE  AllFair /\ Ledger
    <1>1. /\ \A m \in Match : /\ row[m].change = 0 /\ handler[m] = FreeLock
                              /\ pending[m] = 0 /\ row[m].result = None
          /\ \A a \in Admin : task[a].pc = "idle"
          /\ created = {}
        BY IdleShape DEF Init
    <1>2. \A m \in Match : handler[m].pc = "free"
        BY <1>1, FreeShape
    <1>3. \A m \in Match, a \in Admin : ~On(a, m)
        BY <1>1, NotBusy DEF On
    <1>4. AllFair
        BY <1>1, <1>2, Unmoved DEF AllFair, Fair
    <1>5. created = 1 .. Cardinality(created)
        <2>1. Cardinality(created) = 0
            BY <1>1, FS_EmptySet
        <2>2. 1 .. 0 = {}
            OBVIOUS
        <2> QED BY <1>1, <2>1, <2>2
    <1>6. Apart
        BY <1>2, <1>3 DEF Apart, Midway
    <1>7. \E e : Balanced(e)
        <2> DEFINE none == [p \in Player |-> 0]
                   e == [m \in Match |-> none]
        <2>1. e \in [Match -> [Player -> Int]]
            OBVIOUS
        <2>2. ASSUME NEW m \in Match PROVE Accounts(m, e[m])
            <3>1. Part(m, row[m].change, -row[m].change) = none
                BY <1>1 DEF Part
            <3> QED BY <1>2, <1>3, <3>1 DEF Accounts
        <2>3. ASSUME NEW p \in Player
              PROVE  mmr[p] = StartMMR + SumFunction([m \in Match |-> e[m][p]]) + adjusted[p]
            <3>1. PICK g : g = [m \in Match |-> e[m][p]]
                OBVIOUS
            <3>2. g \in [Match -> Int] /\ \A m \in Match : g[m] = 0
                BY <3>1
            <3>3. SumFunction(g) = 0
                BY <3>2, MatchIsFinite, SumOfNothing
            <3>4. mmr[p] = StartMMR /\ adjusted[p] = 0 /\ StartMMR \in Int
                BY AdminAssumption DEF Init
            <3>5. mmr[p] = StartMMR + SumFunction(g) + adjusted[p]
                BY <3>3, <3>4
            <3> QED BY <3>1, <3>5
        <2>4. adjusted \in [Player -> Int]
            BY DEF Init
        <2>5. Balanced(e)
            BY <1>1, <2>1, <2>2, <2>3, <2>4 DEF Balanced
        <2> QED BY <2>5
    <1> QED BY <1>4, <1>5, <1>6, <1>7 DEF Ledger

LEMMA LedgerImplies ==
    ASSUME Inv, Numbers, AllFair, Ledger
    PROVE  RatingsFollowRows
    <1>1. WinnerGains
        BY DEF WinnerGains, AllFair, Fair, Favours, Inv, Shape, MarksOK
    <1>2. LedgerBalances
        <2> SUFFICES ASSUME Clean, \A m \in Match : Quiet(m), NEW p \in Player
                     PROVE  mmr[p] = StartMMR + Owed(p) + adjusted[p]
            BY DEF LedgerBalances, Clean
        <2>1. PICK e : Balanced(e)
            BY DEF Ledger
        <2>2. ASSUME NEW m \in Match
              PROVE  e[m][p] = IF m \in created /\ p \in PlayersOf(m)
                               THEN Share(m, IF p = Sides[m][1] THEN 1 ELSE 2) ELSE 0
            <3>1. handler[m].pc = "free" /\ \A a \in Admin : ~On(a, m)
                BY HeldIsBusy, WorkersAre DEF Quiet
            <3>2. e[m] = Part(m, row[m].change, -row[m].change)
                BY <2>1, <3>1, RestIs DEF AtRest
            <3>3. m \notin created => row[m].change = 0
                BY <2>1 DEF Balanced
            <3> QED BY <3>2, <3>3 DEF Part, Share, PlayersOf
        <2>3. [m \in Match |-> e[m][p]] =
                  [m \in Match |-> IF m \in created /\ p \in PlayersOf(m)
                                   THEN Share(m, IF p = Sides[m][1] THEN 1 ELSE 2) ELSE 0]
            BY <2>2
        <2> QED BY <2>1, <2>3 DEF Balanced, Owed
    <1> QED BY <1>1, <1>2 DEF RatingsFollowRows

\* Whatever the admins decide and adjust, in any order and beside any reports:
\* when nothing is at work, and no two tasks crossed, no match was resolved after
\* its players' ratings had moved on and no draw was decided again, every rating
\* is the start plus the changes in the rows of its player's matches plus the
\* adjustments; and a row never records points for the loser of its result.
\* The rule that exchanges points has to give whole numbers, and none to a loser.
THEOREM RatingsFollow ==
    ASSUME PointsAreWhole, RuleIsFair PROVE Spec => []RatingsFollowRows
    <1> DEFINE Balance == Numbers /\ AllFair /\ Ledger
    <1>1. Init => Balance
        BY InitNumbers, InitBalances
    <1>2. Inv /\ Balance /\ [Next]_vars => Balance'
        BY NextNumbers, NextFair, NextLedger
    <1>3. Inv /\ Balance => RatingsFollowRows
        BY LedgerImplies
    <1> HIDE DEF Balance
    <1> QED BY <1>1, <1>2, <1>3, Invariant, PTL DEF Spec
==============================================================================
