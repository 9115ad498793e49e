---------------------------- MODULE PlayerAccount ----------------------------
(***************************************************************************)
(* The account of one player: its row in the players table, in memory and  *)
(* in the database, the write jobs between the two and the log of changes  *)
(* made to it.                                                             *)
(*                                                                         *)
(* The player runs /setup, /setcountry, /termsofservice and commands that  *)
(* only look; each is checked when it starts and opens a message whose     *)
(* buttons act minutes later without a second check.  Admins ban the       *)
(* player and reset the aborts from prompts of the same kind.  A match     *)
(* charges aborts.  Coroutines of the data service never suspend, so each  *)
(* call is one step; what is started with create_task is a task that runs  *)
(* later, in order.  Faults and restarts of the writer are in WriteBehind. *)
(***************************************************************************)
EXTENDS Integers, Sequences, SequencesExt

CONSTANTS
  Handle,        \* the usernames the player may have on Discord
  Id,            \* names that pass validate_user_id
  BadId,         \* a name that does not
  Common,        \* countries the selects of /setup offer
  Country,       \* countries /setcountry accepts
  Region,
  Admin,
  View,          \* messages of the player that may be open at once
  ResetTo,       \* abort counts an admin may set
  None,
  Unknown,       \* a name the log has for a player who has none
  MaxCommands,   \* bound: commands, prompts and charges of a behaviour
  MaxPending     \* bound: jobs and tasks waiting when one of them, or a notice, begins

ASSUME NamesAssumption ==
  /\ None \notin Id \cup Country \cup Region
  /\ BadId \notin Id
  /\ Unknown \notin Id \cup {None}   \* told apart from a player of that name
  /\ Common \subseteq Country

ASSUME BoundsAssumption ==
  ResetTo \subseteq Int /\ MaxCommands \in Nat /\ MaxPending \in Nat

VARIABLES
  handle,        \* the player's username on Discord
  mem,           \* _players_df: the row in memory, or None
  db,            \* players: the row in the database, or None
  queue,         \* _write_queue
  log,           \* player_action_logs, as far as the last entries go
  tasks,         \* coroutines started with create_task, in order
  view,          \* what each open message of the player shows
  prompt,        \* the confirmation each admin has open
  agreed,        \* history: the terms were accepted at some time
  commands

vars == <<handle, mem, db, queue, log, tasks, view, prompt, agreed, commands>>

Closed == [kind |-> "closed"]
FullAborts == 3

-----------------------------------------------------------------------------
(* Rows, jobs and entries of the log *)

NewRow(u) ==
  [username |-> u, name |-> None, alts |-> <<>>, country |-> None,
   region |-> None, tos |-> FALSE, setup |-> FALSE, aborts |-> FullAborts,
   banned |-> FALSE, shield |-> FALSE, guide |-> FALSE]

Fields == DOMAIN NewRow(None)

Merge(row, set) ==
  [f \in Fields |-> IF f \in DOMAIN set THEN set[f] ELSE row[f]]

\* A change of one field.
Only(f, v) == [g \in {f} |-> v]

\* A job creates the row or changes fields of it.  The entries a call asks
\* player_action_logs for after its change, jobs of their own and one for a field
\* at most, travel with it here, as nothing happens between them; so do those
\* user_info_service adds to repeat them in its own words (again, with the new
\* value of each).
NoEntries == [f \in {} |-> None]
Create(u) ==
  [op |-> "create", set |-> NewRow(u), entries |-> NoEntries, again |-> NoEntries]
Change(set, entries) ==
  [op |-> "update", set |-> set, entries |-> entries, again |-> NoEntries]

Entry(old, new, name) == [old |-> old, new |-> new, name |-> name]

\* Mutant: the old values are read after the change.
LateInfoJob(row, set) ==
  Change(set, [f \in DOMAIN set |-> Entry(set[f], set[f], Unknown)])

\* update_player_info: an entry for each field given, changed or not.
InfoJob(row, set) ==
  LET name == IF row.name = None THEN Unknown ELSE row.name
  IN  Change(set, [f \in DOMAIN set |-> Entry(row[f], set[f], name)])

\* The calls that set one field: one entry, whose name is the one in the row,
\* which is None before the setup.
FieldJob(row, f, v) == Change(Only(f, v), Only(f, Entry(row[f], v, row.name)))

\* player_name may not be NULL: an entry without one is refused, again at each
\* retry, and ends in the dead-letter file.
IsTaken(entry) == entry.name # None

\* Mutant: the old values are repeated.
RepeatsOld(old, new) == [f \in {g \in Fields : new[g] # old[g]} |-> old[f]]

\* What user_info_service repeats of the change of a row: the fields that differ.
Repeats(old, new) == [f \in {g \in Fields : new[g] # old[g]} |-> new[f]]

\* A coroutine that is started and not awaited: what it sets of the row and what
\* the one started next to it repeats.
Task(set, again) == [set |-> set, again |-> again]
RepeatTask(again) == IF DOMAIN again = {} THEN <<>> ELSE <<Task(NoEntries, again)>>

-----------------------------------------------------------------------------
(* Commands of the player *)

\* Bound: nothing new is begun while more than MaxPending jobs and tasks wait.
FewPending == Len(queue) + Len(tasks) <= MaxPending

Counted ==
  /\ FewPending
  /\ commands < MaxCommands
  /\ commands' = commands + 1

Renamed == mem # None /\ mem.username # handle

\* The row after ensure_player_exists.
Ensured == IF mem = None THEN NewRow(handle)
                         ELSE [mem EXCEPT !.username = handle]

NewName == Only("username", handle)

Ensure ==
  /\ Counted
  /\ mem' = Ensured
  /\ queue' = queue \o (IF mem = None THEN <<Create(handle)>>
                        ELSE IF Renamed THEN <<InfoJob(mem, NewName)>> ELSE <<>>)
  /\ tasks' = tasks \o (IF Renamed THEN RepeatTask(Repeats(mem, Ensured)) ELSE <<>>)

\* The player renames themselves on Discord.
Rename(u) ==
  /\ u # handle
  /\ handle' = u
  /\ Counted
  /\ UNCHANGED <<mem, db, queue, log, tasks, view, prompt, agreed>>

\* A refused command still creates or renames the row.
Command(v, admitted, shown) ==
  /\ view[v] = Closed
  /\ Ensure
  /\ view' = IF admitted THEN [view EXCEPT ![v] = shown] ELSE view
  /\ UNCHANGED <<handle, db, log, prompt, agreed>>

Admitted == ~Ensured.banned
TermsAccepted == Admitted /\ Ensured.tos

SetupCommand(v) ==
  Command(v, TermsAccepted,
          [kind |-> "modal", country |-> Ensured.country, region |-> Ensured.region])

SetCountryCommand(v, c) ==
  Command(v, TermsAccepted, [kind |-> "country", country |-> c])

TermsCommand(v) == Command(v, Admitted, [kind |-> "terms"])

\* /profile and the commands that only read end with their answer.
ReadingCommand ==
  /\ Ensure
  /\ UNCHANGED <<handle, db, log, view, prompt, agreed>>

\* The view times out, is cancelled or is dismissed.
Close(v) ==
  /\ view[v] # Closed
  /\ view' = [view EXCEPT ![v] = Closed]
  /\ UNCHANGED <<handle, mem, db, queue, log, tasks, prompt, agreed, commands>>

-----------------------------------------------------------------------------
(* The messages of /setup *)

Show(v, shown) ==
  /\ view' = [view EXCEPT ![v] = shown]
  /\ UNCHANGED <<handle, mem, db, queue, log, tasks, prompt, agreed, commands>>

OneAlt(a) == IF a = None THEN <<>> ELSE <<a>>
Alts(a1, a2) == OneAlt(a1) \o OneAlt(a2)

\* Mutant: two names may be equal.
AnyNames(id, alts) == id # BadId /\ ~Contains(alts, BadId)

FormIsValid(id, alts) ==
  /\ id # BadId
  /\ ~Contains(alts, BadId)
  /\ IsInjective(<<id>> \o alts)

\* A country outside the selects is forgotten: the player chooses again.
Preselected(c) == IF c \in Common THEN c ELSE None

\* SetupModal.on_submit: an invalid form leads back to the modal through
\* ErrorView; an alternative given second alone becomes the first.
Submit(v, id, a1, a2) ==
  /\ view[v].kind = "modal"
  /\ FormIsValid(id, Alts(a1, a2))
  /\ Show(v, [kind |-> "select", name |-> id, alts |-> Alts(a1, a2),
              country |-> Preselected(view[v].country), region |-> view[v].region])

SelectCountry(v, c) ==
  /\ view[v].kind = "select"
  /\ Show(v, [view[v] EXCEPT !.country = c])

SelectRegion(v, r) ==
  /\ view[v].kind = "select"
  /\ Show(v, [view[v] EXCEPT !.region = r])

\* Mutant: a country is enough.
CountryIsEnough(v) ==
  /\ view[v].kind = "select"
  /\ view[v].country # None
  /\ Show(v, [view[v] EXCEPT !.kind = "confirm"])

\* UnifiedSetupView.confirm_callback: without both choices an error leads
\* back to the selects.
Preview(v) ==
  /\ view[v].kind = "select"
  /\ view[v].country # None
  /\ view[v].region # None
  /\ Show(v, [view[v] EXCEPT !.kind = "confirm"])

\* Every step of the setup can go back to the modal, without a new check.
Restart(v) ==
  /\ view[v].kind \in {"select", "confirm"}
  /\ Show(v, [kind |-> "modal", country |-> view[v].country, region |-> view[v].region])

Form(shown) ==
  [name |-> shown.name, alts |-> shown.alts,
   country |-> shown.country, region |-> shown.region]

\* complete_setup: the form, then the mark that the setup is complete.
CompleteSetup(v) ==
  LET form == Form(view[v])
      done == Only("setup", TRUE)
      filled == Merge(mem, form)
  IN  /\ view[v].kind = "confirm"
      /\ mem' = Merge(filled, done)
      /\ queue' = queue \o <<InfoJob(mem, form), InfoJob(filled, done)>>
      /\ tasks' = tasks \o RepeatTask(Repeats(mem, Merge(filled, done)))
      /\ view' = [view EXCEPT ![v] = Closed]
      /\ UNCHANGED <<handle, db, log, prompt, agreed, commands>>

-----------------------------------------------------------------------------
(* The other messages of the player *)

\* accept_terms_of_service and decline_terms_of_service: the answer is repeated
\* whatever it was before.
AnswerTerms(v, accepted) ==
  LET set == Only("tos", accepted)
  IN  /\ view[v].kind = "terms"
      /\ mem' = Merge(mem, set)
      /\ queue' = Append(queue, InfoJob(mem, set))
      /\ tasks' = Append(tasks, Task(NoEntries, set))
      /\ agreed' = (agreed \/ accepted)
      /\ view' = [view EXCEPT ![v] = Closed]
      /\ UNCHANGED <<handle, db, log, prompt, commands>>

\* Mutant: the country goes past the queue into the table.
DirectCountry(v) ==
  /\ view[v].kind = "country"
  /\ mem' = [mem EXCEPT !.country = view[v].country]
  /\ db' = IF db = None THEN None ELSE [db EXCEPT !.country = view[v].country]
  /\ view' = [view EXCEPT ![v] = Closed]
  /\ UNCHANGED <<handle, queue, log, tasks, prompt, agreed, commands>>

\* update_country: the row changes in a task; whether that is a change worth
\* repeating is decided before.
ConfirmCountry(v) ==
  LET set == Only("country", view[v].country)
  IN  /\ view[v].kind = "country"
      /\ tasks' = Append(tasks, Task(set, Repeats(mem, Merge(mem, set))))
      /\ view' = [view EXCEPT ![v] = Closed]
      /\ UNCHANGED <<handle, mem, db, queue, log, prompt, agreed, commands>>

\* The guide is confirmed before queueing, the warning during a match.
Playing == mem # None /\ mem.setup

ReadGuide ==
  /\ Playing
  /\ ~mem.guide
  /\ FewPending
  /\ mem' = [mem EXCEPT !.guide = TRUE]
  /\ queue' = Append(queue, Change(Only("guide", TRUE), NoEntries))
  /\ UNCHANGED <<handle, db, log, tasks, view, prompt, agreed, commands>>

AcknowledgeShield ==
  /\ Playing
  /\ ~mem.shield
  /\ FewPending
  /\ mem' = [mem EXCEPT !.shield = TRUE]
  /\ queue' = Append(queue, FieldJob(mem, "shield", TRUE))
  /\ UNCHANGED <<handle, db, log, tasks, view, prompt, agreed, commands>>

\* decrement_aborts: the count is read now and written by a task.
ChargeAbort ==
  LET left == IF mem.aborts > 0 THEN mem.aborts - 1 ELSE 0
  IN  /\ Playing
      /\ Counted
      /\ tasks' = Append(tasks, Task(Only("aborts", left), Only("aborts", left)))
      /\ UNCHANGED <<handle, mem, db, queue, log, view, prompt, agreed>>

-----------------------------------------------------------------------------
(* Admins *)

\* The prompt tells what a toggle would do at this moment.  No one compares it
\* with what the toggle does when it is confirmed.
BanPrompt(a) ==
  /\ prompt[a] = Closed
  /\ Counted
  /\ prompt' = [prompt EXCEPT ![a] = [kind |-> "ban"]]
  /\ UNCHANGED <<handle, mem, db, queue, log, tasks, view, agreed>>

\* toggle_ban_status: a player without a row is reported as banned, also to the
\* log, although there is nothing to ban; a player without a name is banned, and
\* the log refuses the entry.
ToggleBan(a) ==
  LET banned == mem = None \/ ~mem.banned
  IN  /\ prompt[a].kind = "ban"
      /\ mem' = IF mem = None THEN None ELSE [mem EXCEPT !.banned = banned]
      /\ queue' = Append(queue,
           IF mem = None
             THEN Change(Only("banned", TRUE), Only("banned", Entry(FALSE, TRUE, Unknown)))
             ELSE FieldJob(mem, "banned", banned))
      /\ prompt' = [prompt EXCEPT ![a] = Closed]
      /\ UNCHANGED <<handle, db, log, tasks, view, agreed, commands>>

ResetPrompt(a, n) ==
  /\ prompt[a] = Closed
  /\ Counted
  /\ prompt' = [prompt EXCEPT ![a] = [kind |-> "aborts", n |-> n]]
  /\ UNCHANGED <<handle, mem, db, queue, log, tasks, view, agreed>>

\* reset_player_aborts succeeds without a row too, and then changes nothing.
ResetAborts(a) ==
  /\ prompt[a].kind = "aborts"
  /\ mem' = IF mem = None THEN None ELSE [mem EXCEPT !.aborts = prompt[a].n]
  /\ queue' = IF mem = None THEN queue
                            ELSE Append(queue, FieldJob(mem, "aborts", prompt[a].n))
  /\ prompt' = [prompt EXCEPT ![a] = Closed]
  /\ UNCHANGED <<handle, db, log, tasks, view, agreed, commands>>

Dismiss(a) ==
  /\ prompt[a] # Closed
  /\ prompt' = [prompt EXCEPT ![a] = Closed]
  /\ UNCHANGED <<handle, mem, db, queue, log, tasks, view, agreed, commands>>

-----------------------------------------------------------------------------
(* Tasks and the writer *)

\* update_remaining_aborts or update_player_info, then log_player_action.
TaskJob(t) ==
  [(IF "aborts" \in DOMAIN t.set THEN FieldJob(mem, "aborts", t.set["aborts"])
                                 ELSE InfoJob(mem, t.set)) EXCEPT !.again = t.again]

RunTask ==
  LET t == Head(tasks)
  IN  /\ tasks # <<>>
      /\ tasks' = Tail(tasks)
      /\ mem' = Merge(mem, t.set)
      /\ queue' = Append(queue, TaskJob(t))
      /\ UNCHANGED <<handle, db, log, view, prompt, agreed, commands>>

\* What a job does to the row of the database.
Written(row, job) ==
  IF job.op = "create" THEN (IF row = None THEN job.set ELSE row)
  ELSE IF job.op = "update" /\ row # None THEN Merge(row, job.set)
  ELSE row

\* Of the log is kept, for each field, the last entry of the data service (last)
\* and the value it was last said to have by anyone (newest); and of which fields
\* the last entry of the data service was refused.
NothingLogged == [last |-> NoEntries, newest |-> NoEntries, refused |-> {}]

Logged(job) ==
  LET asked == Fields \cap DOMAIN job.entries
      taken == {f \in asked : IsTaken(job.entries[f])}
      again == Fields \cap DOMAIN job.again
  IN  [last |-> [f \in DOMAIN log.last \cup taken |->
                   IF f \in taken THEN job.entries[f] ELSE log.last[f]],
       newest |-> [f \in DOMAIN log.newest \cup taken \cup again |->
                     IF f \in again THEN job.again[f]
                     ELSE IF f \in taken THEN job.entries[f].new ELSE log.newest[f]],
       refused |-> (log.refused \ taken) \cup (asked \ taken)]

WriteNext ==
  /\ queue # <<>>
  /\ queue' = Tail(queue)
  /\ db' = Written(db, Head(queue))
  /\ log' = Logged(Head(queue))
  /\ UNCHANGED <<handle, mem, tasks, view, prompt, agreed, commands>>

-----------------------------------------------------------------------------
Init ==
  /\ handle \in Handle
  /\ mem = None
  /\ db = None
  /\ queue = <<>>
  /\ log = NothingLogged
  /\ tasks = <<>>
  /\ view = [v \in View |-> Closed]
  /\ prompt = [a \in Admin |-> Closed]
  /\ agreed = FALSE
  /\ commands = 0

PlayerStep ==
  \/ \E u \in Handle : Rename(u)
  \/ ReadingCommand \/ ReadGuide \/ AcknowledgeShield \/ ChargeAbort
  \/ \E v \in View :
       \/ SetupCommand(v) \/ TermsCommand(v) \/ Close(v)
       \/ \E c \in Country : SetCountryCommand(v, c)
       \/ \E id \in Id \cup {BadId}, a1, a2 \in Id \cup {BadId, None} : Submit(v, id, a1, a2)
       \/ \E c \in Common : SelectCountry(v, c)
       \/ \E r \in Region : SelectRegion(v, r)
       \/ Preview(v) \/ Restart(v) \/ CompleteSetup(v)
       \/ \E b \in BOOLEAN : AnswerTerms(v, b)
       \/ ConfirmCountry(v)

AdminStep ==
  \E a \in Admin :
    \/ BanPrompt(a) \/ ToggleBan(a) \/ ResetAborts(a) \/ Dismiss(a)
    \/ \E n \in ResetTo : ResetPrompt(a, n)

Next == PlayerStep \/ AdminStep \/ RunTask \/ WriteNext

Spec == Init /\ [][Next]_vars

-----------------------------------------------------------------------------
Opt(S) == S \cup {None}

\* Types of the row, of what a job sets of it and of what is open.  A row has a
\* country and a name only of those offered, and no name twice.
Aliases == {s \in Seq(Id) : Len(s) <= 2 /\ IsInjective(s)}

Row ==
  {r \in [username : Handle, name : Opt(Id), alts : Aliases, country : Opt(Country),
          region : Opt(Region), tos : BOOLEAN, setup : BOOLEAN, aborts : Int,
          banned : BOOLEAN, shield : BOOLEAN, guide : BOOLEAN] :
     r.name \notin ToSet(r.alts)}

ASSUME NoRowAssumption == None \notin Row

\* The names of a player change together.
Fits(set) ==
  /\ DOMAIN set \subseteq Fields
  /\ "name" \in DOMAIN set <=> "alts" \in DOMAIN set
  /\ \A u \in Handle : Merge(NewRow(u), set) \in Row

JobOK(job) ==
  \/ job.op = "create" /\ job.set \in Row
  \/ job.op = "update" /\ Fits(job.set)

Filled ==
  {w \in [kind : {"select", "confirm"}, name : Id, alts : Aliases,
          country : Opt(Common), region : Opt(Region)] : w.name \notin ToSet(w.alts)}

Shown ==
  {Closed} \cup Filled \cup [kind : {"terms"}] \cup [kind : {"country"}, country : Country]
    \cup [kind : {"modal"}, country : Opt(Country), region : Opt(Region)]

TaskOK(t) ==
  t.set \in {NoEntries} \cup [{"country"} -> Country] \cup [{"aborts"} -> Int]

TypeOK ==
  /\ handle \in Handle
  /\ mem \in Opt(Row)
  /\ db \in Opt(Row)
  /\ \A i \in DOMAIN queue : JobOK(queue[i])
  /\ DOMAIN log.last \cup DOMAIN log.newest \cup log.refused \subseteq Fields
  /\ \A i \in DOMAIN tasks : TaskOK(tasks[i])
  /\ view \in [View -> Shown]
  /\ prompt \in [Admin -> {Closed} \cup [kind : {"ban"}] \cup [kind : {"aborts"}, n : ResetTo]]
  /\ agreed \in BOOLEAN
  /\ commands \in 0..MaxCommands

\* Written behind memory, the database is never led astray: what each field of
\* the row in the database will be, once the queued jobs are written in their
\* order, is what it is in memory.  Covers the split of one change into a change
\* of memory and a job, for every writer of the row.
Setters(f) == {i \in DOMAIN queue : f \in DOMAIN queue[i].set}

DbCatchesUp ==
  IF mem = None THEN db = None
  ELSE \A f \in Fields :
         IF Setters(f) = {} THEN db # None /\ db[f] = mem[f]
         ELSE \E i \in Setters(f) :
                /\ \A j \in Setters(f) : j <= i
                /\ queue[i].set[f] = mem[f]

\* What the entries asked for say a field is before the i-th job of the queue is
\* written: what the last of them ends with.  Without one it is what it is in a new
\* row; the first username needs none.  Nothing follows from the entry of a ban
\* without a row, and nothing from a log that refused the last entry.
Askers(f) == {i \in DOMAIN queue : f \in DOMAIN queue[i].entries}

Ends(f, entry, value) == value = entry.new \/ (f = "banned" /\ entry.name = Unknown)

Says(f, i, value) ==
  LET asked == {j \in Askers(f) : j < i}
  IN  IF asked = {}
      THEN \/ f \in log.refused
           \/ f \in DOMAIN log.last /\ Ends(f, log.last[f], value)
           \/ f \notin DOMAIN log.last /\ (f = "username" \/ value = NewRow(None)[f])
      ELSE \E j \in asked :
             /\ \A k \in asked : k <= j
             /\ Ends(f, queue[j].entries[f], value)

\* The entries of the data service tell what happened, as far as the log takes
\* them: for each field they start at the value of a new row, each begins where
\* the last one ended and the last one ends at the value in memory, whichever of
\* commands, tasks, admins and matches made the changes.
AuditTells ==
  mem # None =>
    \A f \in Fields \ {"guide"} :
      /\ \A i \in Askers(f) : Says(f, i, queue[i].entries[f].old)
      /\ Says(f, Len(queue) + 1, mem[f])

\* What is repeated later, and in other words, does not lie: when everything is
\* written, the value a field was last said to have is the one it has.  Not so for
\* the country, whose repetition may be overtaken by a newer change, nor for a
\* ban, which is logged without a row to ban.
NewestIsTrue ==
  mem # None /\ tasks = <<>> /\ queue = <<>> =>
    \A f \in DOMAIN log.newest \ {"country", "banned"} : log.newest[f] = mem[f]

\* Whoever may queue has gone the whole way: a completed setup has a name, a
\* country and a region, and the terms were accepted before it, however many
\* messages are open and whatever was declined since.
SetupIsWhole ==
  mem # None /\ mem.setup => agreed /\ None \notin {mem.name, mem.country, mem.region}
=============================================================================
