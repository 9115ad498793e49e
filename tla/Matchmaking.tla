---------------------------- MODULE Matchmaking ----------------------------
(***************************************************************************)
(* The matchmaking queue: joining and leaving, the waves that pair the     *)
(* queued players and create their matches, the notification service and   *)
(* the searching views that wait for a match, and the admin commands on    *)
(* the queue.  Everything runs on one event loop: an action is what a task *)
(* does between two suspensions.  The life of a match after its creation   *)
(* is module MatchLifecycle; here it only ends and frees its players.      *)
(***************************************************************************)
EXTENDS Integers, Sequences, FiniteSets, SequencesExt, FiniteSetsExt, Functions

CONSTANTS
  Player,         \* Discord users
  Starts,         \* states of the queue to begin with: [queue, rating, races]
  RaceChoices,    \* what may be selected for a later join: subsets of {"bw", "sc2"}
  Events,         \* kinds of unscheduled event that may happen, each at most once
  MaxEvents,      \* how many may happen in one behaviour
  MaxViews,       \* searching views ever created
  MaxWaves        \* waves ever begun

Idle == 0         \* player_state "idle"
Queueing == -1    \* player_state "queueing"; m > 0 stands for "in_match:m"
NoView == 0

BaseWindow == 100           \* MM_*_PARAMS, equal under every queue pressure
WindowGrowth == 50
WaitPriority == 20          \* MM_WAIT_CYCLE_PRIORITY_COEFFICIENT
BalanceThreshold == 50      \* MM_BALANCE_THRESHOLD_MMR
RefinementPasses == 2       \* MM_REFINEMENT_PASSES

VARIABLES
  players,    \* Matchmaker.players: entries [id, who, races, wait]
  rating,     \* mmrs_1v1: ratings of every player
  state,      \* players.player_state
  joining,    \* race selections whose ratings add_player is creating
  views,      \* QueueSearchingView objects, by number, with listener task and queue
  manager,    \* QueueSearchingViewManager._views
  listener,   \* NotificationService._player_listeners: the view that made the queue
  wave,       \* what Matchmaker.run is doing: pairs to create, players matched so far
  matches,    \* created matches [bw, sc2, open, published]
  waves,      \* number of waves begun
  events      \* kinds of unscheduled event that have happened

queueVars == <<players, rating, state, joining>>
viewVars == <<views, manager, listener>>
vars == <<queueVars, viewVars, wave, matches, waves, events>>

\* The queue has each of its players once and every player's ratings; the
\* join button refuses a selection without a race.
Selection == (SUBSET {"bw", "sc2"}) \ {{}}
StartsAssumption ==
  \A start \in Starts :
    /\ start.queue \in Seq(Player) /\ IsInjective(start.queue)
    /\ start.rating \in [Player -> [bw : Nat, sc2 : Nat]]
    /\ start.races \in [Player -> Selection]
ASSUME StartsAssumption

RaceChoicesAssumption == RaceChoices \subseteq Selection
ASSUME RaceChoicesAssumption

-----------------------------------------------------------------------------
(* Filters and stable sorts.                                                 *)

\* What s has at the positions `at`, by ascending key, equals as in s.
InOrder(s, at, key) ==
  LET before(i, j) == key[i] < key[j] \/ (key[i] = key[j] /\ i < j)
      rank == [i \in at |-> Cardinality({j \in at : before(j, i)})]
  IN  [k \in 1..Cardinality(at) |-> s[CHOOSE i \in at : rank[i] = k - 1]]

SortedBy(s, Key(_)) == InOrder(s, DOMAIN s, [i \in DOMAIN s |-> Key(s[i])])
Kept(s, Test(_)) == InOrder(s, {i \in DOMAIN s : Test(s[i])}, [i \in DOMAIN s |-> i])

Matches == 1..Len(matches)
ViewIds == 1..Len(views)
Entries(p) == Kept(players, LAMBDA e : e.who = p)
IsQueued(p) == Entries(p) # <<>>
Without(gone) == Kept(players, LAMBDA e : e.who \notin gone)
InMatch(p) == state[p] > 0

-----------------------------------------------------------------------------
(* The pairing algorithm, on a sequence of queue entries.                    *)

Bw(e) == rating[e.who].bw
Sc2(e) == rating[e.who].sc2
IsBoth(e) == e.races = {"bw", "sc2"}
Bias(e) == Bw(e) - Sc2(e)
AbsOf(n) == IF n < 0 THEN -n ELSE n
SumOf(Key(_), s) == FoldLeft(LAMBDA acc, e : acc + Key(e), 0, s)
FirstOf(s, n) == SubSeq(s, 1, n)
LastOf(s, n) == Reverse(SubSeq(s, Len(s) - n + 1, Len(s)))
AtMost(a, b) == IF a < b THEN a ELSE b

BwOnly(q) == SortedBy(Kept(q, LAMBDA e : e.races = {"bw"}), LAMBDA e : -Bw(e))
Sc2Only(q) == SortedBy(Kept(q, LAMBDA e : e.races = {"sc2"}), LAMBDA e : -Sc2(e))
BothRaces(q) == SortedBy(Kept(q, IsBoth), LAMBDA e : -Max({Bw(e), Sc2(e)}))

\* Players of both races fill the shorter side, the most biased first, and
\* are then dealt to the two sides in turn.
Dealt(x, y, z) ==
  LET byBias == SortedBy(z, Bias)
      n == Len(z)
      toBw == AtMost(Max({Len(y) - Len(x), 0}), n)
      toSc2 == AtMost(Max({Len(x) - Len(y), 0}), n)
      rest == SubSeq(byBias, toSc2 + 1, n - toBw)
      half == Len(rest) \div 2
  IN  IF x = <<>> /\ y = <<>>
      THEN [bw |-> SubSeq(byBias, (n \div 2) + 1, n), sc2 |-> FirstOf(byBias, n \div 2)]
      ELSE [bw |-> x \o LastOf(byBias, toBw) \o LastOf(rest, half),
            sc2 |-> y \o FirstOf(byBias, toSc2) \o FirstOf(rest, Len(rest) - half)]

\* When one side is stronger on average its most neutral player of both races
\* changes sides, unless that makes the sides more unequal in number.
Moved(from, to, mover) == [from |-> Kept(from, LAMBDA e : e.id # mover.id),
                           to |-> Append(to, mover)]
Rebalanced(sides) ==
  LET bw == sides.bw
      sc2 == sides.sc2
      delta == SumOf(Bw, bw) * Len(sc2) - SumOf(Sc2, sc2) * Len(bw)
      limit == BalanceThreshold * Len(bw) * Len(sc2)
      neutral(s) == SortedBy(Kept(s, IsBoth), LAMBDA e : AbsOf(Bias(e)))
      fits(from, to) == /\ neutral(from) # <<>>
                        /\ AbsOf(Len(from) - Len(to) - 2) <= AbsOf(Len(from) - Len(to))
      toSc2 == Moved(bw, sc2, neutral(bw)[1])
      toBw == Moved(sc2, bw, neutral(sc2)[1])
  IN  CASE delta > limit /\ fits(bw, sc2) -> [bw |-> toSc2.from, sc2 |-> toSc2.to]
        [] delta < -limit /\ fits(sc2, bw) -> [bw |-> toBw.to, sc2 |-> toBw.from]
        [] OTHER -> sides

Equalized(q) ==
  LET x == BwOnly(q)
      y == Sc2Only(q)
      z == BothRaces(q)
  IN  IF z = <<>> THEN [bw |-> x, sc2 |-> y]
      ELSE IF x = <<>> /\ y = <<>> THEN Dealt(x, y, z)
      ELSE Rebalanced(Dealt(x, y, z))

WhoOf(s) == {s[i].who : i \in DOMAIN s}
Overlap(sides) == WhoOf(sides.bw) \cap WhoOf(sides.sc2)

\* The larger side keeps its longest waiting players.
Prioritized(s, n) ==
  IF Len(s) = n THEN s ELSE FirstOf(SortedBy(s, LAMBDA e : -e.wait), n)
Filtered(sides) ==
  LET n == AtMost(Len(sides.bw), Len(sides.sc2))
  IN  [bw |-> Prioritized(sides.bw, n), sc2 |-> Prioritized(sides.sc2, n)]

MaxDiff(e) == BaseWindow + e.wait * WindowGrowth
Diff(pair) == AbsOf(Bw(pair.bw) - Sc2(pair.sc2))
InWindow(pair) == Diff(pair) <= MaxDiff(pair.bw) \/ Diff(pair) <= MaxDiff(pair.sc2)
Score(pair) == Diff(pair) * Diff(pair) - (pair.bw.wait + pair.sc2.wait) * WaitPriority

\* Candidates in the order of the two nested loops, the lead side outside.
Candidates(sides, bwLeads) ==
  LET n == Len(sides.sc2)
      k == Len(sides.bw)
      pairOf(i) == IF bwLeads
                   THEN [bw |-> sides.bw[((i - 1) \div n) + 1], sc2 |-> sides.sc2[((i - 1) % n) + 1]]
                   ELSE [bw |-> sides.bw[((i - 1) % k) + 1], sc2 |-> sides.sc2[((i - 1) \div k) + 1]]
      isCandidate(pair) == pair.bw.who # pair.sc2.who /\ InWindow(pair)
  IN  Kept([i \in 1..(n * k) |-> pairOf(i)], isCandidate)

\* Mutants: of a pair only one player is marked as used; pairing stops at the
\* first candidate that is not free.
BwIsFree(chosen, pair) == \A i \in DOMAIN chosen : chosen[i].bw.who # pair.bw.who
NoneChosen(chosen, pair) == chosen = <<>>
IsFree(chosen, pair) ==
  \A i \in DOMAIN chosen : chosen[i].bw.who # pair.bw.who /\ chosen[i].sc2.who # pair.sc2.who
Selected(candidates) ==
  FoldLeft(LAMBDA chosen, pair : IF IsFree(chosen, pair) THEN Append(chosen, pair) ELSE chosen,
           <<>>, SortedBy(candidates, Score))

SwapHelps(a, b) ==
  LET a2 == [a EXCEPT !.sc2 = b.sc2]
      b2 == [b EXCEPT !.sc2 = a.sc2]
      error(p, r) == Diff(p) * Diff(p) + Diff(r) * Diff(r)
  IN  /\ error(a2, b2) < error(a, b)
      /\ a2.bw.who # a2.sc2.who /\ b2.bw.who # b2.sc2.who
      /\ InWindow(a2) /\ InWindow(b2)

\* One pass of swaps of the follow players of neighbours; a second pass that
\* changes nothing leaves the pairs as they are.
Swapped(ps, i, follow) ==
  [ps EXCEPT ![i][follow] = ps[i + 1][follow], ![i + 1][follow] = ps[i][follow]]
RefinedOnce(pairs, follow) ==
  FoldLeft(LAMBDA ps, i : IF SwapHelps(ps[i], ps[i + 1]) THEN Swapped(ps, i, follow) ELSE ps,
           pairs, [i \in 1..(Len(pairs) - 1) |-> i])
Refined(pairs, follow) ==
  IF Len(pairs) < 2 THEN pairs
  ELSE FoldLeft(LAMBDA ps, pass : RefinedOnce(ps, follow), pairs,
                [i \in 1..RefinementPasses |-> i])

Plan(q) ==
  LET sides == Equalized(q)
      bwLeads == Len(sides.bw) <= Len(sides.sc2)
  IN  IF sides.bw = <<>> \/ sides.sc2 = <<>> THEN <<>>
      ELSE Refined(Selected(Candidates(Filtered(sides), bwLeads)),
                   IF bwLeads THEN "sc2" ELSE "bw")

-----------------------------------------------------------------------------
(* Views and subscriptions.                                                  *)

NewView(p) == [who |-> p, task |-> "waiting", inbox |-> <<>>, queue |-> NoView,
               ready |-> FALSE, active |-> TRUE, expired |-> FALSE]
Listens(v) == views[v].task \in {"waiting", "showing"}
Silenced(view) == IF view.task \in {"waiting", "showing"}
                  THEN [view EXCEPT !.task = "ended"] ELSE view
Deactivated(view) == [Silenced(view) EXCEPT !.active = FALSE]
Unsubscribed(ps) == [p \in Player |-> IF p \in ps THEN NoView ELSE listener[p]]

\* The views registered for ps.
CurrentViews(ps) == {v \in ViewIds : v \in {manager[p] : p \in ps}}

\* QueueSearchingViewManager.unregister(p): a listener that is cancelled
\* unsubscribes its player on the way out.
Unregister(ps) ==
  /\ views' = [v \in ViewIds |->
                 IF v \in CurrentViews(ps) THEN Deactivated(views[v]) ELSE views[v]]
  /\ manager' = [p \in Player |-> IF p \in ps THEN NoView ELSE manager[p]]
  /\ listener' = Unsubscribed({p \in ps : manager[p] # NoView /\ Listens(manager[p])})

Happens(kind) ==
  /\ kind \in Events \ events
  /\ Cardinality(events) < MaxEvents
  /\ events' = events \cup {kind}

NoWave == [task |-> "sleeping", todo |-> <<>>, matched |-> {}]

\* Some players have joined before and wait for the first wave.
Init ==
  /\ \E start \in Starts :
       /\ rating = start.rating
       /\ players = [i \in DOMAIN start.queue |->
                       [id |-> i, who |-> start.queue[i],
                        races |-> start.races[start.queue[i]], wait |-> 0]]
  /\ state = [p \in Player |-> IF p \in WhoOf(players) THEN Queueing ELSE Idle]
  /\ joining = [p \in Player |-> {}]
  /\ views = [i \in DOMAIN players |-> [NewView(players[i].who) EXCEPT !.ready = TRUE, !.queue = i]]
  /\ manager = [p \in Player |->
                  IF IsQueued(p) THEN CHOOSE i \in DOMAIN players : players[i].who = p ELSE NoView]
  /\ listener = manager
  /\ wave = NoWave
  /\ matches = <<>>
  /\ waves = 0
  /\ events = {}

-----------------------------------------------------------------------------
(* Joining and leaving.                                                      *)

\* add_player appends the entry; the callback makes the searching view and
\* registers it, which deactivates a view still registered.  Then the tasks
\* run: the new listener subscribes, finding the queue of the old one if there
\* is one, and the listener of a deactivated view, cancelled, unsubscribes the
\* player.
Enqueue(p, races) ==
  LET new == Len(views) + 1
      old == manager[p]
      inherited == IF listener[p] = NoView THEN new ELSE listener[p]
  IN  /\ Len(views) < MaxViews
      /\ players' = Append(players, [id |-> new, who |-> p, races |-> races, wait |-> 0])
      /\ views' = Append([v \in ViewIds |-> IF v = old THEN Deactivated(views[v]) ELSE views[v]],
                         [NewView(p) EXCEPT !.queue = inherited])
      /\ manager' = [manager EXCEPT ![p] = new]
      /\ listener' = [listener EXCEPT ![p] =
                        IF old # NoView /\ Listens(old) THEN NoView ELSE inherited]

\* JoinQueueButton.callback with races that have ratings: nothing is awaited
\* between the test of the state and the registration of the view.
JoinQueue(p) ==
  /\ state[p] = Idle
  /\ \E races \in RaceChoices : Enqueue(p, races)
  /\ state' = [state EXCEPT ![p] = Queueing]
  /\ UNCHANGED <<rating, joining, wave, matches, waves, events>>

\* With a race that has none, add_player creates the rating and waits for the
\* ranks to be refreshed before it appends the entry.
JoinNewRace(p) ==
  /\ state[p] = Idle
  /\ joining[p] = {}
  /\ Happens("newRace")
  /\ \E races \in RaceChoices : joining' = [joining EXCEPT ![p] = {races}]
  /\ state' = [state EXCEPT ![p] = Queueing]
  /\ UNCHANGED <<players, rating, viewVars, wave, matches, waves>>

AddPlayer(p) ==
  /\ \E races \in joining[p] : Enqueue(p, races)
  /\ joining' = [joining EXCEPT ![p] = {}]
  /\ UNCHANGED <<rating, state, wave, matches, waves, events>>

\* add_player raises: the state is rolled back.
JoinFails(p) ==
  /\ joining[p] # {}
  /\ joining' = [joining EXCEPT ![p] = {}]
  /\ state' = [state EXCEPT ![p] = Idle]
  /\ UNCHANGED <<players, rating, viewVars, wave, matches, waves, events>>

\* The searching message has been sent and the interaction stored.
ViewReady(v) ==
  /\ ~views[v].ready
  /\ views' = [views EXCEPT ![v].ready = TRUE]
  /\ UNCHANGED <<queueVars, manager, listener, wave, matches, waves, events>>

\* A player who has been matched meanwhile stays in the match.
StateAfterLeaving(p) == IF InMatch(p) THEN state[p] ELSE Idle

\* What a cancellation and a timeout of view v have in common.
Leave(v) ==
  LET p == views[v].who
  IN  /\ players' = Without({p})
      /\ state' = [state EXCEPT ![p] = StateAfterLeaving(p)]
      /\ listener' = Unsubscribed({p})
      /\ manager' = [manager EXCEPT ![p] = IF manager[p] = v THEN NoView ELSE manager[p]]
      /\ UNCHANGED <<rating, joining, wave, matches, waves>>

CancelQueue(v) ==
  /\ views[v].active
  /\ Leave(v)
  /\ views' = [views EXCEPT ![v] = Deactivated(views[v])]
  /\ Happens("cancel")

\* A view is never stopped, only deactivated, so its timeout comes even when
\* the player has long moved on to another one.
ViewTimesOut(v) ==
  /\ ~views[v].expired
  /\ Happens("timeout")
  /\ Leave(v)
  /\ views' = [views EXCEPT ![v] =
                 [(IF manager[views[v].who] = v THEN Deactivated(views[v]) ELSE Silenced(views[v]))
                  EXCEPT !.expired = TRUE]]

-----------------------------------------------------------------------------
(* Waves.                                                                    *)

\* attempt_match up to the first create_match: nothing is awaited.
BeginWave ==
  LET waited == [i \in DOMAIN players |-> [players[i] EXCEPT !.wait = @ + 1]]
  IN  /\ wave.task = "sleeping"
      /\ players # <<>>
      /\ waves < MaxWaves
      /\ waves' = waves + 1
      /\ players' = waited
      /\ wave' = IF Overlap(Equalized(waited)) # {} THEN [NoWave EXCEPT !.task = "dead"]
                  ELSE IF Len(waited) >= 2 /\ Plan(waited) # <<>>
                    THEN [NoWave EXCEPT !.task = "creating", !.todo = Plan(waited)]
                  ELSE NoWave
      /\ UNCHANGED <<rating, state, joining, viewVars, matches, events>>

\* Who is matched in this wave.  Mutant: only the last pair.
LastPair(both) == both
MatchedWith(both) == wave.matched \cup both

\* Number of the match being created.  Mutant: one too many.
MatchAfterNext == Len(matches) + 2
NextMatch == Len(matches) + 1

Creating == wave.task = "creating"

\* The database has created the match of the first pair: the players' states
\* are set and the notification is scheduled.  After the last pair the players
\* that were matched leave the queue.
CreateMatch ==
  LET pair == Head(wave.todo)
      both == {pair.bw.who, pair.sc2.who}
      matched == MatchedWith(both)
      last == Len(wave.todo) = 1
  IN  /\ Creating
      /\ matches' = Append(matches, [bw |-> pair.bw.who, sc2 |-> pair.sc2.who,
                                     open |-> TRUE, published |-> FALSE])
      /\ state' = [p \in Player |-> IF p \in both THEN NextMatch ELSE state[p]]
      /\ players' = IF last THEN Without(matched) ELSE players
      /\ wave' = IF last THEN NoWave
                  ELSE [wave EXCEPT !.todo = Tail(@), !.matched = matched]
      /\ UNCHANGED <<rating, joining, viewVars, waves, events>>

\* create_match raises: the exception ends Matchmaker.run, and nothing starts it
\* again: on_ready registers the commands first, which a second time raises.
CreateFails ==
  /\ wave.task = "creating"
  /\ Happens("createFails")
  /\ wave' = [NoWave EXCEPT !.task = "dead"]
  /\ UNCHANGED <<queueVars, viewVars, matches, waves>>

PlayersOf(m) == {matches[m].bw, matches[m].sc2}

\* Whose queues receive the match.  Mutant: only that of the first player.
FirstTold(m) == {listener[matches[m].bw]} \ {NoView}
Told(m) == {listener[p] : p \in PlayersOf(m)} \ {NoView}

\* NotificationService.publish_match_found
Publish(m) ==
  /\ ~matches[m].published
  /\ matches' = [matches EXCEPT ![m].published = TRUE]
  /\ views' = [v \in ViewIds |->
                 IF v \in Told(m) THEN [views[v] EXCEPT !.inbox = Append(@, m)] ELSE views[v]]
  /\ UNCHANGED <<queueVars, manager, listener, wave, waves, events>>

\* The listener receives a match.  Without a stored interaction it raises and
\* unsubscribes, the view staying as it is.
ListenerWakes(v) ==
  LET q == views[v].queue
      woken == [views EXCEPT ![q].inbox = Tail(@)]
  IN  /\ views[v].task = "waiting"
      /\ views[q].inbox # <<>>
      /\ views' = [woken EXCEPT ![v].task = IF views[v].ready THEN "showing" ELSE "ended"]
      /\ listener' = IF views[v].ready THEN listener ELSE Unsubscribed({views[v].who})
      /\ UNCHANGED <<queueVars, manager, wave, matches, waves, events>>

\* The notification has been sent: the view is deactivated and unregistered.
ShowMatch(v) ==
  LET p == views[v].who
  IN  /\ views[v].task = "showing"
      /\ views' = [views EXCEPT ![v].task = "shown", ![v].active = FALSE]
      /\ manager' = [manager EXCEPT ![p] = IF manager[p] = v THEN NoView ELSE manager[p]]
      /\ listener' = Unsubscribed({p})
      /\ UNCHANGED <<queueVars, wave, matches, waves, events>>

\* Discord refuses the notification.
ShowFails(v) ==
  /\ views[v].task = "showing"
  /\ Happens("showFails")
  /\ views' = [views EXCEPT ![v].task = "ended"]
  /\ listener' = Unsubscribed({views[v].who})
  /\ UNCHANGED <<queueVars, manager, wave, matches, waves>>

\* release_queue_lock_for_players, when the match has its result
Free(ps) ==
  /\ state' = [p \in Player |-> IF p \in ps THEN Idle ELSE state[p]]
  /\ Unregister(ps)

\* While a wave is still creating its other matches this is a race of minutes
\* against milliseconds, counted as an event.
EndMatch(m) ==
  /\ matches[m].open
  /\ matches[m].published
  /\ IF wave.task = "creating" THEN Happens("earlyEnd") ELSE UNCHANGED events
  /\ matches' = [matches EXCEPT ![m].open = FALSE]
  /\ Free(PlayersOf(m))
  /\ UNCHANGED <<players, rating, joining, wave, waves>>

\* The players of a completed match are released once more after its
\* callbacks, whatever they do by then.
ReleaseAgain(m) ==
  /\ ~matches[m].open
  /\ Happens("releaseAgain")
  /\ Free(PlayersOf(m))
  /\ UNCHANGED <<players, rating, joining, wave, matches, waves>>

-----------------------------------------------------------------------------
(* Admin commands on the queue, when their confirmation is clicked.          *)

\* AdminService._clear_player_queue_lock, with the state set idle before it
ClearQueueLock(ps) ==
  /\ players' = Without(ps)
  /\ Free(ps)
  /\ UNCHANGED <<rating, joining, wave, matches, waves>>

\* AdminService.force_remove_from_queue and the command that calls it
ForceRemoveFromQueue(p) == IsQueued(p) /\ ClearQueueLock({p})
AdminRemoveQueue(p) == Happens("forceRemove") /\ ForceRemoveFromQueue(p)

\* AdminService.emergency_clear_queue and the command that calls it
EmergencyClearQueue == ClearQueueLock(WhoOf(players))
AdminClearQueue == Happens("clearQueue") /\ EmergencyClearQueue

\* AdminService.unblock_player_state sets the state and nothing else.
UnblockPlayerState(p) ==
  /\ state' = [state EXCEPT ![p] = Idle]
  /\ UNCHANGED <<players, rating, joining, viewVars, wave, matches, waves>>
AdminUnblockQueue(p) == Happens("unblock") /\ UnblockPlayerState(p)

-----------------------------------------------------------------------------
PlayerStep(p) == JoinQueue(p) \/ JoinNewRace(p) \/ AddPlayer(p) \/ JoinFails(p)
ViewStep(v) == \/ ViewReady(v) \/ CancelQueue(v) \/ ViewTimesOut(v)
               \/ ListenerWakes(v) \/ ShowMatch(v) \/ ShowFails(v)
WaveStep == BeginWave \/ CreateMatch \/ CreateFails
MatchStep(m) == Publish(m) \/ EndMatch(m) \/ ReleaseAgain(m)
AdminStep == AdminClearQueue \/ \E p \in Player : AdminRemoveQueue(p) \/ AdminUnblockQueue(p)

Next == \/ \E p \in Player : PlayerStep(p)
        \/ \E v \in ViewIds : ViewStep(v)
        \/ WaveStep
        \/ \E m \in Matches : MatchStep(m)
        \/ AdminStep

Spec == Init /\ [][Next]_vars

\* The event loop runs every task that is ready: a scheduled publication, a
\* listener with a match in its queue, a database call that returns.
Fairness ==
  /\ WF_vars(CreateMatch \/ CreateFails)
  /\ \A m \in 1..MaxViews : WF_vars(m \in Matches /\ Publish(m))
  /\ \A v \in 1..MaxViews :
       WF_vars(v \in ViewIds /\ (ListenerWakes(v) \/ ShowMatch(v) \/ ShowFails(v)))
FairSpec == Spec /\ Fairness

-----------------------------------------------------------------------------
(* Correctness properties.                                                   *)

Entry == [id : Nat, who : Player, races : Selection, wait : Nat]

\* Every variable keeps its type.
TypeOK ==
  /\ rating \in [Player -> [bw : Nat, sc2 : Nat]]
  /\ \A i \in DOMAIN players : players[i] \in Entry
  /\ state \in [Player -> {Idle, Queueing} \cup Matches]
  /\ manager \in [Player -> ViewIds \cup {NoView}]
  /\ listener \in [Player -> ViewIds \cup {NoView}]
  /\ \A v \in ViewIds : /\ views[v].task \in {"waiting", "showing", "shown", "ended"}
                        /\ views[v].queue \in ViewIds
                        /\ Range(views[v].inbox) \subseteq Matches
  /\ wave.task \in {"sleeping", "creating", "dead"}
  /\ events \subseteq Events

\* What a wave is about to create is sound whatever happened to the queue: no
\* player twice, each with a race it chose, the difference inside the window
\* of one of the two.
PairsAreSound ==
  LET todo == wave.todo
  IN  /\ \A i \in DOMAIN todo : /\ "bw" \in todo[i].bw.races /\ "sc2" \in todo[i].sc2.races
                                /\ InWindow(todo[i])
      /\ \A i, j \in DOMAIN todo : /\ todo[i].bw.who # todo[j].sc2.who
                                   /\ i # j => /\ todo[i].bw.who # todo[j].bw.who
                                               /\ todo[i].sc2.who # todo[j].sc2.who

NothingOverlooked(q) ==
  LET kept == Filtered(Equalized(q))
      plan == Range(Plan(q))
  IN  \A e \in Range(kept.bw), f \in Range(kept.sc2) :
        e.who # f.who /\ InWindow([bw |-> e, sc2 |-> f])
          => \E pair \in plan : pair.bw.who = e.who \/ pair.sc2.who = f.who

Balanced(q) ==
  LET sides == Equalized(q)
      forced == AbsOf(Len(BwOnly(q)) - Len(Sc2Only(q))) - Len(BothRaces(q))
  IN  /\ Range(sides.bw \o sides.sc2) = Range(q)
      /\ Len(sides.bw) + Len(sides.sc2) = Len(q)
      /\ \A e \in Range(sides.bw) : "bw" \in e.races
      /\ \A e \in Range(sides.sc2) : "sc2" \in e.races
      /\ AbsOf(Len(sides.bw) - Len(sides.sc2)) <= Max({1, forced})

RefinementHelps(q) ==
  LET first == Selected(Candidates(Filtered(Equalized(q)), TRUE))
      refined == Refined(first, "sc2")
      error(pairs) == SumOf(LAMBDA pair : Diff(pair) * Diff(pair), pairs)
  IN  /\ error(refined) <= error(first)
      /\ \A side \in {"bw", "sc2"} :
           {pair[side] : pair \in Range(refined)} = {pair[side] : pair \in Range(first)}

\* A wave pairs well: players of both races are dealt so that everybody has one
\* side, a race for it, and the sides differ by no more than the others force
\* them to; no two players it keeps, and who accept each other, are both left
\* without a match; its swaps keep everybody matched and the total error no
\* worse.
WavesPairWell ==
  [][waves' > waves => /\ Balanced(players')
                       /\ NothingOverlooked(players')
                       /\ RefinementHelps(players')]_vars

Undisturbed(kinds) == events \cap kinds = {}

\* As long as nothing but the queue itself sets a player idle, the queue lists
\* nobody twice, everybody in it is queueing or just being matched, and
\* everybody who is queueing is in it.
QueueingIffQueued ==
  Undisturbed({"newRace", "releaseAgain", "earlyEnd", "unblock", "forceRemove",
               "clearQueue", "createFails"}) =>
    \A p \in Player :
      /\ Len(Entries(p)) <= 1
      /\ IsQueued(p) => state[p] = Queueing \/ p \in wave.matched
      /\ state[p] = Queueing => IsQueued(p)

OpenMatches(p) == {m \in Matches : matches[m].open /\ p \in PlayersOf(m)}

\* Nobody is put into a second match while in one, though waves work on a copy
\* of the queue that players leave and enter meanwhile.
OneOpenMatch ==
  Undisturbed({"newRace", "releaseAgain", "earlyEnd", "unblock", "forceRemove",
               "clearQueue"}) =>
    \A p \in Player : /\ Cardinality(OpenMatches(p)) <= 1
                      /\ InMatch(p) => state[p] \in OpenMatches(p)

\* A view that shows a search is subscribed, and its player can be matched:
\* only a late timeout of an older view, or an admin, can take that away.
SearchIsServed ==
  Undisturbed({"newRace", "timeout", "releaseAgain", "earlyEnd", "unblock",
               "forceRemove", "clearQueue"}) =>
    \A v \in ViewIds :
      LET p == views[v].who
      IN  views[v].active /\ views[v].task = "waiting" =>
            /\ manager[p] = v
            /\ listener[p] = views[v].queue
            /\ IsQueued(p) \/ InMatch(p)

\* Where a player is, as player_state, the queue, the views, the subscriptions
\* and the matches tell it, is one and the same place, while players cancel
\* and join between the steps of a wave.
PlacesAgree == QueueingIffQueued /\ OneOpenMatch /\ SearchIsServed

\* A player whose search is running when a match is made for them stops
\* waiting: they are shown the match, or leave.
MatchedAreTold ==
  \A v \in 1..MaxViews :
    (/\ v \in ViewIds /\ views[v].task = "waiting"
     /\ \E m \in OpenMatches(views[v].who) : ~matches[m].published
     /\ Undisturbed({"newRace", "timeout", "releaseAgain", "earlyEnd", "unblock", "forceRemove",
                     "clearQueue"}))
      ~> (~Undisturbed({"timeout"}) \/ (v \in ViewIds => views[v].task # "waiting"))
=============================================================================
