----------------------------- MODULE Standings -----------------------------
(***************************************************************************)
(* The standings: from the rows of mmrs_1v1 in memory through the rankings *)
(* of RankingService to the pages of /leaderboard.                         *)
(*                                                                         *)
(* Whatever changes a rating asks for a refresh of the rankings, which a   *)
(* thread computes from the rows of the moment it holds the refresh lock   *)
(* and publishes later.  A page is looked up row by row on the event loop  *)
(* while that thread may publish, then filtered in a thread of the         *)
(* executor, and several clicks on one message may be in the executor at   *)
(* once and come back in any order.                                        *)
(***************************************************************************)
EXTENDS Integers, Sequences, FiniteSets, SequencesExt, Functions

CONSTANTS
  Entry,         \* pairs of a player and a race; the numbers are row ids
  PlayerOf,      \* the player of each entry
  Rating,        \* values of mmr
  NewRating,     \* the mmr of a row created when a player queues
  Window,        \* days after which a row is inactive: 14
  PageSize,      \* 40
  MaxPages,      \* 25, as many as a select has options
  RankCycle,     \* what the rank button cycles through after "all"
  Selection,     \* what filters by race and country leave of the entries
  None,
  MaxDay,        \* bound: days of a behaviour
  MaxChanges,    \* bound: changes of the ratings
  MaxClicks      \* bound: clicks on the message

ASSUME BoundsAssumption ==
  /\ Entry \subseteq Nat /\ IsFiniteSet(Entry)
  /\ DOMAIN PlayerOf = Entry
  /\ Rating \subseteq Int /\ NewRating \in Rating
  /\ Window \in Nat /\ {PageSize, MaxPages} \subseteq Nat \ {0}
  /\ Entry \in Selection /\ Selection \subseteq SUBSET Entry
  /\ {MaxDay, MaxChanges, MaxClicks} \subseteq Nat

VARIABLES
  row,           \* _mmrs_1v1_df: the row of each entry, or None
  now,           \* the day
  waiting,       \* refreshes in the executor that wait for _refresh_lock
  fresh,         \* the rankings the holder of the lock computed, or None
  ranking,       \* _rankings: the ranked entries, best first
  drifted,       \* history: rows were reconciled since the last refresh began
  view,          \* LeaderboardView: the page and the filters chosen
  lookup,        \* the page being looked up on the event loop, or None
  fetches,       \* pages in the executor
  shown,         \* what the message shows, or None
  overlapped,    \* history: the last click came while a page was fetched
  changes, clicks

ratingVars == <<row, waiting, drifted, changes>>
rankVars == <<fresh, ranking>>
viewVars == <<view, lookup, fetches, shown, overlapped, clicks>>
vars == <<ratingVars, now, rankVars, viewVars>>

-----------------------------------------------------------------------------
(* How many of n ranked entries get each letter *)

Letters == <<"s", "a", "b", "c", "d", "e", "f">>
Letter == {"s", "a", "b", "c", "d", "e", "f"}

Percent == [s |-> 1, a |-> 7, b |-> 21, c |-> 21, d |-> 21, e |-> 21, f |-> 8]

Floor(n) == [r \in Letter |-> (n * Percent[r]) \div 100]

Left(n) ==
  LET q == Floor(n) IN n - (q.s + q.a + q.b + q.c + q.d + q.e + q.f)

\* Who gets one of those left over, in this order.
Turns(n) ==
  LET q == Floor(n)
  IN  IF q.f > q.s + q.a THEN <<"d", "c", "e", "b", "a", "f", "s">>
                         ELSE <<"d", "c", "e", "b", "f", "a", "s">>

Allocation(n) ==
  [r \in Letter |->
     Floor(n)[r] + IF \E k \in 1..7 : k <= Left(n) /\ Turns(n)[k] = r THEN 1 ELSE 0]

-----------------------------------------------------------------------------
(* Rankings *)

\* The order of _load_all_mmr_data: mmr, last_played and id, descending.
Ahead(e, f) ==
  \/ row[e].mmr > row[f].mmr
  \/ row[e].mmr = row[f].mmr /\ row[e].last > row[f].last
  \/ row[e].mmr = row[f].mmr /\ row[e].last = row[f].last /\ e > f

Rows == {e \in Entry : row[e] # None}

\* Ranked are those who have played, and lately.
IsRanked(e) == row[e].played /\ now - row[e].last <= Window

Ranked ==
  LET lately == {e \in Rows : IsRanked(e)}
      place == [e \in lately |-> 1 + Cardinality({f \in lately : Ahead(f, e)})]
  IN  Inverse(place, lately, 1..Cardinality(lately))

\* A ranking says of an entry: its letter and its place.
UpTo(n, k) == FoldLeft(LAMBDA sum, r : sum + Allocation(n)[r], 0, SubSeq(Letters, 1, k))

LetterAt ==
  [n \in 0..Cardinality(Entry) |->
     [i \in 1..n |-> Letters[1 + Cardinality({k \in 1..7 : UpTo(n, k) < i})]]]

Unranked == [letter |-> "u", place |-> -1]

RankIn(r, e) ==
  IF e \in ToSet(r)
    THEN LET i == CHOOSE j \in DOMAIN r : r[j] = e
         IN  [letter |-> LetterAt[Len(r)][i], place |-> i]
    ELSE Unranked

-----------------------------------------------------------------------------
(* What changes the ratings.  A step of the event loop, as the clicks are:   *)
(* none happens while a page is looked up.                                  *)

Changes ==
  /\ lookup = None
  /\ changes < MaxChanges
  /\ changes' = changes + 1

\* Mutant: a refresh that is running will do.
AskIfIdle(n) ==
  /\ waiting' = IF fresh = None THEN waiting + n ELSE waiting
  /\ UNCHANGED <<now, drifted, rankVars, viewVars>>

AskRefresh(n) ==
  /\ waiting' = waiting + n
  /\ UNCHANGED <<now, drifted, rankVars, viewVars>>

\* create_or_update_mmr for a player who queues with a race for the first time.
CreateRow(e) ==
  /\ Changes
  /\ row[e] = None
  /\ row' = [row EXCEPT ![e] = [mmr |-> NewRating, played |-> FALSE, last |-> now, match |-> None]]
  /\ AskRefresh(1)

\* update_player_mmr after a match, which was created this day.
Rate(e, m) ==
  /\ Changes
  /\ row[e] # None
  /\ row' = [row EXCEPT ![e] = [mmr |-> m, played |-> TRUE, last |-> now, match |-> now]]
  /\ AskRefresh(1)

\* adjust_player_mmr: the games stay, last_played does not.  It asks for a
\* refresh after the one update_player_mmr asks for.
Adjust(e, m) ==
  /\ Changes
  /\ row[e] # None
  /\ row' = [row EXCEPT ![e].mmr = m, ![e].last = now]
  /\ AskRefresh(2)

\* reconcile_mmr_stats_from_matches: games and last_played of the matches.
\* It asks for no refresh.
Reconciled(e) ==
  IF row[e] = None \/ row[e].match = None THEN row[e]
  ELSE [row[e] EXCEPT !.played = TRUE, !.last = row[e].match]

Reconcile ==
  /\ Changes
  /\ row' = [e \in Entry |-> Reconciled(e)]
  /\ drifted' = (drifted \/ row' # row)
  /\ UNCHANGED <<now, waiting, rankVars, viewVars>>

DayPasses ==
  /\ now < MaxDay
  /\ now' = now + 1
  /\ UNCHANGED <<ratingVars, rankVars, viewVars>>

-----------------------------------------------------------------------------
(* refresh_rankings, in a thread *)

\* The lock is taken and the rows are loaded.
StartRefresh ==
  /\ waiting > 0
  /\ fresh = None
  /\ waiting' = waiting - 1
  /\ fresh' = Ranked
  /\ drifted' = FALSE
  /\ UNCHANGED <<row, changes, now, ranking, viewVars>>

PublishRefresh ==
  /\ fresh # None
  /\ ranking' = fresh
  /\ fresh' = None
  /\ UNCHANGED <<ratingVars, now, viewVars>>

-----------------------------------------------------------------------------
(* Pages *)

NoFilters == [page |-> 1, rank |-> "all", best |-> FALSE, only |-> Entry]

\* Mutant: the arguments are taken before the click has changed the view.
LookUpFirst(ask) ==
  /\ lookup = None
  /\ clicks < MaxClicks
  /\ clicks' = clicks + 1
  /\ view' = ask
  /\ lookup' = [ask |-> view, from |-> ranking]
  /\ UNCHANGED <<ratingVars, now, rankVars>>

\* get_leaderboard_data begins: the arguments are taken from the view, and the
\* ranks are looked up one after the other, the letter before the place.
LookUp(ask) ==
  /\ lookup = None
  /\ clicks < MaxClicks
  /\ clicks' = clicks + 1
  /\ view' = ask
  /\ lookup' = [ask |-> view', from |-> ranking]
  /\ UNCHANGED <<ratingVars, now, rankVars>>

\* The first j lookups saw the ranking the loop began with, the others the one
\* published meanwhile.
Table(j) ==
  [e \in Rows |->
     LET i == Cardinality({f \in Rows : f <= e})
     IN  [letter |-> RankIn(IF 2 * i - 1 <= j THEN lookup.from ELSE ranking, e).letter,
          place |-> RankIn(IF 2 * i <= j THEN lookup.from ELSE ranking, e).place]]

\* _get_filtered_leaderboard_dataframe and the slice of the page.  The best
\* race of a player is chosen before the other filters.
BestOf(S) == {e \in S : ~ \E f \in S : PlayerOf[f] = PlayerOf[e] /\ Ahead(f, e)}

Filtered(table, ask) ==
  LET placed == {e \in DOMAIN table : table[e].letter # "u"}
      best == IF ask.best THEN BestOf(placed) ELSE placed
  IN  {e \in best \cap ask.only : ask.rank = "all" \/ table[e].letter = ask.rank}

Least(a, b) == IF a < b THEN a ELSE b

\* Mutant: no page for no rows.
PagesOfRows(n) == Least(MaxPages, (n + PageSize - 1) \div PageSize)

Pages(n) == Least(MaxPages, IF n = 0 THEN 1 ELSE (n + PageSize - 1) \div PageSize)

Page(table, ask) ==
  LET found == Filtered(table, ask)
      above(e) == {f \in found : \/ table[f].place < table[e].place
                                \/ (table[f].place = table[e].place /\ f <= e)}
      order == Inverse([e \in found |-> Cardinality(above(e))], found, 1..Cardinality(found))
      total == Pages(Len(order))
      first == (ask.page - 1) * PageSize + 1
      last == Least(ask.page, total) * PageSize
  IN  [page |-> ask.page, total |-> total,
       entries |-> SubSeq(order, first, Least(last, Len(order)))]

FinishLookUp ==
  /\ lookup # None
  /\ \E j \in IF lookup.from = ranking THEN {0} ELSE 0..(2 * Cardinality(Rows)) :
       fetches' = Append(fetches, [ask |-> lookup.ask, page |-> Page(Table(j), lookup.ask)])
  /\ lookup' = None
  /\ UNCHANGED <<ratingVars, now, rankVars, view, shown, overlapped, clicks>>

\* update_view goes on with the page: the labels of the filters are those of
\* the view by now.
Labels == [rank |-> view.rank, best |-> view.best, only |-> view.only]

Render(i) ==
  /\ lookup = None
  /\ shown' = [page |-> fetches[i].page, labels |-> Labels]
  /\ fetches' = RemoveAt(fetches, i)
  /\ UNCHANGED <<ratingVars, now, rankVars, view, lookup, overlapped, clicks>>

-----------------------------------------------------------------------------
(* Clicks *)

\* /leaderboard: a message of its own; the view of an earlier one is stopped.
OpenLeaderboard ==
  /\ LookUp(NoFilters)
  /\ fetches' = <<>>
  /\ shown' = None
  /\ overlapped' = FALSE

Click(ask) ==
  /\ shown # None
  /\ LookUp(ask)
  /\ overlapped' = (fetches # <<>>)
  /\ UNCHANGED <<fetches, shown>>

\* Buttons are disabled by the page the message shows.
PreviousPage ==
  /\ shown # None /\ shown.page.page > 1
  /\ view.page > 1
  /\ Click([view EXCEPT !.page = @ - 1])

NextPage ==
  /\ shown # None /\ shown.page.page < shown.page.total
  /\ Click([view EXCEPT !.page = @ + 1])

GoToPage(p) ==
  /\ shown # None /\ p <= shown.page.total
  /\ Click([view EXCEPT !.page = p])

RankChoices == <<"all">> \o RankCycle

NextRank(r) ==
  LET i == CHOOSE k \in DOMAIN RankChoices : RankChoices[k] = r
  IN  RankChoices[(i % Len(RankChoices)) + 1]

CycleRank == Click([view EXCEPT !.rank = NextRank(@), !.page = 1])

ToggleBest == Click([view EXCEPT !.best = ~@, !.page = 1])

Select(S) == Click([view EXCEPT !.only = S, !.page = 1])

ClearFilters == Click(NoFilters)

\* on_timeout takes the controls away.
TimeOut ==
  /\ shown # None /\ lookup = None /\ fetches = <<>>
  /\ shown' = None
  /\ UNCHANGED <<ratingVars, now, rankVars, view, lookup, fetches, overlapped, clicks>>

-----------------------------------------------------------------------------
\* Start-up ranks the rows of the database before the bot takes commands; rows
\* without a game come from CreateRow.
Loaded ==
  {None} \cup [mmr : Rating, played : {TRUE}, last : {0}, match : {0}]

Init ==
  /\ row \in [Entry -> Loaded]
  /\ now = 0
  /\ waiting = 0
  /\ fresh = None
  /\ ranking = Ranked
  /\ drifted = FALSE
  /\ view = NoFilters
  /\ lookup = None
  /\ fetches = <<>>
  /\ shown = None
  /\ overlapped = FALSE
  /\ changes = 0
  /\ clicks = 0

RatingStep ==
  \/ \E e \in Entry :
       \/ CreateRow(e)
       \/ \E m \in Rating : Rate(e, m) \/ Adjust(e, m)
  \/ Reconcile
  \/ DayPasses

RankStep == StartRefresh \/ PublishRefresh

ViewStep ==
  \/ OpenLeaderboard \/ PreviousPage \/ NextPage \/ CycleRank \/ ToggleBest \/ ClearFilters
  \/ \E p \in 1..MaxPages : GoToPage(p)
  \/ \E S \in Selection : Select(S)
  \/ FinishLookUp
  \/ \E i \in DOMAIN fetches : Render(i)
  \/ TimeOut

Next == RatingStep \/ RankStep \/ ViewStep

Spec == Init /\ [][Next]_vars
-----------------------------------------------------------------------------
\* What the head of ranking_service.py promises of an allocation: no one is
\* left out, the middle letters are equal, S and A balance F.
AllocationFair(n) ==
  LET x == Allocation(n)
  IN  /\ x.s + x.a + x.b + x.c + x.d + x.e + x.f = n
      /\ x.d >= x.c /\ x.c >= x.e /\ x.e >= x.b /\ x.d - x.b <= 1
      /\ x.f - (x.s + x.a) \in {0, 1}

RowType == [mmr : Rating, played : BOOLEAN, last : 0..MaxDay, match : 0..MaxDay \cup {None}]
Ask == [page : Nat \ {0}, rank : ToSet(RankChoices), best : BOOLEAN, only : Selection]
LookUpType == [ask : Ask, from : Seq(Entry)]
PageType == [page : Nat \ {0}, total : 1..MaxPages, entries : Seq(Entry)]
Fetch == [ask : Ask, page : PageType]
Message ==
  [page : PageType,
   labels : [rank : ToSet(RankChoices), best : BOOLEAN, only : Selection]]

\* The letters the rank button knows are letters, and None is no value of the kinds it
\* stands for the absence of.
ASSUME ValuesAssumption ==
  /\ RankCycle \in Seq(Letter)
  /\ None \notin RowType /\ None \notin Seq(Entry)
  /\ None \notin LookUpType /\ None \notin Message

\* Types; no row is active in the future, a ranking lists no entry twice and
\* even no rows at all fill a page.
TypeOK ==
  /\ row \in [Entry -> RowType \cup {None}]
  /\ \A e \in Rows : row[e].last <= now /\ (row[e].match = None \/ row[e].match <= row[e].last)
  /\ now \in 0..MaxDay
  /\ waiting \in 0..(2 * changes) /\ changes \in 0..MaxChanges
  /\ fresh \in Seq(Entry) \cup {None} /\ (fresh # None => IsInjective(fresh))
  /\ ranking \in Seq(Entry) /\ IsInjective(ranking)
  /\ view \in Ask
  /\ lookup \in LookUpType \cup {None}
  /\ fetches \in Seq(Fetch) /\ \A i \in DOMAIN fetches : Len(fetches[i].page.entries) <= PageSize
  /\ shown \in Message \cup {None} /\ (shown # None => Len(shown.page.entries) <= PageSize)
  /\ drifted \in BOOLEAN /\ overlapped \in BOOLEAN

\* The rankings catch up with the ratings: when no refresh waits or runs,
\* whoever has played lately is ranked, and the order is that of the rows now,
\* however matches, admins and refreshes interleaved.  Rows that the daily
\* reconciliation moved wait for the next change.
RanksCatchUp ==
  waiting = 0 /\ fresh = None /\ ~drifted =>
    /\ {e \in Rows : IsRanked(e)} \subseteq ToSet(ranking)
    /\ \A i, j \in DOMAIN ranking : i < j => Ahead(ranking[i], ranking[j])

\* A click that nothing overlaps leaves the message in line with the view,
\* whatever overlapping clicks did before: the page and the filters shown are
\* those chosen, and the rows pass the filters, although the ratings, the
\* rankings and the day changed while it was answered.
ShownIsAsked ==
  shown # None /\ lookup = None /\ fetches = <<>> /\ ~overlapped =>
    /\ shown.page.page = view.page
    /\ shown.labels = Labels
    /\ ToSet(shown.page.entries) \subseteq view.only
    /\ view.best => \A e, f \in ToSet(shown.page.entries) : PlayerOf[e] = PlayerOf[f] => e = f
=============================================================================
