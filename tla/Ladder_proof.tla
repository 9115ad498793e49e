---------------------------- MODULE Ladder_proof ----------------------------
(***************************************************************************)
(* What is proved of the rows and games of Ladder.                         *)
(*                                                                         *)
(* Rows: of each match, the row in memory is what the jobs on their way    *)
(* will make of the row in the database (RowInv).  It needs to know which  *)
(* job of a kind is the last (Last), since a player may report again       *)
(* before the first report is written.                                     *)
(*                                                                         *)
(* Games: the last job of a player's games brings what memory has          *)
(* (TallyRule), games are written after the result of a match, so that a   *)
(* restart that finds games finds a final match to count (Proven), and     *)
(* memory's games are its final matches (CountRule).                       *)
(***************************************************************************)
EXTENDS Ladder, FiniteSetTheorems, SequenceTheorems, TLAPS

-----------------------------------------------------------------------------
(* Sequences of jobs: which kinds wait, and which job of a kind is the last *)

HasIn(s, S) == \E i \in 1..Len(s) : s[i] \in S
EndsIn(s, S, T) == \E i \in 1..Len(s) : s[i] \in T /\ \A j \in 1..Len(s) : j > i => s[j] \notin S

LEMMA EmptyHas ==
  ASSUME NEW S
  PROVE  ~HasIn(<<>>, S)
  BY DEF HasIn

LEMMA HasSubset ==
  ASSUME NEW s, NEW S, NEW T, T \subseteq S, HasIn(s, T)
  PROVE  HasIn(s, S)
  BY DEF HasIn

LEMMA EndsHas ==
  ASSUME NEW s, NEW S, NEW T, T \subseteq S, EndsIn(s, S, T)
  PROVE  HasIn(s, S)
  BY DEF HasIn, EndsIn

LEMMA Appended ==
  ASSUME NEW J, NEW s \in Seq(J), NEW x \in J
  PROVE  /\ Append(s, x) \in Seq(J) /\ Len(Append(s, x)) = Len(s) + 1 /\ Len(s) \in Nat
         /\ \A i \in 1..Len(s) : Append(s, x)[i] = s[i]
         /\ Append(s, x)[Len(s) + 1] = x
  OBVIOUS

LEMMA HasAppended ==
  ASSUME NEW J, NEW s \in Seq(J), NEW x \in J, NEW S
  PROVE  HasIn(Append(s, x), S) <=> HasIn(s, S) \/ x \in S
  <1> DEFINE t == Append(s, x)
  <1>1. /\ Len(t) = Len(s) + 1 /\ Len(s) \in Nat
        /\ \A i \in 1..Len(s) : t[i] = s[i]
        /\ t[Len(s) + 1] = x
    BY Appended
  <1> HIDE DEF t
  <1>2. \A i \in 1..Len(t) : i \in 1..Len(s) \/ i = Len(s) + 1
    BY <1>1
  <1>3. /\ \A i \in 1..Len(s) : i \in 1..Len(t)
        /\ Len(s) + 1 \in 1..Len(t)
    BY <1>1
  <1>4. HasIn(t, S) <=> HasIn(s, S) \/ x \in S
    BY <1>1, <1>2, <1>3 DEF HasIn
  <1> QED BY <1>4 DEF t

LEMMA EndsAppended ==
  ASSUME NEW J, NEW s \in Seq(J), NEW x \in J, NEW S, NEW T
  PROVE  /\ x \in T => EndsIn(Append(s, x), S, T)
         /\ x \notin S /\ EndsIn(s, S, T) => EndsIn(Append(s, x), S, T)
  <1> DEFINE t == Append(s, x)
  <1>1. /\ Len(t) = Len(s) + 1 /\ Len(s) \in Nat
        /\ \A i \in 1..Len(s) : t[i] = s[i]
        /\ t[Len(s) + 1] = x
    BY Appended
  <1> HIDE DEF t
  <1>2. /\ \A i \in 1..Len(t) : i \in 1..Len(s) \/ i = Len(s) + 1
        /\ \A i \in 1..Len(s) : i \in 1..Len(t)
        /\ Len(s) + 1 \in 1..Len(t)
    BY <1>1
  <1>3. ASSUME x \in T PROVE EndsIn(t, S, T)
    <2>1. \A j \in 1..Len(t) : ~(j > Len(s) + 1)
      BY <1>1
    <2> QED BY <1>1, <1>2, <1>3, <2>1 DEF EndsIn
  <1>4. ASSUME x \notin S, EndsIn(s, S, T) PROVE EndsIn(t, S, T)
    BY <1>1, <1>2, <1>4 DEF EndsIn
  <1> QED BY <1>3, <1>4 DEF t

LEMMA Tailed ==
  ASSUME NEW J, NEW s \in Seq(J), s # <<>>
  PROVE  /\ Tail(s) \in Seq(J) /\ Len(Tail(s)) = Len(s) - 1 /\ Len(s) \in Nat /\ Len(s) > 0
         /\ \A i \in 1..(Len(s) - 1) : Tail(s)[i] = s[i + 1]
         /\ Head(s) = s[1] /\ Head(s) \in J
  OBVIOUS

LEMMA HasTailed ==
  ASSUME NEW J, NEW s \in Seq(J), s # <<>>, NEW S
  PROVE  HasIn(s, S) <=> Head(s) \in S \/ HasIn(Tail(s), S)
  <1> DEFINE t == Tail(s)
             h == Head(s)
  <1>1. /\ Len(t) = Len(s) - 1 /\ Len(s) \in Nat /\ Len(s) > 0
        /\ \A i \in 1..(Len(s) - 1) : t[i] = s[i + 1]
        /\ h = s[1]
    BY Tailed
  <1> HIDE DEF t, h
  <1>2. ASSUME NEW i \in 1..Len(s), s[i] \in S PROVE h \in S \/ HasIn(t, S)
    <2>1. CASE i = 1
      BY <1>1, <1>2, <2>1
    <2>2. CASE i # 1
      <3>1. i - 1 \in 1..Len(t) /\ i - 1 \in 1..(Len(s) - 1) /\ (i - 1) + 1 = i
        BY <1>1, <2>2
      <3>2. t[i - 1] = s[i]
        BY <1>1, <3>1
      <3> QED BY <1>2, <3>1, <3>2 DEF HasIn
    <2> QED BY <2>1, <2>2
  <1>3. ASSUME NEW i \in 1..Len(t), t[i] \in S PROVE HasIn(s, S)
    <2>1. i + 1 \in 1..Len(s) /\ t[i] = s[i + 1]
      BY <1>1
    <2> QED BY <1>3, <2>1 DEF HasIn
  <1>4. h \in S => HasIn(s, S)
    <2>1. 1 \in 1..Len(s)
      BY <1>1
    <2> QED BY <1>1, <2>1 DEF HasIn
  <1>5. HasIn(s, S) <=> h \in S \/ HasIn(t, S)
    BY <1>2, <1>3, <1>4 DEF HasIn
  <1> QED BY <1>5 DEF t, h

LEMMA EndsTailed ==
  ASSUME NEW J, NEW s \in Seq(J), s # <<>>, NEW S, NEW T, T \subseteq S, EndsIn(s, S, T)
  PROVE  /\ HasIn(Tail(s), S) => EndsIn(Tail(s), S, T)
         /\ ~HasIn(Tail(s), S) => Head(s) \in T
  <1> DEFINE t == Tail(s)
             h == Head(s)
  <1>1. /\ Len(t) = Len(s) - 1 /\ Len(s) \in Nat /\ Len(s) > 0
        /\ \A i \in 1..(Len(s) - 1) : t[i] = s[i + 1]
        /\ h = s[1]
    BY Tailed
  <1> HIDE DEF t, h
  <1>2. PICK i \in 1..Len(s) : s[i] \in T /\ \A j \in 1..Len(s) : j > i => s[j] \notin S
    BY DEF EndsIn
  <1>3. CASE i = 1
    <2>1. ASSUME NEW k \in 1..Len(t) PROVE t[k] \notin S
      <3>1. k + 1 \in 1..Len(s) /\ k + 1 > i /\ t[k] = s[k + 1]
        BY <1>1, <1>3
      <3> QED BY <1>2, <3>1
    <2>2. ~HasIn(t, S)
      BY <2>1 DEF HasIn
    <2> QED BY <1>1, <1>2, <1>3, <2>2 DEF t, h
  <1>4. CASE i # 1
    <2>1. i - 1 \in 1..Len(t) /\ (i - 1) + 1 = i /\ i - 1 \in 1..(Len(s) - 1)
      BY <1>1, <1>4
    <2>2. t[i - 1] \in T
      BY <1>1, <1>2, <2>1
    <2>3. ASSUME NEW k \in 1..Len(t), k > i - 1 PROVE t[k] \notin S
      <3>1. k + 1 \in 1..Len(s) /\ k + 1 > i /\ t[k] = s[k + 1]
        BY <1>1, <2>3
      <3> QED BY <1>2, <3>1
    <2>4. EndsIn(t, S, T)
      BY <2>1, <2>2, <2>3 DEF EndsIn
    <2>5. HasIn(t, S)
      BY <2>4, EndsHas
    <2> QED BY <2>4, <2>5 DEF t, h
  <1> QED BY <1>3, <1>4

-----------------------------------------------------------------------------
(* Jobs *)

ReportJob == [op : {"report"}, match : Match, by : Player, value : Value]
AbortJob == [op : {"abort"}, match : Match, by : Player]
SystemJob == [op : {"system"}, match : Match, report : [Player -> {None, Unconfirmed}]]
ResultJob == [op : {"result"}, match : Match, value : Value]
ChangeJob == [op : {"change"}, match : Match]
TallyJob == [op : {"games"}, player : Player, games : Tally]
RowJob == ReportJob \cup AbortJob \cup SystemJob \cup ResultJob \cup ChangeJob
Job == RowJob \cup TallyJob

JobOf(m) == {x \in RowJob : x.match = m}
ReportBy(m, p) == {x \in ReportJob : x.match = m /\ x.by = p}
ThatReport(m, p, v) == {x \in ReportJob : x.match = m /\ x.by = p /\ x.value = v}
SystemOf(m) == {x \in SystemJob : x.match = m}
AbortOf(m) == {x \in AbortJob \cup SystemJob : x.match = m}
ResultFor(m) == {x \in ResultJob : x.match = m}
ThatResult(m, v) == {x \in ResultJob : x.match = m /\ x.value = v}
ChangeOf(m) == {x \in ChangeJob : x.match = m}
Verdict(m) == {x \in ReportJob \cup ResultJob : x.match = m}
TallyOf(p) == {x \in TallyJob : x.player = p}

\* Jobs of this kind wait, and the last to be written is one of T.
Comes(S) == HasIn(queue, S) \/ HasIn(deferred, S)
Last(S, T) == IF HasIn(deferred, S) THEN EndsIn(deferred, S, T) ELSE EndsIn(queue, S, T)

LEMMA JobOps ==
  /\ \A x \in ReportJob : x.op = "report" /\ x.match \in Match /\ x.by \in Player /\ x.value \in Value
  /\ \A x \in AbortJob : x.op = "abort" /\ x.match \in Match /\ x.by \in Player
  /\ \A x \in SystemJob : /\ x.op = "system" /\ x.match \in Match
                          /\ x.report \in [Player -> {None, Unconfirmed}]
  /\ \A x \in ResultJob : x.op = "result" /\ x.match \in Match /\ x.value \in Value
  /\ \A x \in ChangeJob : x.op = "change" /\ x.match \in Match
  /\ \A x \in TallyJob : x.op = "games" /\ x.player \in Player /\ x.games \in Tally
  BY DEF ReportJob, AbortJob, SystemJob, ResultJob, ChangeJob, TallyJob

LEMMA KindsOfJobs ==
  ASSUME NEW m
  PROVE  /\ \A p : ReportBy(m, p) \subseteq JobOf(m) /\ ReportBy(m, p) \subseteq Verdict(m)
         /\ \A p, v : ThatReport(m, p, v) \subseteq ReportBy(m, p)
         /\ SystemOf(m) \subseteq AbortOf(m) /\ AbortOf(m) \subseteq JobOf(m)
         /\ ResultFor(m) \subseteq JobOf(m) /\ ResultFor(m) \subseteq Verdict(m)
         /\ \A v : ThatResult(m, v) \subseteq ResultFor(m)
         /\ ChangeOf(m) \subseteq JobOf(m) /\ Verdict(m) \subseteq JobOf(m)
  BY DEF RowJob, JobOf, ReportBy, ThatReport, SystemOf, AbortOf, ResultFor, ThatResult, ChangeOf, Verdict

LEMMA JobsElsewhere ==
  ASSUME NEW m, NEW k, k # m
  PROVE  /\ \A x \in JobOf(m) : x \notin JobOf(k)
         /\ \A x \in TallyJob : x \notin JobOf(k)
  BY JobOps DEF JobOf, RowJob

SeqTypes == queue \in Seq(Job) /\ deferred \in Seq(ReportJob)

\* The jobs of a match wait as they did, in their order.
JobsStay(m) ==
  \A S \in SUBSET JobOf(m) :
    /\ Comes(S)' <=> Comes(S)
    /\ \A T \in SUBSET S : Comes(S) /\ Last(S, T) => Last(S, T)'

LEMMA JobsUnchanged ==
  ASSUME UNCHANGED jobVars
  PROVE  \A S, T : /\ Comes(S)' <=> Comes(S)
                   /\ Last(S, T)' <=> Last(S, T)
  BY DEF jobVars, Comes, Last

LEMMA JobQueued ==
  ASSUME SeqTypes, NEW x \in Job, queue' = Append(queue, x), deferred' = deferred
  PROVE  /\ SeqTypes'
         /\ \A S : Comes(S)' <=> Comes(S) \/ x \in S
         /\ \A S, T : x \notin S /\ Last(S, T) => Last(S, T)'
  BY Appended, HasAppended, EndsAppended DEF SeqTypes, Comes, Last

LEMMA JobDeferred ==
  ASSUME SeqTypes, NEW x \in ReportJob, deferred' = Append(deferred, x), queue' = queue
  PROVE  /\ SeqTypes'
         /\ \A S : Comes(S)' <=> Comes(S) \/ x \in S
         /\ \A S, T : x \notin S /\ Last(S, T) => Last(S, T)'
         /\ \A S, T : T \subseteq S /\ x \in T => Last(S, T)'
  <1>1. SeqTypes'
    BY Appended DEF SeqTypes
  <1>2. \A S : HasIn(deferred', S) <=> HasIn(deferred, S) \/ x \in S
    BY HasAppended DEF SeqTypes
  <1>3. \A S, T : /\ x \in T => EndsIn(deferred', S, T)
                  /\ x \notin S /\ EndsIn(deferred, S, T) => EndsIn(deferred', S, T)
    BY EndsAppended DEF SeqTypes
  <1>4. \A S : Comes(S)' <=> Comes(S) \/ x \in S
    BY <1>2 DEF Comes
  <1>5. \A S, T : x \notin S /\ Last(S, T) => Last(S, T)'
    BY <1>2, <1>3 DEF Last
  <1>6. \A S, T : T \subseteq S /\ x \in T => Last(S, T)'
    BY <1>2, <1>3 DEF Last
  <1> QED BY <1>1, <1>4, <1>5, <1>6

LEMMA JobMoves ==
  ASSUME SeqTypes, RunDeferred
  PROVE  /\ SeqTypes'
         /\ \A S : Comes(S)' <=> Comes(S)
         /\ \A S, T : T \subseteq S /\ Comes(S) /\ Last(S, T) => Last(S, T)'
  <1> DEFINE h == Head(deferred)
  <1>1. /\ deferred # <<>> /\ queue' = Append(queue, h) /\ deferred' = Tail(deferred)
    BY DEF RunDeferred
  <1>2. h \in ReportJob /\ h \in Job /\ deferred' \in Seq(ReportJob)
    BY <1>1, Tailed DEF SeqTypes, Job, RowJob
  <1> HIDE DEF h
  <1>3. SeqTypes'
    BY <1>1, <1>2, Appended DEF SeqTypes
  <1>4. \A S : /\ HasIn(queue', S) <=> HasIn(queue, S) \/ h \in S
               /\ HasIn(deferred, S) <=> h \in S \/ HasIn(deferred', S)
    BY <1>1, <1>2, HasAppended, HasTailed DEF SeqTypes, h
  <1>5. \A S, T : /\ h \in T => EndsIn(queue', S, T)
                  /\ h \notin S /\ EndsIn(queue, S, T) => EndsIn(queue', S, T)
    BY <1>1, <1>2, EndsAppended DEF SeqTypes
  <1>6. \A S, T : T \subseteq S /\ EndsIn(deferred, S, T) =>
           /\ HasIn(deferred', S) => EndsIn(deferred', S, T)
           /\ ~HasIn(deferred', S) => h \in T
    BY <1>1, EndsTailed DEF SeqTypes, h
  <1>7. \A S : Comes(S)' <=> Comes(S)
    BY <1>4 DEF Comes
  <1>8. ASSUME NEW S, NEW T, T \subseteq S, Comes(S), Last(S, T) PROVE Last(S, T)'
    <2>1. CASE HasIn(deferred', S)
      <3>1. EndsIn(deferred, S, T)
        BY <1>4, <1>8, <2>1 DEF Last
      <3> QED BY <1>6, <1>8, <2>1, <3>1 DEF Last
    <2>2. CASE ~HasIn(deferred', S) /\ h \in S
      <3>1. EndsIn(deferred, S, T)
        BY <1>4, <1>8, <2>2 DEF Last
      <3> QED BY <1>5, <1>6, <1>8, <2>2, <3>1 DEF Last
    <2>3. CASE ~HasIn(deferred', S) /\ h \notin S
      <3>1. EndsIn(queue, S, T)
        BY <1>4, <1>8, <2>3 DEF Last
      <3> QED BY <1>5, <2>3, <3>1 DEF Last
    <2> QED BY <2>1, <2>2, <2>3
  <1> QED BY <1>3, <1>7, <1>8

LEMMA JobWritten ==
  ASSUME SeqTypes, queue # <<>>, queue' = Tail(queue), deferred' = deferred, NEW x, x = Head(queue)
  PROVE  /\ SeqTypes' /\ x \in Job
         /\ \A S : Comes(S) <=> x \in S \/ Comes(S)'
         /\ \A S, T : T \subseteq S /\ Last(S, T) /\ Comes(S)' => Last(S, T)'
         /\ \A S, T : T \subseteq S /\ Last(S, T) /\ Comes(S) /\ ~Comes(S)' => x \in T
  <1>1. SeqTypes' /\ x \in Job
    BY Tailed DEF SeqTypes
  <1>2. \A S : HasIn(queue, S) <=> x \in S \/ HasIn(queue', S)
    BY HasTailed DEF SeqTypes
  <1>3. \A S, T : T \subseteq S /\ EndsIn(queue, S, T) =>
           /\ HasIn(queue', S) => EndsIn(queue', S, T)
           /\ ~HasIn(queue', S) => x \in T
    BY EndsTailed DEF SeqTypes
  <1>4. \A S : Comes(S) <=> x \in S \/ Comes(S)'
    BY <1>2 DEF Comes
  <1>5. ASSUME NEW S, NEW T, T \subseteq S, Last(S, T), Comes(S)' PROVE Last(S, T)'
    BY <1>3, <1>5 DEF Last, Comes
  <1>6. ASSUME NEW S, NEW T, T \subseteq S, Last(S, T), Comes(S), ~Comes(S)' PROVE x \in T
    BY <1>2, <1>3, <1>6 DEF Last, Comes
  <1> QED BY <1>1, <1>4, <1>5, <1>6

-----------------------------------------------------------------------------
(* Rows, and what the handlers and the writer make of them *)

Mark == Value \cup {None, Aborted, Aborter, Unconfirmed}
Verdicts == Final \cup {None, Aborted, Conflict}

LEMMA ValuesAreFinal ==
  /\ Value \subseteq Final /\ Final = {0, 1, 2} /\ Player = {1, 2}
  /\ None \notin Final /\ None \notin Value /\ None \notin Row /\ None \notin Match
  /\ None # Aborted /\ None # Conflict /\ None \notin Rated
  /\ None # Aborter /\ None # Unconfirmed
  /\ Aborted \notin Value /\ Aborted \notin Final /\ Conflict \notin Final /\ Aborted # Conflict
  <1>1. None \notin Match \cup Final \cup {Aborted, Conflict, Aborter, Unconfirmed} \cup Row \cup Rated
    BY NoneAssumption
  <1>2. Value \subseteq {0, 1, 2}
    BY LadderAssumption
  <1>3. /\ None \notin Final /\ None \notin Row /\ None \notin Match /\ None \notin Rated
        /\ None # Aborted /\ None # Conflict /\ None # Aborter /\ None # Unconfirmed
    BY <1>1
  <1>4. Value \subseteq Final /\ Final = {0, 1, 2} /\ Player = {1, 2}
    BY <1>2 DEF Final, Player
  <1>5. /\ Aborted \notin Final /\ Conflict \notin Final /\ Aborted # Conflict
    BY DEF Final, Aborted, Conflict
  <1> QED BY <1>3, <1>4, <1>5

LEMMA RowFields ==
  ASSUME NEW r \in Row
  PROVE  /\ r.report \in [Player -> Mark] /\ r.result \in Verdicts /\ r.change \in BOOLEAN
         /\ \A p \in Player : r.report[p] \in Mark
         /\ r # None
  <1>1. r.report \in [Player -> Mark] /\ r.result \in Verdicts /\ r.change \in BOOLEAN
    BY DEF Row, Mark, Verdicts
  <1> QED BY <1>1, ValuesAreFinal

LEMMA NewRowFields ==
  /\ NewRow \in Row /\ NewRow.result = None /\ NewRow.change = FALSE
  /\ \A p \in Player : NewRow.report[p] = None
  <1> DEFINE f == [p \in Player |-> None]
  <1>1. f \in [Player -> Mark] /\ \A p \in Player : f[p] = None
    BY DEF Mark
  <1> HIDE DEF f
  <1>2. [report |-> f, result |-> None, change |-> FALSE] \in Row
    BY <1>1 DEF Row, Mark
  <1>3. NewRow = [report |-> f, result |-> None, change |-> FALSE]
    BY DEF NewRow, f
  <1> QED BY <1>1, <1>2, <1>3

LEMMA RowNoted ==
  ASSUME NEW r \in Row, NEW p \in Player, NEW v \in Value
  PROVE  /\ Noted(r, p, v) \in Row /\ Noted(r, p, v).report[p] = v
         /\ \A q \in Player : q # p => Noted(r, p, v).report[q] = r.report[q]
         /\ Noted(r, p, v).result = r.result /\ Noted(r, p, v).change = r.change
  <1>1. r.report \in [Player -> Mark]
    BY RowFields
  <1> DEFINE f == [r.report EXCEPT ![p] = v]
  <1>2. f \in [Player -> Mark] /\ f[p] = v /\ \A q \in Player : q # p => f[q] = r.report[q]
    BY <1>1 DEF Mark
  <1>3. Noted(r, p, v) = [r EXCEPT !.report = f]
    BY DEF Noted
  <1> HIDE DEF f
  <1>4. /\ [r EXCEPT !.report = f] \in Row /\ [r EXCEPT !.report = f].report = f
        /\ [r EXCEPT !.report = f].result = r.result /\ [r EXCEPT !.report = f].change = r.change
    BY <1>2 DEF Row, Mark
  <1> QED BY <1>2, <1>3, <1>4

LEMMA RowDecided ==
  ASSUME NEW r \in Row, NEW v \in Verdicts, NEW w, w = [r EXCEPT !.result = v]
  PROVE  w \in Row /\ w.report = r.report /\ w.result = v /\ w.change = r.change
  BY DEF Row, Verdicts

LEMMA RowChanged ==
  ASSUME NEW r \in Row, NEW w, w = [r EXCEPT !.change = TRUE]
  PROVE  w \in Row /\ w.report = r.report /\ w.result = r.result /\ w.change = TRUE
  BY DEF Row

LEMMA RowEnded ==
  ASSUME NEW r \in Row, NEW f \in [Player -> Mark]
  PROVE  /\ Ended(r, f) \in Row /\ Ended(r, f).report = f
         /\ Ended(r, f).result = Aborted /\ Ended(r, f).change = r.change
  <1> DEFINE t == [r EXCEPT !.report = f]
  <1>1. t \in Row /\ t.report = f /\ t.change = r.change
    BY DEF Row, Mark
  <1>2. Ended(r, f) = [t EXCEPT !.result = Aborted]
    BY DEF Ended
  <1> HIDE DEF t
  <1>3. Aborted \in Verdicts
    BY DEF Verdicts
  <1> QED BY <1>1, <1>2, <1>3, RowDecided

LEMMA RowReported ==
  ASSUME NEW r \in Row, NEW p \in Player, NEW v \in Value
  PROVE  /\ WithReport(r, p, v) \in Row
         /\ WithReport(r, p, v).report = Noted(r, p, v).report
         /\ WithReport(r, p, v).change = r.change
         /\ WithReport(r, p, v).result =
              IF ~Reported(Noted(r, p, v)) THEN r.result
              ELSE IF Agreed(Noted(r, p, v)) THEN v ELSE Conflict
  <1> DEFINE t == Noted(r, p, v)
             d == IF Agreed(t) THEN v ELSE Conflict
  <1>1. t \in Row /\ t.result = r.result /\ t.change = r.change
    BY RowNoted
  <1>2. d \in Verdicts
    BY ValuesAreFinal DEF Verdicts
  <1>3. WithReport(r, p, v) = IF ~Reported(t) THEN t ELSE [t EXCEPT !.result = d]
    BY DEF WithReport
  <1> HIDE DEF t, d
  <1>4. CASE ~Reported(t)
    <2>1. WithReport(r, p, v) = t
      BY <1>3, <1>4
    <2> QED BY <1>1, <1>4, <2>1 DEF t
  <1>5. CASE Reported(t)
    <2>1. WithReport(r, p, v) = [t EXCEPT !.result = d]
      BY <1>3, <1>5
    <2>2. /\ WithReport(r, p, v) \in Row /\ WithReport(r, p, v).report = t.report
          /\ WithReport(r, p, v).result = d /\ WithReport(r, p, v).change = t.change
      BY <1>1, <1>2, <2>1, RowDecided
    <2> QED BY <1>1, <1>5, <2>2 DEF t, d
  <1> QED BY <1>4, <1>5

LEMMA RowAborted ==
  ASSUME NEW r \in Row, NEW p \in Player
  PROVE  /\ WithAbort(r, p) \in Row /\ WithAbort(r, p).result = Aborted
         /\ WithAbort(r, p).change = r.change
  <1> DEFINE f == [q \in Player |-> IF q = p THEN Aborter
                                    ELSE IF r.report[q] = None THEN Aborted ELSE r.report[q]]
  <1>1. f \in [Player -> Mark]
    BY RowFields DEF Mark
  <1>2. WithAbort(r, p) = Ended(r, f)
    BY DEF WithAbort
  <1> HIDE DEF f
  <1> QED BY <1>1, <1>2, RowEnded

-----------------------------------------------------------------------------
(* Tallies *)

LEMMA TallyOne ==
  ASSUME NEW g \in Tally, NEW p, NEW v
  PROVE  OneMore(g, p, v) \in Tally
  BY DEF OneMore, Tally

LEMMA TallyCounted ==
  ASSUME NEW rows, NEW p
  PROVE  /\ GamesIn(rows, p) \in Tally
         /\ IsFiniteSet(Finals(rows)) /\ Finals(rows) \subseteq Match
         /\ IsFiniteSet({m \in Finals(rows) : rows[m].result = p})
  <1>1. IsFiniteSet(Match)
    BY LadderAssumption
  <1>2. Finals(rows) \subseteq Match
    BY DEF Finals
  <1>3. IsFiniteSet(Finals(rows))
    BY <1>1, <1>2, FS_Subset
  <1> DEFINE W == {m \in Finals(rows) : rows[m].result = p}
  <1>4. W \subseteq Finals(rows)
    OBVIOUS
  <1>5. IsFiniteSet(W)
    BY <1>3, <1>4, FS_Subset
  <1>6. Cardinality(Finals(rows)) \in Nat /\ Cardinality(W) \in Nat
    BY <1>3, <1>5, FS_CardinalityType
  <1>7. GamesIn(rows, p) = [played |-> Cardinality(Finals(rows)), won |-> Cardinality(W)]
    BY DEF GamesIn
  <1> QED BY <1>2, <1>3, <1>5, <1>6, <1>7 DEF Tally

LEMMA TallyJobs ==
  ASSUME NEW p \in Player, NEW g \in Tally
  PROVE  /\ GamesJob(p, g) \in TallyJob /\ GamesJob(p, g) \in Job
         /\ GamesJob(p, g).op = "games" /\ GamesJob(p, g).player = p /\ GamesJob(p, g).games = g
  BY DEF GamesJob, TallyJob, Job

LEMMA RecountedTypes ==
  ASSUME NEW rows, NEW g \in [Player -> Tally]
  PROVE  /\ Recounted(rows, g) \in [Player -> Tally]
         /\ \A p \in Player : Recounted(rows, g)[p] = IF Finals(rows) = {} THEN g[p] ELSE GamesIn(rows, p)
  <1>1. \A p \in Player : GamesIn(rows, p) \in Tally
    BY TallyCounted
  <1> QED BY <1>1 DEF Recounted

-----------------------------------------------------------------------------
(* The writer takes a job *)

RowTypes ==
  /\ mem \in [Match -> Row \cup {None}]
  /\ db \in [Match -> Row \cup {None}]
TallyTypes ==
  /\ games \in [Player -> Tally]
  /\ dbGames \in [Player -> Tally]
HandlerTypes ==
  /\ live \subseteq Match
  /\ inserting \in Match \cup {None}
  /\ rating \in [Match -> Rated \cup {None}]
Types == RowTypes /\ TallyTypes /\ HandlerTypes /\ SeqTypes

LEMMA JobKinds ==
  ASSUME NEW x \in Job
  PROVE  /\ x.op = "games" <=> x \in TallyJob
         /\ x.op = "report" <=> x \in ReportJob
         /\ x.op = "abort" <=> x \in AbortJob
         /\ x.op = "system" <=> x \in SystemJob
         /\ x.op = "result" <=> x \in ResultJob
         /\ x.op = "change" <=> x \in ChangeJob
         /\ x \notin TallyJob => x \in RowJob /\ x.match \in Match /\ x \in JobOf(x.match)
  <1>1. x \in ReportJob \/ x \in AbortJob \/ x \in SystemJob \/ x \in ResultJob \/ x \in ChangeJob \/ x \in TallyJob
    BY DEF Job, RowJob
  <1>2. /\ x.op = "games" <=> x \in TallyJob
        /\ x.op = "report" <=> x \in ReportJob
        /\ x.op = "abort" <=> x \in AbortJob
        /\ x.op = "system" <=> x \in SystemJob
        /\ x.op = "result" <=> x \in ResultJob
        /\ x.op = "change" <=> x \in ChangeJob
    BY <1>1, JobOps
  <1>3. x \notin TallyJob => x \in RowJob /\ x.match \in Match
    BY <1>1, JobOps DEF RowJob
  <1> QED BY <1>2, <1>3 DEF JobOf

LEMMA WriteTally ==
  ASSUME SeqTypes, WriteNext, Head(queue) \in TallyJob
  PROVE  /\ db' = db /\ lost' = lost /\ undone' = undone
         /\ dbGames' = [dbGames EXCEPT ![Head(queue).player] = Head(queue).games]
  BY JobOps DEF WriteNext, historyVars

LEMMA WriteRow ==
  ASSUME SeqTypes, WriteNext, Head(queue) \notin TallyJob
  PROVE  /\ db' = [db EXCEPT ![Head(queue).match] = Written(Head(queue))]
         /\ lost' = IF GoesWrong(Head(queue)) THEN lost \cup {Head(queue).match} ELSE lost
         /\ undone' = IF TakesBack(Head(queue)) THEN undone \cup {Head(queue).match} ELSE undone
         /\ dbGames' = dbGames
  <1>1. queue # <<>>
    BY DEF WriteNext
  <1>2. Head(queue) \in Job
    BY <1>1, Tailed DEF SeqTypes
  <1>3. Head(queue).op # "games"
    BY <1>2, JobKinds
  <1> QED BY <1>3 DEF WriteNext

LEMMA WriteStep ==
  ASSUME SeqTypes, WriteNext
  PROVE  /\ queue # <<>> /\ queue' = Tail(queue) /\ deferred' = deferred /\ Head(queue) \in Job
         /\ mem' = mem /\ games' = games /\ live' = live /\ inserting' = inserting
         /\ rating' = rating /\ processed' = processed /\ late' = late
  BY Tailed DEF WriteNext, SeqTypes

-----------------------------------------------------------------------------
(* One match: its row in memory, its row in the database, and the jobs between *)

\* Jobs and handlers belong to matches of this run of the bot, which have rows;
\* what the database holds has been judged.
RowRule(m) ==
  /\ m \in live => db[m] # None
  /\ m \notin live => ~Comes(JobOf(m)) /\ rating[m] = None
  /\ mem[m] # None => db[m] # None
  /\ db[m] # None /\ Reported(db[m]) => db[m].result # None
  /\ m = inserting => /\ m \in live /\ ~Comes(JobOf(m)) /\ rating[m] = None
                      /\ db[m] = NewRow /\ mem[m] = None
  /\ rating[m] # None => mem[m] # None /\ mem[m].result \in Value

\* An abort for want of confirmations comes before anything else.
SystemRule(m) == Comes(SystemOf(m)) => db[m].result \notin Final /\ ~Comes(Verdict(m))

LiveRow(r) ==
  /\ r.result \in Value \cup {None, Aborted}
  /\ r.result = None => \A p \in Player : r.report[p] \in Value \cup {None}
  /\ r.result \in Value => \A p \in Player : r.report[p] = r.result

\* The row in memory is what the jobs will make of the row in the database.
Told(m, r) ==
  /\ r.result # Aborted =>
       /\ ~Comes(AbortOf(m))
       /\ \A p \in Player :
            /\ Comes(ReportBy(m, p)) =>
                 r.report[p] # None /\ Last(ReportBy(m, p), ThatReport(m, p, r.report[p]))
            /\ ~Comes(ReportBy(m, p)) => db[m].report[p] = r.report[p]
  /\ \A v \in Value : Comes(ThatResult(m, v)) => v = r.result
  /\ Comes(ChangeOf(m)) => r.change
  /\ ~Comes(ChangeOf(m)) => db[m].change = r.change
  /\ r.result = None /\ db[m].result # None => Reported(r)

\* Without a job that judges, the verdicts are the same.
Judged(m, r) ==
  /\ r.result = Aborted /\ ~Comes(AbortOf(m)) => db[m].result = Aborted
  /\ r.result # Aborted /\ ~Comes(Verdict(m)) => db[m].result = ResultOf(r)

Owed(m, r) ==
  /\ m \in live => LiveRow(r)
  /\ Told(m, r)
  /\ m \notin lost => Judged(m, r)

RowInv(m) ==
  /\ RowRule(m)
  /\ SystemRule(m)
  /\ \A r \in Row : mem[m] = r => Owed(m, r)

LEMMA StayOf ==
  ASSUME NEW m, JobsStay(m)
  PROVE  /\ Comes(JobOf(m))' <=> Comes(JobOf(m))
         /\ Comes(AbortOf(m))' <=> Comes(AbortOf(m))
         /\ Comes(SystemOf(m))' <=> Comes(SystemOf(m))
         /\ Comes(Verdict(m))' <=> Comes(Verdict(m))
         /\ Comes(ChangeOf(m))' <=> Comes(ChangeOf(m))
         /\ \A v : Comes(ThatResult(m, v))' <=> Comes(ThatResult(m, v))
         /\ \A p : Comes(ReportBy(m, p))' <=> Comes(ReportBy(m, p))
         /\ \A p, v : Comes(ReportBy(m, p)) /\ Last(ReportBy(m, p), ThatReport(m, p, v))
                        => Last(ReportBy(m, p), ThatReport(m, p, v))'
  <1>1. /\ \A p : ReportBy(m, p) \in SUBSET JobOf(m)
        /\ \A p, v : ThatReport(m, p, v) \in SUBSET ReportBy(m, p)
        /\ SystemOf(m) \in SUBSET JobOf(m) /\ AbortOf(m) \in SUBSET JobOf(m)
        /\ JobOf(m) \in SUBSET JobOf(m)
        /\ \A v : ThatResult(m, v) \in SUBSET JobOf(m)
        /\ ChangeOf(m) \in SUBSET JobOf(m) /\ Verdict(m) \in SUBSET JobOf(m)
    BY KindsOfJobs
  <1>2. \A S \in SUBSET JobOf(m) : Comes(S)' <=> Comes(S)
    BY DEF JobsStay
  <1>3. \A S \in SUBSET JobOf(m) : \A T \in SUBSET S : Comes(S) /\ Last(S, T) => Last(S, T)'
    BY DEF JobsStay
  <1>4. \A p, v : Comes(ReportBy(m, p)) /\ Last(ReportBy(m, p), ThatReport(m, p, v))
                        => Last(ReportBy(m, p), ThatReport(m, p, v))'
    BY <1>1, <1>3
  <1> QED BY <1>1, <1>2, <1>4

LEMMA Untouched ==
  ASSUME NEW m \in Match, Types, RowInv(m), JobsStay(m),
         db'[m] = db[m], (rating'[m] = None) <=> (rating[m] = None),
         mem'[m] = mem[m] \/ (mem'[m] = None /\ rating[m] = None),
         m \in live' <=> m \in live,
         m = inserting' => m = inserting,
         m \in lost => m \in lost'
  PROVE  RowInv(m)'
  <1>1. RowRule(m) /\ SystemRule(m) /\ \A r \in Row : mem[m] = r => Owed(m, r)
    BY DEF RowInv
  <1>2. RowRule(m)'
    BY <1>1, StayOf DEF RowRule
  <1>3. SystemRule(m)'
    BY <1>1, StayOf DEF SystemRule
  <1>4. ASSUME NEW r \in Row, mem'[m] = r PROVE Owed(m, r)'
    <2>1. mem[m] = r
      BY <1>4, ValuesAreFinal
    <2>2. (m \in live => LiveRow(r)) /\ Told(m, r) /\ (m \notin lost => Judged(m, r))
      BY <1>1, <2>1 DEF Owed
    <2>3. Told(m, r)'
      BY <2>2, StayOf DEF Told
    <2>4. m \notin lost' => Judged(m, r)'
      BY <2>2, StayOf DEF Judged
    <2> QED BY <2>2, <2>3, <2>4 DEF Owed
  <1> QED BY <1>2, <1>3, <1>4 DEF RowInv

LEMMA StayUnchanged ==
  ASSUME NEW k, UNCHANGED jobVars
  PROVE  JobsStay(k)
  BY JobsUnchanged DEF JobsStay

LEMMA StayQueued ==
  ASSUME NEW k, SeqTypes, NEW x \in Job, x \notin JobOf(k),
         queue' = Append(queue, x), deferred' = deferred
  PROVE  JobsStay(k)
  <1>1. /\ \A S : Comes(S)' <=> Comes(S) \/ x \in S
        /\ \A S, T : x \notin S /\ Last(S, T) => Last(S, T)'
    BY JobQueued
  <1>2. \A S \in SUBSET JobOf(k) : x \notin S
    OBVIOUS
  <1> QED BY <1>1, <1>2 DEF JobsStay

LEMMA StayDeferred ==
  ASSUME NEW k, SeqTypes, NEW x \in ReportJob, x \notin JobOf(k),
         deferred' = Append(deferred, x), queue' = queue
  PROVE  JobsStay(k)
  <1>1. /\ \A S : Comes(S)' <=> Comes(S) \/ x \in S
        /\ \A S, T : x \notin S /\ Last(S, T) => Last(S, T)'
    BY JobDeferred
  <1>2. \A S \in SUBSET JobOf(k) : x \notin S
    OBVIOUS
  <1> QED BY <1>1, <1>2 DEF JobsStay

LEMMA StayMoved ==
  ASSUME NEW k, SeqTypes, RunDeferred
  PROVE  JobsStay(k)
  <1>1. /\ \A S : Comes(S)' <=> Comes(S)
        /\ \A S, T : T \subseteq S /\ Comes(S) /\ Last(S, T) => Last(S, T)'
    BY JobMoves
  <1> QED BY <1>1 DEF JobsStay

LEMMA StayWritten ==
  ASSUME NEW k, SeqTypes, WriteNext, Head(queue) \notin JobOf(k)
  PROVE  JobsStay(k)
  <1>1. queue # <<>> /\ queue' = Tail(queue) /\ deferred' = deferred
    BY WriteStep
  <1>2. /\ \A S : Comes(S) <=> Head(queue) \in S \/ Comes(S)'
        /\ \A S, T : T \subseteq S /\ Last(S, T) /\ Comes(S)' => Last(S, T)'
    BY <1>1, JobWritten
  <1>3. \A S \in SUBSET JobOf(k) : Head(queue) \notin S
    OBVIOUS
  <1>4. \A S \in SUBSET JobOf(k) : Comes(S)' <=> Comes(S)
    BY <1>2, <1>3
  <1>5. \A S \in SUBSET JobOf(k) : \A T \in SUBSET S : Comes(S) /\ Last(S, T) => Last(S, T)'
    BY <1>2, <1>4
  <1> QED BY <1>4, <1>5 DEF JobsStay

\* Two jobs at once.
LEMMA TwoQueued ==
  ASSUME NEW J, NEW s \in Seq(J), NEW x \in J, NEW y \in J
  PROVE  s \o <<x, y>> = Append(Append(s, x), y)
  OBVIOUS

LEMMA JobsQueued ==
  ASSUME SeqTypes, NEW x \in Job, NEW y \in Job,
         queue' = queue \o <<x, y>>, deferred' = deferred
  PROVE  /\ SeqTypes'
         /\ \A S : Comes(S)' <=> Comes(S) \/ x \in S \/ y \in S
         /\ \A S, T : x \notin S /\ y \notin S /\ Last(S, T) => Last(S, T)'
  <1> DEFINE s == Append(queue, x)
  <1>1. s \in Seq(Job) /\ queue' = Append(s, y)
    BY TwoQueued, Appended DEF SeqTypes
  <1>2. /\ \A S : HasIn(s, S) <=> HasIn(queue, S) \/ x \in S
        /\ \A S, T : x \notin S /\ EndsIn(queue, S, T) => EndsIn(s, S, T)
    BY HasAppended, EndsAppended DEF SeqTypes
  <1> HIDE DEF s
  <1>3. /\ queue' \in Seq(Job)
        /\ \A S : HasIn(queue', S) <=> HasIn(s, S) \/ y \in S
        /\ \A S, T : y \notin S /\ EndsIn(s, S, T) => EndsIn(queue', S, T)
    <2>1. Append(s, y) \in Seq(Job)
      BY <1>1, Appended
    <2>2. \A S : HasIn(Append(s, y), S) <=> HasIn(s, S) \/ y \in S
      BY <1>1, HasAppended
    <2>3. \A S, T : y \notin S /\ EndsIn(s, S, T) => EndsIn(Append(s, y), S, T)
      BY <1>1, EndsAppended
    <2> QED BY <1>1, <2>1, <2>2, <2>3
  <1>4. SeqTypes'
    BY <1>3 DEF SeqTypes
  <1>5. \A S : Comes(S)' <=> Comes(S) \/ x \in S \/ y \in S
    BY <1>2, <1>3 DEF Comes
  <1>6. \A S, T : x \notin S /\ y \notin S /\ Last(S, T) => Last(S, T)'
    BY <1>2, <1>3 DEF Last
  <1> QED BY <1>4, <1>5, <1>6

LEMMA StayQueuedTwo ==
  ASSUME NEW k, SeqTypes, NEW x \in Job, NEW y \in Job, x \notin JobOf(k), y \notin JobOf(k),
         queue' = queue \o <<x, y>>, deferred' = deferred
  PROVE  JobsStay(k)
  <1>1. /\ \A S : Comes(S)' <=> Comes(S) \/ x \in S \/ y \in S
        /\ \A S, T : x \notin S /\ y \notin S /\ Last(S, T) => Last(S, T)'
    BY JobsQueued
  <1>2. \A S \in SUBSET JobOf(k) : x \notin S /\ y \notin S
    OBVIOUS
  <1> QED BY <1>1, <1>2 DEF JobsStay

\* The jobs of a recount.
LEMMA RecountQueued ==
  ASSUME SeqTypes, NEW rows, queue' = queue \o RecountJobs(rows), deferred' = deferred
  PROVE  SeqTypes' /\ \A k : JobsStay(k)
  <1> DEFINE x == GamesJob(1, GamesIn(rows, 1))
             y == GamesJob(2, GamesIn(rows, 2))
  <1>1. x \in TallyJob /\ y \in TallyJob /\ x \in Job /\ y \in Job
    BY TallyJobs, TallyCounted, ValuesAreFinal
  <1>2. RecountJobs(rows) = IF Finals(rows) = {} THEN <<>> ELSE <<x, y>>
    BY DEF RecountJobs
  <1>3. \A k : x \notin JobOf(k) /\ y \notin JobOf(k)
    BY <1>1, JobOps DEF JobOf, RowJob
  <1> HIDE DEF x, y
  <1>4. CASE Finals(rows) = {}
    <2>1. queue' = queue
      BY <1>2, <1>4 DEF SeqTypes
    <2> QED BY <2>1, StayUnchanged DEF jobVars, SeqTypes
  <1>5. CASE Finals(rows) # {}
    <2>1. queue' = queue \o <<x, y>>
      BY <1>2, <1>5
    <2>2. SeqTypes'
      BY <1>1, <2>1, JobsQueued
    <2>3. ASSUME NEW k PROVE JobsStay(k)
      BY <1>1, <1>3, <2>1, StayQueuedTwo
    <2> QED BY <2>2, <2>3
  <1> QED BY <1>4, <1>5

-----------------------------------------------------------------------------
(* Each step on the row of its own match *)

LEMMA InsertedRow ==
  ASSUME NEW m \in Match, Types, RowInv(m), InsertMatch(m)
  PROVE  RowInv(m)'
  <1>1. /\ inserting = None /\ db[m] = None /\ db'[m] = NewRow /\ inserting' = m
        /\ live' = live \cup {m} /\ mem' = mem /\ rating' = rating /\ lost' = lost
        /\ UNCHANGED jobVars
    BY DEF InsertMatch, Types, RowTypes, historyVars
  <1>2. RowRule(m)
    BY DEF RowInv
  <1>3. mem[m] = None /\ rating[m] = None /\ ~Comes(JobOf(m))
    BY <1>1, <1>2, ValuesAreFinal DEF RowRule
  <1>4. ~Comes(JobOf(m))'
    BY <1>1, <1>3, JobsUnchanged
  <1>5. ~Comes(SystemOf(m))'
    <2>1. SystemOf(m) \subseteq JobOf(m)
      BY KindsOfJobs
    <2> QED BY <1>4, <2>1, HasSubset DEF Comes
  <1>6. ~Reported(NewRow)
    BY NewRowFields, ValuesAreFinal DEF Reported
  <1>7. RowRule(m)'
    BY <1>1, <1>3, <1>4, <1>6, NewRowFields, ValuesAreFinal DEF RowRule
  <1>8. SystemRule(m)'
    BY <1>5 DEF SystemRule
  <1>9. ASSUME NEW r \in Row PROVE ~(mem'[m] = r)
    BY <1>1, <1>3, ValuesAreFinal
  <1> QED BY <1>7, <1>8, <1>9 DEF RowInv

LEMMA NoJobs ==
  ASSUME NEW m, ~Comes(JobOf(m))
  PROVE  /\ ~Comes(AbortOf(m)) /\ ~Comes(SystemOf(m)) /\ ~Comes(Verdict(m)) /\ ~Comes(ChangeOf(m))
         /\ \A v : ~Comes(ThatResult(m, v))
         /\ \A p : ~Comes(ReportBy(m, p))
  <1>1. \A S : S \subseteq JobOf(m) => ~Comes(S)
    BY HasSubset DEF Comes
  <1>2. /\ AbortOf(m) \subseteq JobOf(m) /\ SystemOf(m) \subseteq JobOf(m)
        /\ Verdict(m) \subseteq JobOf(m) /\ ChangeOf(m) \subseteq JobOf(m)
        /\ \A v : ThatResult(m, v) \subseteq JobOf(m)
        /\ \A p : ReportBy(m, p) \subseteq JobOf(m)
    BY KindsOfJobs
  <1> QED BY <1>1, <1>2

\* A row without jobs that memory shares with the database.
LEMMA SharedRow ==
  ASSUME NEW m, NEW r \in Row, ~Comes(JobOf(m)), db[m] = r,
         Reported(r) => r.result # None
  PROVE  Told(m, r) /\ Judged(m, r)
  <1>1. Told(m, r)
    BY NoJobs DEF Told
  <1>2. r.result # Aborted => r.result = ResultOf(r)
    BY DEF ResultOf
  <1> QED BY <1>1, <1>2, NoJobs DEF Judged

\* What an open match is: it is of this run, in memory, and not being rated.
LEMMA OpenRow ==
  ASSUME NEW m \in Match, Types, RowInv(m), IsOpen(m)
  PROVE  /\ mem[m] \in Row /\ db[m] \in Row /\ m \in live /\ m # inserting /\ rating[m] = None
         /\ mem[m].result = None /\ RowRule(m) /\ SystemRule(m)
         /\ LiveRow(mem[m]) /\ Told(m, mem[m])
         /\ ~Comes(AbortOf(m)) /\ ~Comes(SystemOf(m))
         /\ \A v \in Value : ~Comes(ThatResult(m, v))
  <1>1. m \in live /\ mem[m] # None /\ mem[m].result = None
    BY DEF IsOpen
  <1>2. RowRule(m) /\ SystemRule(m) /\ \A r \in Row : mem[m] = r => Owed(m, r)
    BY DEF RowInv
  <1>3. mem[m] \in Row /\ db[m] \in Row
    BY <1>1, <1>2 DEF RowRule, Types, RowTypes
  <1>4. LiveRow(mem[m]) /\ Told(m, mem[m])
    BY <1>1, <1>2, <1>3 DEF Owed
  <1>5. m # inserting /\ rating[m] = None
    BY <1>1, <1>2, ValuesAreFinal DEF RowRule
  <1>6. ~Comes(AbortOf(m)) /\ \A v \in Value : ~Comes(ThatResult(m, v))
    BY <1>1, <1>4, ValuesAreFinal DEF Told
  <1>7. ~Comes(SystemOf(m))
    BY <1>6, KindsOfJobs, HasSubset DEF Comes
  <1> QED BY <1>1, <1>2, <1>3, <1>4, <1>5, <1>6, <1>7

\* Which kinds a new job of a match is of.
LEMMA ReportKinds ==
  ASSUME NEW m \in Match, NEW p \in Player, NEW v \in Value, NEW x,
         x = [op |-> "report", match |-> m, by |-> p, value |-> v]
  PROVE  /\ x \in ReportJob /\ x \in Job /\ x \in JobOf(m) /\ x \in Verdict(m)
         /\ x \in ThatReport(m, p, v) /\ x \in ReportBy(m, p)
         /\ \A q : q # p => x \notin ReportBy(m, q)
         /\ x \notin AbortOf(m) /\ x \notin SystemOf(m) /\ x \notin ChangeOf(m)
         /\ \A w : x \notin ThatResult(m, w)
  <1>1. x \in ReportJob /\ x.op = "report" /\ x.match = m /\ x.by = p /\ x.value = v
    BY DEF ReportJob
  <1>2. /\ x \in Job /\ x \in JobOf(m) /\ x \in Verdict(m)
        /\ x \in ThatReport(m, p, v) /\ x \in ReportBy(m, p)
        /\ \A q : q # p => x \notin ReportBy(m, q)
    BY <1>1 DEF Job, RowJob, JobOf, Verdict, ThatReport, ReportBy
  <1>3. x \notin AbortOf(m) /\ x \notin SystemOf(m) /\ x \notin ChangeOf(m)
    BY <1>1, JobOps DEF AbortOf, SystemOf, ChangeOf
  <1>4. \A w : x \notin ThatResult(m, w)
    BY <1>1, JobOps DEF ThatResult
  <1> QED BY <1>1, <1>2, <1>3, <1>4

LEMMA ReportedRow ==
  ASSUME NEW m \in Match, NEW p \in Player, NEW v \in Value, Types, RowInv(m), Report(m, p, v)
  PROVE  RowInv(m)'
  <1> DEFINE x == [op |-> "report", match |-> m, by |-> p, value |-> v]
  <1>1. PICK o \in Row : o = mem[m]
    BY OpenRow DEF Report
  <1>2. PICK n \in Row : n = Noted(o, p, v)
    BY RowNoted
  <1>3. /\ IsOpen(m) /\ mem' = [mem EXCEPT ![m] = Noted(@, p, v)]
        /\ deferred' = Append(deferred, x) /\ queue' = queue
        /\ db' = db /\ live' = live /\ inserting' = inserting /\ rating' = rating /\ lost' = lost
    BY DEF Report, historyVars
  <1>4. mem'[m] = n
    BY <1>1, <1>2, <1>3 DEF Types, RowTypes
  <1>5. /\ x \in ReportJob /\ x \in Job /\ x \in JobOf(m) /\ x \in Verdict(m)
        /\ x \in ThatReport(m, p, v) /\ x \in ReportBy(m, p)
        /\ \A q : q # p => x \notin ReportBy(m, q)
        /\ x \notin AbortOf(m) /\ x \notin SystemOf(m) /\ x \notin ChangeOf(m)
        /\ \A w : x \notin ThatResult(m, w)
    BY ReportKinds
  <1> HIDE DEF x
  <1>6. /\ \A S : Comes(S)' <=> Comes(S) \/ x \in S
        /\ \A S, T : x \notin S /\ Last(S, T) => Last(S, T)'
        /\ \A S, T : T \subseteq S /\ x \in T => Last(S, T)'
    BY <1>3, <1>5, JobDeferred DEF Types
  <1>7. /\ db[m] \in Row /\ m \in live /\ m # inserting /\ rating[m] = None
        /\ o.result = None /\ RowRule(m) /\ SystemRule(m)
        /\ LiveRow(o) /\ Told(m, o)
        /\ ~Comes(AbortOf(m)) /\ ~Comes(SystemOf(m))
        /\ \A w \in Value : ~Comes(ThatResult(m, w))
    BY <1>1, <1>3, OpenRow
  <1>8. /\ n.report[p] = v /\ \A q \in Player : q # p => n.report[q] = o.report[q]
        /\ n.result = None /\ n.change = o.change
    BY <1>2, <1>7, RowNoted
  <1>9. RowRule(m)'
    BY <1>3, <1>7, ValuesAreFinal DEF RowRule
  <1>10. SystemRule(m)'
    BY <1>5, <1>6, <1>7 DEF SystemRule
  <1>11. LiveRow(n)
    BY <1>7, <1>8, ValuesAreFinal DEF LiveRow
  <1>12. Told(m, n)'
    <2>1. ~Comes(AbortOf(m))' /\ \A w \in Value : ~Comes(ThatResult(m, w))'
      BY <1>5, <1>6, <1>7
    <2>2. ASSUME NEW q \in Player, Comes(ReportBy(m, q))'
          PROVE  n.report[q] # None /\ Last(ReportBy(m, q), ThatReport(m, q, n.report[q]))'
      <3>1. CASE q = p
        <4>1. ThatReport(m, p, v) \subseteq ReportBy(m, p)
          BY KindsOfJobs
        <4>2. Last(ReportBy(m, p), ThatReport(m, p, v))'
          BY <1>5, <1>6, <4>1
        <4> QED BY <1>8, <3>1, <4>2, ValuesAreFinal
      <3>2. CASE q # p
        <4>1. Comes(ReportBy(m, q)) /\ x \notin ReportBy(m, q)
          BY <1>5, <1>6, <2>2, <3>2
        <4>2. o.report[q] # None /\ Last(ReportBy(m, q), ThatReport(m, q, o.report[q]))
          BY <1>7, <4>1, ValuesAreFinal DEF Told
        <4> QED BY <1>6, <1>8, <3>2, <4>1, <4>2
      <3> QED BY <3>1, <3>2
    <2>3. ASSUME NEW q \in Player, ~Comes(ReportBy(m, q))'
          PROVE  db'[m].report[q] = n.report[q]
      <3>1. q # p /\ ~Comes(ReportBy(m, q))
        BY <1>5, <1>6, <2>3
      <3> QED BY <1>3, <1>7, <1>8, <3>1, ValuesAreFinal DEF Told
    <2>4. /\ Comes(ChangeOf(m))' => n.change
          /\ ~Comes(ChangeOf(m))' => db'[m].change = n.change
      BY <1>3, <1>5, <1>6, <1>7, <1>8 DEF Told
    <2>5. n.result = None /\ db'[m].result # None => Reported(n)
      BY <1>3, <1>7, <1>8, ValuesAreFinal DEF Told, Reported
    <2> QED BY <2>1, <2>2, <2>3, <2>4, <2>5 DEF Told
  <1>13. Judged(m, n)'
    BY <1>5, <1>6, <1>8, ValuesAreFinal DEF Judged
  <1>14. ASSUME NEW r \in Row, mem'[m] = r PROVE Owed(m, r)'
    <2>1. r = n
      BY <1>4, <1>14
    <2> QED BY <1>11, <1>12, <1>13, <2>1 DEF Owed
  <1> QED BY <1>9, <1>10, <1>14 DEF RowInv

LEMMA AbortKinds ==
  ASSUME NEW m \in Match, NEW p \in Player, NEW x,
         x = [op |-> "abort", match |-> m, by |-> p]
  PROVE  /\ x \in Job /\ x \in JobOf(m) /\ x \in AbortOf(m)
         /\ x \notin SystemOf(m) /\ x \notin ChangeOf(m) /\ x \notin Verdict(m)
         /\ \A w : x \notin ThatResult(m, w)
         /\ \A q : x \notin ReportBy(m, q)
  <1>1. x \in AbortJob /\ x.op = "abort" /\ x.match = m
    BY DEF AbortJob
  <1>2. x \in Job /\ x \in JobOf(m) /\ x \in AbortOf(m)
    BY <1>1 DEF Job, RowJob, JobOf, AbortOf
  <1>3. /\ x \notin SystemOf(m) /\ x \notin ChangeOf(m) /\ x \notin Verdict(m)
        /\ \A w : x \notin ThatResult(m, w) /\ \A q : x \notin ReportBy(m, q)
    BY <1>1, JobOps DEF SystemOf, ChangeOf, Verdict, ThatResult, ReportBy
  <1> QED BY <1>2, <1>3

LEMMA SystemKinds ==
  ASSUME NEW m \in Match, NEW f \in [Player -> {None, Unconfirmed}], NEW x,
         x = [op |-> "system", match |-> m, report |-> f]
  PROVE  /\ x \in Job /\ x \in JobOf(m) /\ x \in AbortOf(m) /\ x \in SystemOf(m)
         /\ x \notin ChangeOf(m) /\ x \notin Verdict(m)
         /\ \A w : x \notin ThatResult(m, w)
         /\ \A q : x \notin ReportBy(m, q)
  <1>1. x \in SystemJob /\ x.op = "system" /\ x.match = m
    BY DEF SystemJob
  <1>2. x \in Job /\ x \in JobOf(m) /\ x \in AbortOf(m) /\ x \in SystemOf(m)
    BY <1>1 DEF Job, RowJob, JobOf, AbortOf, SystemOf
  <1>3. /\ x \notin ChangeOf(m) /\ x \notin Verdict(m)
        /\ \A w : x \notin ThatResult(m, w) /\ \A q : x \notin ReportBy(m, q)
    BY <1>1, JobOps DEF ChangeOf, Verdict, ThatResult, ReportBy
  <1> QED BY <1>2, <1>3

\* A row in memory that an abort has ended.
LEMMA EndedInMemory ==
  ASSUME NEW m \in Match, Types, RowInv(m), IsOpen(m), NEW f \in [Player -> Mark],
         mem' = [mem EXCEPT ![m] = Ended(@, f)], NEW x \in Job, x \in AbortOf(m),
         x \notin ChangeOf(m), \A w : x \notin ThatResult(m, w),
         x \in SystemOf(m) => db[m].result = None /\ ~Comes(Verdict(m)),
         x \notin Verdict(m),
         queue' = Append(queue, x), deferred' = deferred,
         db' = db, live' = live, inserting' = inserting, rating' = rating, lost' = lost
  PROVE  RowInv(m)'
  <1>1. PICK o \in Row : o = mem[m]
    BY OpenRow
  <1>2. PICK n \in Row : n = Ended(o, f)
    BY RowEnded
  <1>4. mem'[m] = n
    BY <1>1, <1>2 DEF Types, RowTypes
  <1>6. \A S : Comes(S)' <=> Comes(S) \/ x \in S
    BY JobQueued DEF Types
  <1>7. /\ db[m] \in Row /\ m \in live /\ m # inserting /\ rating[m] = None
        /\ o.result = None /\ RowRule(m) /\ SystemRule(m)
        /\ Told(m, o)
        /\ ~Comes(SystemOf(m)) /\ \A w \in Value : ~Comes(ThatResult(m, w))
    BY <1>1, OpenRow
  <1>8. n.result = Aborted /\ n.change = o.change
    BY <1>2, RowEnded
  <1>9. RowRule(m)'
    BY <1>7, ValuesAreFinal DEF RowRule
  <1>10. SystemRule(m)'
    BY <1>6, <1>7, ValuesAreFinal DEF SystemRule
  <1>11. LiveRow(n)
    BY <1>8, ValuesAreFinal DEF LiveRow
  <1>12. Told(m, n)'
    <2>1. \A w \in Value : ~Comes(ThatResult(m, w))'
      BY <1>6, <1>7
    <2>2. /\ Comes(ChangeOf(m))' => n.change
          /\ ~Comes(ChangeOf(m))' => db'[m].change = n.change
      BY <1>6, <1>7, <1>8 DEF Told
    <2> QED BY <1>8, <2>1, <2>2, ValuesAreFinal DEF Told
  <1>13. Judged(m, n)'
    BY <1>6, <1>8 DEF Judged
  <1>14. ASSUME NEW r \in Row, mem'[m] = r PROVE Owed(m, r)'
    <2>1. r = n
      BY <1>4, <1>14
    <2> QED BY <1>11, <1>12, <1>13, <2>1 DEF Owed
  <1> QED BY <1>9, <1>10, <1>14 DEF RowInv

LEMMA AbortedRow ==
  ASSUME NEW m \in Match, NEW p \in Player, Types, RowInv(m), Abort(m, p)
  PROVE  RowInv(m)'
  <1> DEFINE x == [op |-> "abort", match |-> m, by |-> p]
             f == [q \in Player |-> IF q = p THEN Aborter ELSE Aborted]
  <1>1. f \in [Player -> Mark]
    BY DEF Mark
  <1>2. /\ IsOpen(m) /\ mem' = [mem EXCEPT ![m] = Ended(@, f)]
        /\ queue' = Append(queue, x) /\ deferred' = deferred
        /\ db' = db /\ live' = live /\ inserting' = inserting /\ rating' = rating /\ lost' = lost
    BY DEF Abort, historyVars
  <1>3. /\ x \in Job /\ x \in AbortOf(m) /\ x \notin SystemOf(m) /\ x \notin ChangeOf(m)
        /\ x \notin Verdict(m) /\ \A w : x \notin ThatResult(m, w)
    BY AbortKinds
  <1> HIDE DEF x, f
  <1> QED BY <1>1, <1>2, <1>3, EndedInMemory

\* No one has reported, so nothing of the match is on its way, or judged.
LEMMA Unreported ==
  ASSUME NEW m \in Match, Types, RowInv(m), IsOpen(m), mem[m].report = NewRow.report
  PROVE  db[m].result = None /\ ~Comes(Verdict(m))
  <1>1. PICK o \in Row : o = mem[m]
    BY OpenRow
  <1>2. /\ o.result = None /\ Told(m, o) /\ \A w \in Value : ~Comes(ThatResult(m, w))
    BY <1>1, OpenRow
  <1>3. \A p \in Player : o.report[p] = None
    BY <1>1, NewRowFields
  <1>4. ~Reported(o)
    BY <1>3, ValuesAreFinal DEF Reported
  <1>5. db[m].result = None
    BY <1>2, <1>4, ValuesAreFinal DEF Told
  <1>6. \A p \in Player : ~Comes(ReportBy(m, p))
    BY <1>2, <1>3, ValuesAreFinal DEF Told
  <1>7. ASSUME NEW x \in Verdict(m)
        PROVE  (\E p \in Player : x \in ReportBy(m, p)) \/ \E w \in Value : x \in ThatResult(m, w)
    <2>1. CASE x \in ReportJob
      <3>1. x.match = m /\ x.by \in Player /\ x \in ReportBy(m, x.by)
        BY <2>1, JobOps DEF Verdict, ReportBy
      <3> QED BY <3>1
    <2>2. CASE x \in ResultJob
      <3>1. x.match = m /\ x.value \in Value /\ x \in ThatResult(m, x.value)
        BY <2>2, JobOps DEF Verdict, ThatResult
      <3> QED BY <3>1
    <2> QED BY <2>1, <2>2 DEF Verdict
  <1>8. ~HasIn(queue, Verdict(m)) /\ ~HasIn(deferred, Verdict(m))
    BY <1>2, <1>6, <1>7 DEF Comes, HasIn
  <1> QED BY <1>5, <1>8 DEF Comes

LEMMA SystemAbortedRow ==
  ASSUME NEW m \in Match, NEW absent \in SUBSET Player, Types, RowInv(m), SystemAbort(m, absent)
  PROVE  RowInv(m)'
  <1> DEFINE f == [p \in Player |-> IF p \in absent THEN Unconfirmed ELSE None]
             x == [op |-> "system", match |-> m, report |-> f]
  <1>1. f \in [Player -> Mark] /\ f \in [Player -> {None, Unconfirmed}]
    BY DEF Mark
  <1>2. /\ IsOpen(m) /\ mem[m].report = NewRow.report /\ mem' = [mem EXCEPT ![m] = Ended(@, f)]
        /\ queue' = Append(queue, x) /\ deferred' = deferred
        /\ db' = db /\ live' = live /\ inserting' = inserting /\ rating' = rating /\ lost' = lost
    BY DEF SystemAbort, historyVars
  <1> HIDE DEF f
  <1>3. /\ x \in Job /\ x \in AbortOf(m) /\ x \notin ChangeOf(m)
        /\ x \notin Verdict(m) /\ \A w : x \notin ThatResult(m, w)
    BY <1>1, SystemKinds
  <1>4. db[m].result = None /\ ~Comes(Verdict(m))
    BY <1>2, Unreported
  <1> HIDE DEF x
  <1> QED BY <1>1, <1>2, <1>3, <1>4, EndedInMemory

LEMMA ResultKinds ==
  ASSUME NEW m \in Match, NEW v \in Value, NEW x,
         x = [op |-> "result", match |-> m, value |-> v]
  PROVE  /\ x \in Job /\ x \in JobOf(m) /\ x \in Verdict(m)
         /\ x \in ResultFor(m) /\ x \in ThatResult(m, v)
         /\ x \notin AbortOf(m) /\ x \notin SystemOf(m) /\ x \notin ChangeOf(m)
         /\ \A w : w # v => x \notin ThatResult(m, w)
         /\ \A q : x \notin ReportBy(m, q)
  <1>1. x \in ResultJob /\ x.op = "result" /\ x.match = m /\ x.value = v
    BY DEF ResultJob
  <1>2. /\ x \in Job /\ x \in JobOf(m) /\ x \in Verdict(m)
        /\ x \in ResultFor(m) /\ x \in ThatResult(m, v)
        /\ \A w : w # v => x \notin ThatResult(m, w)
    BY <1>1 DEF Job, RowJob, JobOf, Verdict, ResultFor, ThatResult
  <1>3. /\ x \notin AbortOf(m) /\ x \notin SystemOf(m) /\ x \notin ChangeOf(m)
        /\ \A q : x \notin ReportBy(m, q)
    BY <1>1, JobOps DEF AbortOf, SystemOf, ChangeOf, ReportBy
  <1> QED BY <1>2, <1>3

LEMMA ChangeKinds ==
  ASSUME NEW m \in Match, NEW x, x = [op |-> "change", match |-> m]
  PROVE  /\ x \in Job /\ x \in JobOf(m) /\ x \in ChangeOf(m)
         /\ x \notin AbortOf(m) /\ x \notin SystemOf(m) /\ x \notin Verdict(m)
         /\ \A w : x \notin ThatResult(m, w)
         /\ \A q : x \notin ReportBy(m, q)
  <1>1. x \in ChangeJob /\ x.op = "change" /\ x.match = m
    BY DEF ChangeJob
  <1>2. x \in Job /\ x \in JobOf(m) /\ x \in ChangeOf(m)
    BY <1>1 DEF Job, RowJob, JobOf, ChangeOf
  <1>3. /\ x \notin AbortOf(m) /\ x \notin SystemOf(m) /\ x \notin Verdict(m)
        /\ \A w : x \notin ThatResult(m, w) /\ \A q : x \notin ReportBy(m, q)
    BY <1>1, JobOps DEF AbortOf, SystemOf, Verdict, ThatResult, ReportBy
  <1> QED BY <1>2, <1>3

\* A job of a player's games is of no match.
LEMMA TallyKinds ==
  ASSUME NEW x \in TallyJob
  PROVE  /\ x \in Job
         /\ \A m : x \notin JobOf(m)
         /\ \A m, S : S \subseteq JobOf(m) => x \notin S
  BY JobOps DEF Job, JobOf, RowJob

\* What the handler that rates a match decides, and what it keeps for later.
LEMMA RateFirstStep ==
  ASSUME NEW m \in Match, Types, RowInv(m), RateFirst(m)
  PROVE  LET v == mem[m].report[1]
             x == [op |-> "result", match |-> m, value |-> v]
             y == GamesJob(1, OneMore(games[1], 1, v))
         IN  /\ v \in Value /\ mem[m].report[2] = v
             /\ y \in TallyJob
             /\ mem' = [mem EXCEPT ![m] = [mem[m] EXCEPT !.result = v]]
             /\ rating' = [rating EXCEPT ![m] = [rated |-> {1}, second |-> OneMore(games[2], 2, v)]]
             /\ [rated |-> {1}, second |-> OneMore(games[2], 2, v)] \in Rated
             /\ queue' = queue \o <<x, y>> /\ deferred' = deferred
             /\ games' = [games EXCEPT ![1] = OneMore(games[1], 1, v)]
             /\ OneMore(games[1], 1, v) \in Tally
  <1> DEFINE v == mem[m].report[1]
             g == OneMore(games[1], 1, v)
             w == OneMore(games[2], 2, v)
  <1>1. IsOpen(m) /\ Reported(mem[m]) /\ Agreed(mem[m])
    BY DEF RateFirst, IsDue
  <1>2. LiveRow(mem[m]) /\ mem[m].result = None /\ mem[m] \in Row
    BY <1>1, OpenRow
  <1>3. v \in Value /\ mem[m].report[2] = v
    BY <1>1, <1>2, ValuesAreFinal DEF LiveRow, Reported, Agreed
  <1>4. g \in Tally /\ w \in Tally
    BY TallyOne, ValuesAreFinal DEF Types, TallyTypes
  <1>5. GamesJob(1, g) \in TallyJob
    BY <1>4, TallyJobs, ValuesAreFinal
  <1>6. [rated |-> {1}, second |-> w] \in Rated
    BY <1>4 DEF Rated
  <1>7. /\ mem' = [mem EXCEPT ![m].result = v]
        /\ rating' = [rating EXCEPT ![m] = [rated |-> {1}, second |-> w]]
        /\ queue' = queue \o <<[op |-> "result", match |-> m, value |-> v], GamesJob(1, g)>>
        /\ deferred' = deferred /\ games' = [games EXCEPT ![1] = g]
    BY DEF RateFirst
  <1>8. mem' = [mem EXCEPT ![m] = [mem[m] EXCEPT !.result = v]]
    BY <1>7 DEF Types, RowTypes
  <1> QED BY <1>3, <1>4, <1>5, <1>6, <1>7, <1>8

LEMMA RatedRow ==
  ASSUME NEW m \in Match, Types, RowInv(m), RateFirst(m)
  PROVE  RowInv(m)'
  <1>1. PICK o \in Row : o = mem[m]
    BY OpenRow DEF RateFirst, IsDue
  <1>2. PICK v \in Value : v = o.report[1]
    BY <1>1, RateFirstStep
  <1>3. PICK x : x = [op |-> "result", match |-> m, value |-> v]
    OBVIOUS
  <1>4. PICK y \in TallyJob : queue' = queue \o <<x, y>>
    BY <1>1, <1>2, <1>3, RateFirstStep
  <1>5. PICK n : n = [o EXCEPT !.result = v]
    OBVIOUS
  <1>6. v \in Verdicts
    BY ValuesAreFinal DEF Verdicts
  <1>7. n \in Row /\ n.report = o.report /\ n.result = v /\ n.change = o.change
    BY <1>5, <1>6, RowDecided
  <1>8. /\ deferred' = deferred /\ o.report[2] = v
        /\ mem' = [mem EXCEPT ![m] = n]
        /\ rating'[m] # None
    <2>1. deferred' = deferred /\ o.report[2] = v
      BY <1>1, <1>2, RateFirstStep
    <2>2. mem' = [mem EXCEPT ![m] = n]
      BY <1>1, <1>2, <1>5, RateFirstStep
    <2>3. PICK d \in Rated : rating' = [rating EXCEPT ![m] = d]
      BY <1>1, <1>2, RateFirstStep
    <2>4. rating'[m] = d
      BY <2>3 DEF Types, HandlerTypes
    <2> QED BY <2>1, <2>2, <2>4, ValuesAreFinal
  <1>9. /\ db' = db /\ live' = live /\ inserting' = inserting /\ lost' = lost /\ IsOpen(m)
    BY DEF RateFirst, historyVars, IsDue
  <1>10. mem'[m] = n
    BY <1>8 DEF Types, RowTypes
  <1>11. /\ x \in Job /\ x \in JobOf(m) /\ x \in Verdict(m)
         /\ x \in ResultFor(m) /\ x \in ThatResult(m, v)
         /\ x \notin AbortOf(m) /\ x \notin SystemOf(m) /\ x \notin ChangeOf(m)
         /\ \A w : w # v => x \notin ThatResult(m, w)
         /\ \A q : x \notin ReportBy(m, q)
    BY <1>3, ResultKinds
  <1>12. y \in Job /\ \A S : S \subseteq JobOf(m) => y \notin S
    BY TallyKinds
  <1>13. /\ \A S : Comes(S)' <=> Comes(S) \/ x \in S \/ y \in S
         /\ \A S, T : x \notin S /\ y \notin S /\ Last(S, T) => Last(S, T)'
    BY <1>4, <1>8, <1>11, <1>12, JobsQueued DEF Types
  <1>14. \A S : S \subseteq JobOf(m) => (Comes(S)' <=> Comes(S) \/ x \in S)
    BY <1>12, <1>13
  <1>15. /\ db[m] \in Row /\ m \in live /\ m # inserting /\ rating[m] = None
         /\ o.result = None /\ RowRule(m) /\ SystemRule(m)
         /\ LiveRow(o) /\ Told(m, o)
         /\ ~Comes(AbortOf(m)) /\ ~Comes(SystemOf(m))
         /\ \A w \in Value : ~Comes(ThatResult(m, w))
    BY <1>1, <1>9, OpenRow
  <1>16. RowRule(m)'
    BY <1>7, <1>9, <1>10, <1>15, ValuesAreFinal DEF RowRule
  <1>17. ~Comes(SystemOf(m))' /\ ~Comes(AbortOf(m))'
    BY <1>11, <1>14, <1>15, KindsOfJobs
  <1>18. SystemRule(m)'
    BY <1>17 DEF SystemRule
  <1>19. LiveRow(n)
    BY <1>2, <1>7, <1>8, ValuesAreFinal DEF LiveRow
  <1>20. Told(m, n)'
    <2>1. \A q \in Player : Comes(ReportBy(m, q))' <=> Comes(ReportBy(m, q))
      BY <1>11, <1>14, KindsOfJobs
    <2>2. ASSUME NEW q \in Player, Comes(ReportBy(m, q))'
          PROVE  n.report[q] # None /\ Last(ReportBy(m, q), ThatReport(m, q, n.report[q]))'
      <3>1. x \notin ReportBy(m, q) /\ y \notin ReportBy(m, q)
        BY <1>11, <1>12, KindsOfJobs
      <3>2. o.report[q] # None /\ Last(ReportBy(m, q), ThatReport(m, q, o.report[q]))
        BY <1>15, <2>1, <2>2, ValuesAreFinal DEF Told
      <3> QED BY <1>7, <1>13, <3>1, <3>2
    <2>3. ASSUME NEW q \in Player, ~Comes(ReportBy(m, q))'
          PROVE  db'[m].report[q] = n.report[q]
      BY <1>7, <1>9, <1>15, <2>1, <2>3, ValuesAreFinal DEF Told
    <2>4. Comes(ChangeOf(m))' <=> Comes(ChangeOf(m))
      BY <1>11, <1>14, KindsOfJobs
    <2>5. /\ Comes(ChangeOf(m))' => n.change
          /\ ~Comes(ChangeOf(m))' => db'[m].change = n.change
      BY <1>7, <1>9, <1>15, <2>4 DEF Told
    <2>6. \A w : ThatResult(m, w) \subseteq JobOf(m)
      BY KindsOfJobs
    <2>7. \A w \in Value : Comes(ThatResult(m, w))' => w = n.result
      BY <1>7, <1>11, <1>14, <1>15, <2>6
    <2> QED BY <1>7, <1>17, <2>2, <2>3, <2>5, <2>7, ValuesAreFinal DEF Told
  <1>21. Comes(Verdict(m))'
    BY <1>11, <1>13
  <1>22. Judged(m, n)'
    BY <1>7, <1>21, ValuesAreFinal DEF Judged
  <1>23. ASSUME NEW r \in Row, mem'[m] = r PROVE Owed(m, r)'
    <2>1. r = n
      BY <1>10, <1>23
    <2> QED BY <1>19, <1>20, <1>22, <2>1 DEF Owed
  <1> QED BY <1>16, <1>18, <1>23 DEF RowInv

LEMMA ChangedRow ==
  ASSUME NEW m \in Match, Types, RowInv(m), RecordChange(m)
  PROVE  RowInv(m)'
  <1>1. PICK x : x = [op |-> "change", match |-> m]
    OBVIOUS
  <1>2. /\ rating[m] # None /\ queue' = Append(queue, x) /\ deferred' = deferred
        /\ db' = db /\ live' = live /\ inserting' = inserting /\ lost' = lost
        /\ mem' = IF mem[m] = None THEN mem ELSE [mem EXCEPT ![m].change = TRUE]
        /\ rating'[m] = None
    BY <1>1 DEF RecordChange, historyVars, Types, HandlerTypes
  <1>3. RowRule(m) /\ SystemRule(m) /\ \A r \in Row : mem[m] = r => Owed(m, r)
    BY DEF RowInv
  <1>4. mem[m] # None /\ mem[m].result \in Value /\ m \in live
    BY <1>2, <1>3, ValuesAreFinal DEF RowRule
  <1>5. PICK o \in Row : o = mem[m]
    BY <1>4 DEF Types, RowTypes
  <1>6. PICK n : n = [o EXCEPT !.change = TRUE]
    OBVIOUS
  <1>7. n \in Row /\ n.report = o.report /\ n.result = o.result /\ n.change = TRUE
    BY <1>6, RowChanged
  <1>8. mem'[m] = n
    BY <1>2, <1>4, <1>5, <1>6 DEF Types, RowTypes
  <1>9. /\ x \in Job /\ x \in JobOf(m) /\ x \in ChangeOf(m)
        /\ x \notin AbortOf(m) /\ x \notin SystemOf(m) /\ x \notin Verdict(m)
        /\ \A w : x \notin ThatResult(m, w)
        /\ \A q : x \notin ReportBy(m, q)
    BY <1>1, ChangeKinds
  <1>10. /\ \A S : Comes(S)' <=> Comes(S) \/ x \in S
         /\ \A S, T : x \notin S /\ Last(S, T) => Last(S, T)'
    BY <1>2, <1>9, JobQueued DEF Types
  <1>11. Owed(m, o) /\ m # inserting
    BY <1>3, <1>4, <1>5, ValuesAreFinal DEF RowRule
  <1>12. Told(m, o) /\ LiveRow(o) /\ (m \notin lost => Judged(m, o))
    BY <1>4, <1>11 DEF Owed
  <1>13. RowRule(m)'
    BY <1>2, <1>3, <1>4, <1>11, ValuesAreFinal DEF RowRule
  <1>14. SystemRule(m)'
    BY <1>2, <1>3, <1>9, <1>10 DEF SystemRule
  <1>15. LiveRow(n)
    BY <1>7, <1>12 DEF LiveRow
  <1>16. Told(m, n)'
    <2>1. o.result # Aborted /\ n.result # Aborted /\ n.result # None
      BY <1>4, <1>5, <1>7, ValuesAreFinal
    <2>2. ~Comes(AbortOf(m))'
      BY <1>9, <1>10, <1>12, <2>1 DEF Told
    <2>3. ASSUME NEW q \in Player, Comes(ReportBy(m, q))'
          PROVE  n.report[q] # None /\ Last(ReportBy(m, q), ThatReport(m, q, n.report[q]))'
      <3>1. Comes(ReportBy(m, q)) /\ x \notin ReportBy(m, q)
        BY <1>9, <1>10, <2>3
      <3>2. o.report[q] # None /\ Last(ReportBy(m, q), ThatReport(m, q, o.report[q]))
        BY <1>12, <2>1, <3>1 DEF Told
      <3> QED BY <1>7, <1>10, <3>1, <3>2
    <2>4. ASSUME NEW q \in Player, ~Comes(ReportBy(m, q))'
          PROVE  db'[m].report[q] = n.report[q]
      BY <1>2, <1>7, <1>9, <1>10, <1>12, <2>1, <2>4 DEF Told
    <2>5. Comes(ChangeOf(m))'
      BY <1>9, <1>10
    <2>6. \A w \in Value : Comes(ThatResult(m, w))' => w = n.result
      BY <1>7, <1>9, <1>10, <1>12 DEF Told
    <2> QED BY <1>7, <2>1, <2>2, <2>3, <2>4, <2>5, <2>6 DEF Told
  <1>17. m \notin lost => Judged(m, n)'
    <2>1. ResultOf(n) = ResultOf(o)
      BY <1>7 DEF ResultOf, Reported, Agreed
    <2> QED BY <1>2, <1>7, <1>9, <1>10, <1>12, <2>1 DEF Judged
  <1>18. ASSUME NEW r \in Row, mem'[m] = r PROVE Owed(m, r)'
    <2>1. r = n
      BY <1>8, <1>18
    <2> QED BY <1>2, <1>15, <1>16, <1>17, <2>1 DEF Owed
  <1> QED BY <1>13, <1>14, <1>18 DEF RowInv

-----------------------------------------------------------------------------
(* The writer on the row of its match *)

LEMMA WritesOf ==
  ASSUME NEW m \in Match, Types, RowInv(m), WriteNext, NEW x \in JobOf(m), x = Head(queue)
  PROVE  /\ m \in live /\ m # inserting /\ db[m] \in Row /\ x.match = m /\ x \in RowJob
         /\ RowRule(m) /\ SystemRule(m)
         /\ db' = [db EXCEPT ![m] = Written(x)] /\ db'[m] = Written(x)
         /\ mem' = mem /\ live' = live /\ inserting' = inserting /\ rating' = rating
         /\ m \in lost => m \in lost'
         /\ GoesWrong(x) => m \in lost'
         /\ undone' = IF TakesBack(x) THEN undone \cup {m} ELSE undone
         /\ \A S : Comes(S) <=> x \in S \/ Comes(S)'
         /\ \A S, T : T \subseteq S /\ Last(S, T) /\ Comes(S)' => Last(S, T)'
         /\ \A S, T : T \subseteq S /\ Last(S, T) /\ Comes(S) /\ ~Comes(S)' => x \in T
  <1>1. x \in RowJob /\ x.match = m /\ x \notin TallyJob
    BY JobOps DEF JobOf, RowJob
  <1>2. /\ queue # <<>> /\ queue' = Tail(queue) /\ deferred' = deferred
        /\ mem' = mem /\ live' = live /\ inserting' = inserting /\ rating' = rating
    BY WriteStep DEF Types
  <1>3. /\ \A S : Comes(S) <=> x \in S \/ Comes(S)'
        /\ \A S, T : T \subseteq S /\ Last(S, T) /\ Comes(S)' => Last(S, T)'
        /\ \A S, T : T \subseteq S /\ Last(S, T) /\ Comes(S) /\ ~Comes(S)' => x \in T
    BY <1>2, JobWritten DEF Types
  <1>4. Comes(JobOf(m)) /\ RowRule(m) /\ SystemRule(m)
    BY <1>3 DEF RowInv
  <1>5. m \in live /\ m # inserting /\ db[m] \in Row
    BY <1>4 DEF RowRule, Types, RowTypes
  <1>6. /\ db' = [db EXCEPT ![m] = Written(x)]
        /\ lost' = IF GoesWrong(x) THEN lost \cup {m} ELSE lost
        /\ undone' = IF TakesBack(x) THEN undone \cup {m} ELSE undone
    BY <1>1, WriteRow DEF Types
  <1>7. db'[m] = Written(x)
    BY <1>6 DEF Types, RowTypes
  <1>8. (m \in lost => m \in lost') /\ (GoesWrong(x) => m \in lost')
    BY <1>6
  <1> QED BY <1>1, <1>2, <1>3, <1>4, <1>5, <1>6, <1>7, <1>8

\* Memory's row, while the writer works.
LEMMA OwedInMemory ==
  ASSUME NEW m \in Match, RowInv(m), mem' = mem, m \in live, NEW r \in Row, mem'[m] = r
  PROVE  mem[m] = r /\ LiveRow(r) /\ Told(m, r) /\ (m \notin lost => Judged(m, r))
  BY DEF RowInv, Owed

LEMMA WritesEnd ==
  ASSUME NEW m \in Match, Types, RowInv(m), WriteNext, NEW x \in AbortOf(m), x = Head(queue),
         NEW e \in Row, db'[m] = e,
         ~GoesWrong(x) => e.result = Aborted,
         e.change = db[m].change, e.result \in {Aborted, db[m].result},
         Reported(e) => e.result # None
  PROVE  RowInv(m)'
  <1>1. x \in JobOf(m)
    BY KindsOfJobs
  <1>2. /\ m \in live /\ m # inserting /\ db[m] \in Row /\ RowRule(m) /\ SystemRule(m)
        /\ mem' = mem /\ live' = live /\ inserting' = inserting /\ rating' = rating
        /\ m \in lost => m \in lost'
        /\ GoesWrong(x) => m \in lost'
        /\ \A S : Comes(S) <=> x \in S \/ Comes(S)'
    BY <1>1, WritesOf
  <1>3. RowRule(m)'
    BY <1>2, ValuesAreFinal DEF RowRule
  <1>4. SystemRule(m)'
    BY <1>2, ValuesAreFinal DEF SystemRule
  <1>5. ASSUME NEW r \in Row, mem'[m] = r PROVE Owed(m, r)'
    <2>1. LiveRow(r) /\ Told(m, r) /\ (m \notin lost => Judged(m, r))
      BY <1>2, <1>5, OwedInMemory
    <2>2. r.result = Aborted
      BY <1>2, <2>1 DEF Told
    <2>3. x \notin ChangeOf(m)
      BY JobOps DEF ChangeOf, AbortOf
    <2>4. Told(m, r)'
      BY <1>2, <2>1, <2>2, <2>3, ValuesAreFinal DEF Told
    <2>5. m \notin lost' => Judged(m, r)'
      BY <1>2, <2>2 DEF Judged
    <2> QED BY <1>2, <2>1, <2>4, <2>5 DEF Owed
  <1> QED BY <1>3, <1>4, <1>5 DEF RowInv

LEMMA WritesAbort ==
  ASSUME NEW m \in Match, Types, RowInv(m), WriteNext, NEW x \in AbortOf(m), x = Head(queue),
         x \in AbortJob
  PROVE  RowInv(m)' /\ db'[m] \in Row
  <1>1. x \in JobOf(m) /\ x.match = m /\ x.op = "abort" /\ x.by \in Player
    BY KindsOfJobs, JobOps DEF AbortOf
  <1>2. /\ db[m] \in Row /\ RowRule(m) /\ db'[m] = Written(x)
    BY <1>1, WritesOf
  <1>3. Written(x) = IF MayAbort(m) THEN WithAbort(db[m], x.by) ELSE db[m]
    BY <1>1 DEF Written
  <1>4. PICK d \in Row : d = db[m]
    BY <1>2
  <1>5. Reported(d) => d.result # None
    BY <1>2, <1>4, ValuesAreFinal DEF RowRule
  <1>6. CASE MayAbort(m)
    <2>1. PICK e \in Row : e = WithAbort(d, x.by)
      BY <1>1, RowAborted
    <2>2. e.result = Aborted /\ e.change = d.change /\ db'[m] = e
      BY <1>1, <1>2, <1>3, <1>4, <1>6, <2>1, RowAborted
    <2> QED BY <1>4, <2>2, ValuesAreFinal, WritesEnd
  <1>7. CASE ~MayAbort(m)
    <2>1. GoesWrong(x)
      BY <1>1, <1>7 DEF GoesWrong
    <2>2. db'[m] = d
      BY <1>2, <1>3, <1>4, <1>7
    <2> QED BY <1>4, <1>5, <2>1, <2>2, WritesEnd
  <1> QED BY <1>6, <1>7

LEMMA WritesSystemAbort ==
  ASSUME NEW m \in Match, Types, RowInv(m), WriteNext, NEW x \in AbortOf(m), x = Head(queue),
         x \in SystemJob
  PROVE  RowInv(m)' /\ db'[m] \in Row
  <1>1. x \in JobOf(m) /\ x.match = m /\ x.op = "system" /\ x.report \in [Player -> {None, Unconfirmed}]
    BY KindsOfJobs, JobOps DEF AbortOf
  <1>2. /\ db[m] \in Row /\ db'[m] = Written(x)
    BY <1>1, WritesOf
  <1>3. x.report \in [Player -> Mark]
    BY <1>1 DEF Mark
  <1>4. PICK e \in Row : e = Ended(db[m], x.report)
    BY <1>2, <1>3, RowEnded
  <1>5. e.result = Aborted /\ e.change = db[m].change
    BY <1>2, <1>3, <1>4, RowEnded
  <1>6. Written(x) = e
    BY <1>1, <1>4 DEF Written, WithSystemAbort
  <1> QED BY <1>2, <1>5, <1>6, ValuesAreFinal, WritesEnd

LEMMA WritesResult ==
  ASSUME NEW m \in Match, Types, RowInv(m), WriteNext, NEW x \in ResultFor(m), x = Head(queue)
  PROVE  RowInv(m)' /\ db'[m] \in Row
  <1>1. x \in JobOf(m) /\ x.match = m /\ x.op = "result" /\ x.value \in Value
    BY KindsOfJobs, JobOps DEF ResultFor
  <1>2. x = [op |-> "result", match |-> m, value |-> x.value]
    BY DEF ResultFor, ResultJob
  <1>3. /\ x \in Verdict(m) /\ x \in ThatResult(m, x.value)
        /\ x \notin AbortOf(m) /\ x \notin SystemOf(m) /\ x \notin ChangeOf(m)
        /\ \A q : x \notin ReportBy(m, q)
    BY <1>1, <1>2, ResultKinds
  <1>4. /\ m \in live /\ m # inserting /\ db[m] \in Row /\ RowRule(m) /\ SystemRule(m)
        /\ db'[m] = Written(x)
        /\ mem' = mem /\ live' = live /\ inserting' = inserting /\ rating' = rating
        /\ m \in lost => m \in lost'
        /\ \A S : Comes(S) <=> x \in S \/ Comes(S)'
        /\ \A S, T : T \subseteq S /\ Last(S, T) /\ Comes(S)' => Last(S, T)'
    BY <1>1, WritesOf
  <1>5. PICK d \in Row : d = db[m]
    BY <1>4
  <1>6. PICK e : e = [d EXCEPT !.result = x.value]
    OBVIOUS
  <1>7. x.value \in Verdicts
    BY <1>1, ValuesAreFinal DEF Verdicts
  <1>8. e \in Row /\ e.report = d.report /\ e.result = x.value /\ e.change = d.change
    BY <1>6, <1>7, RowDecided
  <1>9. db'[m] = e
    BY <1>1, <1>4, <1>5, <1>6 DEF Written
  <1>10. e.result # None /\ e # None
    BY <1>1, <1>8, ValuesAreFinal
  <1>11. RowRule(m)'
    BY <1>4, <1>9, <1>10 DEF RowRule
  <1>12. ~Comes(SystemOf(m))
    BY <1>3, <1>4 DEF SystemRule
  <1>13. SystemRule(m)'
    BY <1>4, <1>12 DEF SystemRule
  <1>14. ASSUME NEW r \in Row, mem'[m] = r PROVE Owed(m, r)'
    <2>1. LiveRow(r) /\ Told(m, r)
      BY <1>4, <1>14, OwedInMemory
    <2>2. r.result = x.value
      BY <1>1, <1>3, <1>4, <2>1 DEF Told
    <2>3. r.result # None /\ r.result # Aborted
      BY <1>1, <2>2, ValuesAreFinal
    <2>4. Told(m, r)'
      <3>1. ~Comes(AbortOf(m))'
        BY <1>4, <2>1, <2>3 DEF Told
      <3>2. ASSUME NEW q \in Player, Comes(ReportBy(m, q))'
            PROVE  r.report[q] # None /\ Last(ReportBy(m, q), ThatReport(m, q, r.report[q]))'
        <4>1. Comes(ReportBy(m, q))
          BY <1>4, <3>2
        <4>2. r.report[q] # None /\ Last(ReportBy(m, q), ThatReport(m, q, r.report[q]))
          BY <2>1, <2>3, <4>1 DEF Told
        <4>3. ThatReport(m, q, r.report[q]) \subseteq ReportBy(m, q)
          BY KindsOfJobs
        <4> QED BY <1>4, <3>2, <4>2, <4>3
      <3>3. ASSUME NEW q \in Player, ~Comes(ReportBy(m, q))' PROVE db'[m].report[q] = r.report[q]
        BY <1>3, <1>4, <1>5, <1>8, <1>9, <2>1, <2>3, <3>3 DEF Told
      <3>4. \A w \in Value : Comes(ThatResult(m, w))' => w = r.result
        BY <1>4, <2>1 DEF Told
      <3>5. /\ Comes(ChangeOf(m))' => r.change
            /\ ~Comes(ChangeOf(m))' => db'[m].change = r.change
        BY <1>3, <1>4, <1>5, <1>8, <1>9, <2>1 DEF Told
      <3> QED BY <2>3, <3>1, <3>2, <3>3, <3>4, <3>5 DEF Told
    <2>5. Judged(m, r)'
      BY <1>8, <1>9, <2>2, <2>3 DEF Judged, ResultOf
    <2> QED BY <1>4, <2>1, <2>4, <2>5 DEF Owed
  <1> QED BY <1>8, <1>9, <1>11, <1>13, <1>14 DEF RowInv

LEMMA WritesChange ==
  ASSUME NEW m \in Match, Types, RowInv(m), WriteNext, NEW x \in ChangeOf(m), x = Head(queue)
  PROVE  RowInv(m)' /\ db'[m] \in Row
  <1>1. x \in JobOf(m) /\ x.match = m /\ x.op = "change"
    BY KindsOfJobs, JobOps DEF ChangeOf
  <1>2. x = [op |-> "change", match |-> m]
    BY DEF ChangeOf, ChangeJob
  <1>3. /\ x \notin AbortOf(m) /\ x \notin SystemOf(m) /\ x \notin Verdict(m)
        /\ \A w : x \notin ThatResult(m, w)
        /\ \A q : x \notin ReportBy(m, q)
    BY <1>2, ChangeKinds
  <1>4. /\ m \in live /\ m # inserting /\ db[m] \in Row /\ RowRule(m) /\ SystemRule(m)
        /\ db'[m] = Written(x)
        /\ mem' = mem /\ live' = live /\ inserting' = inserting /\ rating' = rating
        /\ m \in lost => m \in lost'
        /\ \A S : Comes(S) <=> x \in S \/ Comes(S)'
        /\ \A S, T : T \subseteq S /\ Last(S, T) /\ Comes(S)' => Last(S, T)'
    BY <1>1, WritesOf
  <1>5. PICK d \in Row : d = db[m]
    BY <1>4
  <1>6. PICK e : e = [d EXCEPT !.change = TRUE]
    OBVIOUS
  <1>8. e \in Row /\ e.report = d.report /\ e.result = d.result /\ e.change = TRUE
    BY <1>6, RowChanged
  <1>9. db'[m] = e
    BY <1>1, <1>4, <1>5, <1>6 DEF Written
  <1>10. e # None /\ d # None
    BY <1>8, ValuesAreFinal
  <1>11. RowRule(m)'
    BY <1>4, <1>5, <1>8, <1>9, <1>10 DEF RowRule, Reported
  <1>13. SystemRule(m)'
    BY <1>3, <1>4, <1>5, <1>8, <1>9 DEF SystemRule
  <1>14. ASSUME NEW r \in Row, mem'[m] = r PROVE Owed(m, r)'
    <2>1. LiveRow(r) /\ Told(m, r) /\ (m \notin lost => Judged(m, r))
      BY <1>4, <1>14, OwedInMemory
    <2>2. r.change = TRUE
      BY <1>4, <1>14, <2>1, RowFields DEF Told
    <2>4. Told(m, r)'
      <3>2. ASSUME NEW q \in Player, r.result # Aborted, Comes(ReportBy(m, q))'
            PROVE  r.report[q] # None /\ Last(ReportBy(m, q), ThatReport(m, q, r.report[q]))'
        <4>1. Comes(ReportBy(m, q))
          BY <1>4, <3>2
        <4>2. r.report[q] # None /\ Last(ReportBy(m, q), ThatReport(m, q, r.report[q]))
          BY <2>1, <3>2, <4>1 DEF Told
        <4>3. ThatReport(m, q, r.report[q]) \subseteq ReportBy(m, q)
          BY KindsOfJobs
        <4> QED BY <1>4, <3>2, <4>2, <4>3
      <3>3. ASSUME NEW q \in Player, r.result # Aborted, ~Comes(ReportBy(m, q))'
            PROVE db'[m].report[q] = r.report[q]
        BY <1>3, <1>4, <1>5, <1>8, <1>9, <2>1, <3>3 DEF Told
      <3>4. \A w \in Value : Comes(ThatResult(m, w))' => w = r.result
        BY <1>4, <2>1 DEF Told
      <3>5. r.result # Aborted => ~Comes(AbortOf(m))'
        BY <1>4, <2>1 DEF Told
      <3>6. r.result = None /\ db'[m].result # None => Reported(r)
        BY <1>5, <1>8, <1>9, <2>1 DEF Told
      <3> QED BY <1>8, <1>9, <2>2, <3>2, <3>3, <3>4, <3>5, <3>6 DEF Told
    <2>5. m \notin lost' => Judged(m, r)'
      BY <1>3, <1>4, <1>5, <1>8, <1>9, <2>1 DEF Judged
    <2> QED BY <1>4, <2>1, <2>4, <2>5 DEF Owed
  <1> QED BY <1>8, <1>9, <1>11, <1>13, <1>14 DEF RowInv

LEMMA WritesReport ==
  ASSUME NEW m \in Match, Types, RowInv(m), WriteNext, NEW x \in ReportJob, x.match = m, x = Head(queue)
  PROVE  RowInv(m)' /\ db'[m] \in Row
  <1>1. x.op = "report" /\ x.by \in Player /\ x.value \in Value
    BY JobOps
  <1> DEFINE v == x.value
             p == x.by
  <1>2. x = [op |-> "report", match |-> m, by |-> p, value |-> v]
    BY DEF ReportJob
  <1>3. /\ x \in JobOf(m) /\ x \in Verdict(m) /\ x \in ThatReport(m, p, v) /\ x \in ReportBy(m, p)
        /\ \A q : q # p => x \notin ReportBy(m, q)
        /\ x \notin AbortOf(m) /\ x \notin SystemOf(m) /\ x \notin ChangeOf(m)
        /\ \A w : x \notin ThatResult(m, w)
    BY <1>1, <1>2, ReportKinds
  <1>4. /\ m \in live /\ m # inserting /\ db[m] \in Row /\ RowRule(m) /\ SystemRule(m)
        /\ db'[m] = Written(x)
        /\ mem' = mem /\ live' = live /\ inserting' = inserting /\ rating' = rating
        /\ m \in lost => m \in lost'
        /\ GoesWrong(x) => m \in lost'
        /\ \A S : Comes(S) <=> x \in S \/ Comes(S)'
        /\ \A S, T : T \subseteq S /\ Last(S, T) /\ Comes(S)' => Last(S, T)'
        /\ \A S, T : T \subseteq S /\ Last(S, T) /\ Comes(S) /\ ~Comes(S)' => x \in T
    BY <1>3, WritesOf
  <1>5. PICK d \in Row : d = db[m]
    BY <1>4
  <1>6. PICK t \in Row : t = Noted(d, p, v)
    BY <1>1, RowNoted
  <1>7. /\ t.report[p] = v /\ \A q \in Player : q # p => t.report[q] = d.report[q]
        /\ t.result = d.result /\ t.change = d.change
    BY <1>1, <1>6, RowNoted
  <1>8. PICK e \in Row : e = WithReport(d, p, v)
    BY <1>1, RowReported
  <1>9. /\ e.report = t.report /\ e.change = d.change
        /\ e.result = IF ~Reported(t) THEN d.result ELSE IF Agreed(t) THEN v ELSE Conflict
    BY <1>1, <1>6, <1>8, RowReported
  <1>10. db'[m] = e
    BY <1>1, <1>4, <1>5, <1>8 DEF Written
  <1>11. v \in Value /\ p \in Player /\ v # None /\ v # Aborted /\ e # None
    BY <1>1, ValuesAreFinal
  <1>12. Reported(e) <=> Reported(t)
    BY <1>9 DEF Reported
  <1> HIDE DEF v, p
  <1>13. RowRule(m)'
    <2>1. Reported(e) => e.result # None
      BY <1>9, <1>11, <1>12, ValuesAreFinal
    <2> QED BY <1>4, <1>10, <1>11, <2>1 DEF RowRule
  <1>14. ~Comes(SystemOf(m))
    BY <1>3, <1>4 DEF SystemRule
  <1>15. SystemRule(m)'
    BY <1>4, <1>14 DEF SystemRule
  <1>16. ASSUME NEW r \in Row, mem'[m] = r PROVE Owed(m, r)'
    <2>1. LiveRow(r) /\ Told(m, r) /\ (m \notin lost => Judged(m, r))
      BY <1>4, <1>16, OwedInMemory
    <2>2. \A w \in Value : Comes(ThatResult(m, w))' => w = r.result
      BY <1>4, <2>1 DEF Told
    <2>3. /\ Comes(ChangeOf(m))' => r.change
          /\ ~Comes(ChangeOf(m))' => db'[m].change = r.change
      BY <1>3, <1>4, <1>5, <1>9, <1>10, <2>1 DEF Told
    <2>4. CASE r.result = Aborted
      <3>1. Told(m, r)'
        BY <2>2, <2>3, <2>4, ValuesAreFinal DEF Told
      <3>2. m \notin lost' => Judged(m, r)'
        <4>1. SUFFICES ASSUME m \notin lost', ~Comes(AbortOf(m))' PROVE FALSE
          BY <2>4 DEF Judged
        <4>2. ~Comes(AbortOf(m)) /\ m \notin lost
          BY <1>3, <1>4, <4>1
        <4>3. d.result = Aborted
          BY <1>5, <2>1, <2>4, <4>2 DEF Judged
        <4>4. GoesWrong(x)
          BY <1>1, <1>5, <4>3, ValuesAreFinal DEF GoesWrong
        <4> QED BY <1>4, <4>1, <4>4
      <3> QED BY <1>4, <2>1, <3>1, <3>2 DEF Owed
    <2>5. CASE r.result # Aborted
      <3>1. ~Comes(AbortOf(m))'
        BY <1>4, <2>1, <2>5 DEF Told
      <3>2. ASSUME NEW q \in Player, Comes(ReportBy(m, q))'
            PROVE  r.report[q] # None /\ Last(ReportBy(m, q), ThatReport(m, q, r.report[q]))'
        <4>1. Comes(ReportBy(m, q))
          BY <1>4, <3>2
        <4>2. r.report[q] # None /\ Last(ReportBy(m, q), ThatReport(m, q, r.report[q]))
          BY <2>1, <2>5, <4>1 DEF Told
        <4>3. ThatReport(m, q, r.report[q]) \subseteq ReportBy(m, q)
          BY KindsOfJobs
        <4> QED BY <1>4, <3>2, <4>2, <4>3
      <3>3. r.report[p] # None
        <4>1. Comes(ReportBy(m, p))
          BY <1>3, <1>4
        <4> QED BY <1>11, <2>1, <2>5, <4>1 DEF Told
      <3>4. ASSUME NEW q \in Player, ~Comes(ReportBy(m, q))' PROVE e.report[q] = r.report[q]
        <4>1. CASE q = p
          <5>1. Comes(ReportBy(m, p))
            BY <1>3, <1>4
          <5>2. Last(ReportBy(m, p), ThatReport(m, p, r.report[p]))
            BY <1>11, <2>1, <2>5, <5>1 DEF Told
          <5>3. ThatReport(m, p, r.report[p]) \subseteq ReportBy(m, p)
            BY KindsOfJobs
          <5>4. x \in ThatReport(m, p, r.report[p])
            BY <1>4, <3>4, <4>1, <5>1, <5>2, <5>3
          <5>5. r.report[p] = v
            BY <5>4 DEF ThatReport, v
          <5> QED BY <1>7, <1>9, <4>1, <5>5
        <4>2. CASE q # p
          <5>1. ~Comes(ReportBy(m, q))
            BY <1>3, <1>4, <3>4, <4>2
          <5>2. d.report[q] = r.report[q]
            BY <1>5, <2>1, <2>5, <5>1 DEF Told
          <5> QED BY <1>7, <1>9, <4>2, <5>2
        <4> QED BY <4>1, <4>2
      <3>5. r.result = None /\ e.result # None => Reported(r)
        <4>1. SUFFICES ASSUME r.result = None, e.result # None PROVE Reported(r)
          OBVIOUS
        <4>2. CASE d.result # None
          BY <1>5, <2>1, <4>1, <4>2 DEF Told
        <4>3. CASE d.result = None
          <5>1. Reported(t)
            BY <1>9, <4>1, <4>3
          <5>2. ASSUME NEW q \in Player PROVE r.report[q] # None
            <6>1. CASE q = p
              BY <3>3, <6>1
            <6>2. CASE q # p
              <7>1. d.report[q] # None
                BY <1>7, <5>1, <6>2 DEF Reported
              <7> QED BY <1>5, <2>1, <2>5, <7>1 DEF Told
            <6> QED BY <6>1, <6>2
          <5> QED BY <5>2 DEF Reported
        <4> QED BY <4>2, <4>3
      <3>6. Told(m, r)'
        BY <1>10, <2>2, <2>3, <3>1, <3>2, <3>4, <3>5 DEF Told
      <3>7. m \notin lost' => Judged(m, r)'
        <4>1. SUFFICES ASSUME m \notin lost', ~Comes(Verdict(m))' PROVE e.result = ResultOf(r)
          BY <1>10, <2>5 DEF Judged
        <4>2. ASSUME NEW q \in Player PROVE ~Comes(ReportBy(m, q))'
          <5>1. ReportBy(m, q) \subseteq Verdict(m)
            BY KindsOfJobs
          <5>2. ~HasIn(queue', Verdict(m)) /\ ~HasIn(deferred', Verdict(m))
            BY <4>1 DEF Comes
          <5>3. ~HasIn(queue', ReportBy(m, q)) /\ ~HasIn(deferred', ReportBy(m, q))
            BY <5>1, <5>2, HasSubset
          <5> QED BY <5>3 DEF Comes
        <4>3. \A q \in Player : t.report[q] = r.report[q]
          BY <1>9, <3>4, <4>2
        <4>4. (Reported(t) <=> Reported(r)) /\ (Agreed(t) <=> Agreed(r))
          BY <4>3, ValuesAreFinal DEF Reported, Agreed
        <4>5. r.result \in Value \cup {None}
          BY <2>1, <2>5 DEF LiveRow
        <4>6. CASE ~Reported(t)
          <5>1. r.result = None
            <6>1. r.result \notin Value
              BY <2>1, <4>4, <4>6, ValuesAreFinal DEF LiveRow, Reported
            <6> QED BY <4>5, <6>1
          <5>2. ~Reported(d)
            <6>1. PICK q \in Player : t.report[q] = None
              BY <4>6 DEF Reported
            <6>2. q # p
              BY <1>7, <1>11, <6>1
            <6> QED BY <1>7, <6>1, <6>2 DEF Reported
          <5>3. d.result = None
            BY <1>1, <1>4, <1>5, <4>1, <5>2 DEF GoesWrong
          <5> QED BY <1>9, <4>4, <4>6, <5>1, <5>3 DEF ResultOf
        <4>7. CASE Reported(t)
          <5>1. r.report[p] = v
            BY <1>7, <1>11, <4>3
          <5>2. CASE r.result = None
            <6>1. Agreed(r) => r.report[1] = v
              BY <1>11, <5>1, ValuesAreFinal DEF Agreed
            <6> QED BY <1>9, <4>4, <4>7, <5>2, <6>1 DEF ResultOf
          <5>3. CASE r.result \in Value
            <6>1. \A q \in Player : r.report[q] = r.result
              BY <2>1, <5>3 DEF LiveRow
            <6>2. Agreed(r) /\ v = r.result
              BY <1>11, <5>1, <6>1, ValuesAreFinal DEF Agreed
            <6> QED BY <1>9, <4>4, <4>7, <5>3, <6>2, ValuesAreFinal DEF ResultOf
          <5> QED BY <4>5, <5>2, <5>3
        <4> QED BY <4>6, <4>7
      <3> QED BY <1>4, <2>1, <3>6, <3>7 DEF Owed
    <2> QED BY <2>4, <2>5
  <1> QED BY <1>10, <1>13, <1>15, <1>16 DEF RowInv

LEMMA WrittenRow ==
  ASSUME NEW m \in Match, Types, RowInv(m), WriteNext, Head(queue) \in JobOf(m)
  PROVE  RowInv(m)' /\ db'[m] \in Row
  <1>1. PICK x : x = Head(queue)
    OBVIOUS
  <1>2. x \in RowJob /\ x.match = m
    BY <1>1 DEF JobOf
  <1>3. CASE x \in ReportJob
    BY <1>1, <1>2, <1>3, WritesReport
  <1>4. CASE x \in AbortJob
    BY <1>1, <1>2, <1>4, WritesAbort DEF AbortOf
  <1>5. CASE x \in SystemJob
    BY <1>1, <1>2, <1>5, WritesSystemAbort DEF AbortOf
  <1>6. CASE x \in ResultJob
    BY <1>1, <1>2, <1>6, WritesResult DEF ResultFor
  <1>7. CASE x \in ChangeJob
    BY <1>1, <1>2, <1>7, WritesChange DEF ChangeOf
  <1> QED BY <1>2, <1>3, <1>4, <1>5, <1>6, <1>7 DEF RowJob

-----------------------------------------------------------------------------
(* The rows: every step *)

Rows == Types /\ \A m \in Match : RowInv(m)

\* While a match is being inserted nothing of another goes on; otherwise one
\* match at most is going on.
Single ==
  /\ inserting # None => \A k \in live : HasEnded(k)
  /\ \A m, k \in live : ~HasEnded(m) /\ ~HasEnded(k) => m = k

LEMMA InsertRows ==
  ASSUME Rows, NEW m \in Match, InsertMatch(m)
  PROVE  Rows'
  <1>1. /\ db' = [db EXCEPT ![m] = NewRow] /\ inserting' = m /\ live' = live \cup {m}
        /\ mem' = mem /\ rating' = rating /\ lost' = lost /\ UNCHANGED <<gameVars, jobVars>>
    BY DEF InsertMatch, historyVars
  <1>2. Types'
    BY <1>1, NewRowFields DEF Rows, Types, RowTypes, TallyTypes, HandlerTypes, SeqTypes, gameVars, jobVars
  <1>3. ASSUME NEW k \in Match PROVE RowInv(k)'
    <2>1. CASE k = m
      BY <2>1, InsertedRow DEF Rows
    <2>2. CASE k # m
      <3>1. JobsStay(k)
        BY <1>1, StayUnchanged
      <3>2. db'[k] = db[k]
        BY <1>1, <2>2 DEF Rows, Types, RowTypes
      <3> QED BY <1>1, <2>2, <3>1, <3>2, Untouched DEF Rows
    <2> QED BY <2>1, <2>2
  <1> QED BY <1>2, <1>3 DEF Rows

LEMMA LoadRows ==
  ASSUME Rows, Single, LoadMatch
  PROVE  Rows'
  <1>1. /\ inserting \in Match /\ inserting' = None
        /\ mem' = Newest([mem EXCEPT ![inserting] = db[inserting]])
        /\ db' = db /\ live' = live /\ rating' = rating /\ lost' = lost /\ UNCHANGED <<gameVars, jobVars>>
    BY DEF LoadMatch, historyVars, Rows, Types, HandlerTypes
  <1>2. PICK m \in Match : m = inserting
    BY <1>1
  <1>3. PICK d \in Row : d = db[m] /\ d = NewRow
    BY <1>2, NewRowFields DEF Rows, RowInv, RowRule
  <1> DEFINE rows == [mem EXCEPT ![inserting] = db[inserting]]
  <1>4. /\ rows \in [Match -> Row \cup {None}] /\ rows[m] = d
        /\ \A k \in Match : k # m => rows[k] = mem[k]
    BY <1>2, <1>3 DEF Rows, Types, RowTypes
  <1>5. mem' = Newest(rows)
    BY <1>1
  <1> HIDE DEF rows
  <1>6. \A k \in Match : mem'[k] \in {rows[k], None}
    BY <1>5 DEF Newest
  <1>7. mem' \in [Match -> Row \cup {None}]
    <2>1. mem' = [k \in Match |-> mem'[k]]
      BY <1>5 DEF Newest
    <2>2. \A k \in Match : mem'[k] \in Row \cup {None}
      BY <1>4, <1>6
    <2> QED BY <2>1, <2>2
  <1>8. Types'
    BY <1>1, <1>7 DEF Rows, Types, RowTypes, TallyTypes, HandlerTypes, SeqTypes, gameVars, jobVars
  <1>9. \A k : JobsStay(k)
    BY <1>1, StayUnchanged
  <1>10. RowRule(m) /\ m \in live /\ ~Comes(JobOf(m)) /\ rating[m] = None /\ mem[m] = None
    BY <1>2 DEF Rows, RowInv, RowRule
  <1>11. \A k \in live : rating[k] = None
    BY <1>1, ValuesAreFinal DEF Single, HasEnded
  <1>12. ASSUME NEW k \in Match, k # m PROVE RowInv(k)'
    <2>1. rating[k] = None
      BY <1>11 DEF Rows, RowInv, RowRule
    <2>2. mem'[k] = mem[k] \/ (mem'[k] = None /\ rating[k] = None)
      BY <1>4, <1>6, <1>12, <2>1
    <2>3. k # inserting'
      BY <1>1, ValuesAreFinal
    <2> QED BY <1>1, <1>9, <1>12, <2>2, <2>3, Untouched DEF Rows
  <1>13. RowInv(m)'
    <2>1. ~Comes(JobOf(m))'
      BY <1>9, <1>10, StayOf
    <2>2. RowRule(m)'
      BY <1>1, <1>2, <1>3, <1>10, <2>1, ValuesAreFinal DEF RowRule
    <2>3. SystemRule(m)'
      <3>1. ~Comes(SystemOf(m))'
        BY <1>9, <1>10, NoJobs, StayOf
      <3> QED BY <3>1 DEF SystemRule
    <2>4. ASSUME NEW r \in Row, mem'[m] = r PROVE Owed(m, r)'
      <3>1. r = d
        BY <1>4, <1>6, <2>4, ValuesAreFinal
      <3>2. LiveRow(d)
        BY <1>3, NewRowFields, ValuesAreFinal DEF LiveRow
      <3>3. ~Reported(d)
        BY <1>3, NewRowFields, ValuesAreFinal DEF Reported
      <3>4. Told(m, d) /\ Judged(m, d)
        BY <1>3, <1>10, <3>3, SharedRow
      <3>5. Told(m, d)'
        <4>1. /\ ~Comes(AbortOf(m)) /\ ~Comes(ChangeOf(m))
              /\ \A v : ~Comes(ThatResult(m, v))
              /\ \A p : ~Comes(ReportBy(m, p))
          BY <1>10, NoJobs
        <4>2. /\ ~Comes(AbortOf(m))' /\ ~Comes(ChangeOf(m))'
              /\ \A v : ~Comes(ThatResult(m, v))'
              /\ \A p : ~Comes(ReportBy(m, p))'
          BY <1>9, <4>1, StayOf
        <4> QED BY <1>1, <3>4, <4>1, <4>2 DEF Told
      <3>6. Judged(m, d)'
        BY <1>1, <1>9, <3>4, StayOf DEF Judged
      <3> QED BY <3>1, <3>2, <3>5, <3>6 DEF Owed
    <2> QED BY <2>2, <2>3, <2>4 DEF RowInv
  <1> QED BY <1>8, <1>12, <1>13 DEF Rows

LEMMA ReportRows ==
  ASSUME Rows, NEW m \in Match, NEW p \in Player, NEW v \in Value, Report(m, p, v)
  PROVE  Rows'
  <1> DEFINE x == [op |-> "report", match |-> m, by |-> p, value |-> v]
  <1>1. /\ IsOpen(m) /\ mem' = [mem EXCEPT ![m] = Noted(@, p, v)]
        /\ deferred' = Append(deferred, x) /\ queue' = queue
        /\ db' = db /\ live' = live /\ inserting' = inserting /\ rating' = rating /\ lost' = lost
        /\ UNCHANGED gameVars
    BY DEF Report, historyVars
  <1>2. x \in ReportJob /\ x \in JobOf(m)
    BY ReportKinds
  <1>3. mem[m] \in Row
    BY <1>1, OpenRow DEF Rows
  <1>4. PICK n \in Row : n = Noted(mem[m], p, v)
    BY <1>3, RowNoted
  <1>5. mem' = [mem EXCEPT ![m] = n]
    BY <1>1, <1>4 DEF Rows, Types, RowTypes
  <1> HIDE DEF x
  <1>6. SeqTypes'
    BY <1>1, <1>2, JobDeferred DEF Rows, Types
  <1>7. Types'
    BY <1>1, <1>5, <1>6 DEF Rows, Types, RowTypes, TallyTypes, HandlerTypes, gameVars
  <1>8. ASSUME NEW k \in Match, k # m PROVE RowInv(k)'
    <2>1. JobsStay(k)
      BY <1>1, <1>2, <1>8, JobsElsewhere, StayDeferred DEF Rows, Types
    <2>2. mem'[k] = mem[k]
      BY <1>5, <1>8 DEF Rows, Types, RowTypes
    <2> QED BY <1>1, <2>1, <2>2, Untouched DEF Rows
  <1> QED BY <1>7, <1>8, ReportedRow DEF Rows

LEMMA EndRows ==
  ASSUME Rows, NEW m \in Match, IsOpen(m), NEW f \in [Player -> Mark], NEW x \in Job, x \in JobOf(m),
         mem' = [mem EXCEPT ![m] = Ended(@, f)],
         queue' = Append(queue, x), deferred' = deferred,
         db' = db, live' = live, inserting' = inserting, rating' = rating, lost' = lost,
         UNCHANGED gameVars, RowInv(m)'
  PROVE  Rows'
  <1>1. mem[m] \in Row
    BY OpenRow DEF Rows
  <1>2. PICK n \in Row : n = Ended(mem[m], f)
    BY <1>1, RowEnded
  <1>3. mem' = [mem EXCEPT ![m] = n]
    BY <1>2 DEF Rows, Types, RowTypes
  <1>4. SeqTypes'
    BY JobQueued DEF Rows, Types
  <1>5. Types'
    BY <1>3, <1>4 DEF Rows, Types, RowTypes, TallyTypes, HandlerTypes, gameVars
  <1>6. ASSUME NEW k \in Match, k # m PROVE RowInv(k)'
    <2>1. JobsStay(k)
      BY <1>6, JobsElsewhere, StayQueued DEF Rows, Types
    <2>2. mem'[k] = mem[k]
      BY <1>3, <1>6 DEF Rows, Types, RowTypes
    <2> QED BY <2>1, <2>2, Untouched DEF Rows
  <1> QED BY <1>5, <1>6 DEF Rows

LEMMA AbortRows ==
  ASSUME Rows, NEW m \in Match, NEW p \in Player, Abort(m, p)
  PROVE  Rows'
  <1> DEFINE x == [op |-> "abort", match |-> m, by |-> p]
             f == [q \in Player |-> IF q = p THEN Aborter ELSE Aborted]
  <1>1. f \in [Player -> Mark]
    BY DEF Mark
  <1>2. /\ IsOpen(m) /\ mem' = [mem EXCEPT ![m] = Ended(@, f)]
        /\ queue' = Append(queue, x) /\ deferred' = deferred
        /\ db' = db /\ live' = live /\ inserting' = inserting /\ rating' = rating /\ lost' = lost
        /\ UNCHANGED gameVars
    BY DEF Abort, historyVars
  <1>3. x \in Job /\ x \in JobOf(m)
    BY AbortKinds
  <1>4. RowInv(m)'
    BY AbortedRow DEF Rows
  <1> HIDE DEF x, f
  <1> QED BY <1>1, <1>2, <1>3, <1>4, EndRows

LEMMA SystemAbortRows ==
  ASSUME Rows, NEW m \in Match, NEW absent \in SUBSET Player, SystemAbort(m, absent)
  PROVE  Rows'
  <1> DEFINE f == [p \in Player |-> IF p \in absent THEN Unconfirmed ELSE None]
             x == [op |-> "system", match |-> m, report |-> f]
  <1>1. f \in [Player -> Mark] /\ f \in [Player -> {None, Unconfirmed}]
    BY DEF Mark
  <1>2. /\ IsOpen(m) /\ mem' = [mem EXCEPT ![m] = Ended(@, f)]
        /\ queue' = Append(queue, x) /\ deferred' = deferred
        /\ db' = db /\ live' = live /\ inserting' = inserting /\ rating' = rating /\ lost' = lost
        /\ UNCHANGED gameVars
    BY DEF SystemAbort, historyVars
  <1> HIDE DEF f
  <1>3. x \in Job /\ x \in JobOf(m)
    BY <1>1, SystemKinds
  <1>4. RowInv(m)'
    BY SystemAbortedRow DEF Rows
  <1> HIDE DEF x
  <1> QED BY <1>1, <1>2, <1>3, <1>4, EndRows

LEMMA RateFirstRows ==
  ASSUME Rows, NEW m \in Match, RateFirst(m)
  PROVE  Rows'
  <1>0. Types /\ RowInv(m)
    BY DEF Rows
  <1>1. PICK o \in Row : o = mem[m]
    BY <1>0, OpenRow DEF RateFirst, IsDue
  <1>2. PICK v \in Value : v = o.report[1]
    BY <1>0, <1>1, RateFirstStep
  <1>3. PICK x : x = [op |-> "result", match |-> m, value |-> v]
    OBVIOUS
  <1>4. PICK y \in TallyJob : queue' = queue \o <<x, y>>
    BY <1>0, <1>1, <1>2, <1>3, RateFirstStep
  <1>5. PICK n : n = [o EXCEPT !.result = v]
    OBVIOUS
  <1>6. n \in Row
    BY <1>5, RowDecided, ValuesAreFinal DEF Verdicts
  <1>7. deferred' = deferred /\ mem' = [mem EXCEPT ![m] = n]
    BY <1>0, <1>1, <1>2, <1>5, RateFirstStep
  <1>8. PICK d \in Rated : rating' = [rating EXCEPT ![m] = d]
    BY <1>0, <1>1, <1>2, RateFirstStep
  <1>9. PICK g \in Tally : games' = [games EXCEPT ![1] = g]
    BY <1>0, <1>1, <1>2, RateFirstStep
  <1>10. /\ db' = db /\ live' = live /\ inserting' = inserting /\ lost' = lost /\ dbGames' = dbGames
    BY DEF RateFirst, historyVars
  <1>11. x \in Job /\ y \in Job /\ x \in JobOf(m) /\ \A k : y \notin JobOf(k)
    BY <1>3, ResultKinds, TallyKinds
  <1>12. SeqTypes'
    BY <1>0, <1>4, <1>7, <1>11, JobsQueued DEF Types
  <1>13. Types'
    <2>1. RowTypes'
      BY <1>0, <1>6, <1>7, <1>10 DEF Types, RowTypes
    <2>2. TallyTypes'
      BY <1>0, <1>9, <1>10 DEF Types, TallyTypes
    <2>3. HandlerTypes'
      BY <1>0, <1>8, <1>10 DEF Types, HandlerTypes
    <2> QED BY <1>12, <2>1, <2>2, <2>3 DEF Types
  <1>14. ASSUME NEW k \in Match, k # m PROVE RowInv(k)'
    <2>1. x \notin JobOf(k)
      BY <1>11, <1>14, JobsElsewhere
    <2>2. JobsStay(k)
      BY <1>0, <1>4, <1>7, <1>11, <2>1, StayQueuedTwo DEF Types
    <2>3. mem'[k] = mem[k] /\ rating'[k] = rating[k]
      BY <1>0, <1>7, <1>8, <1>14 DEF Types, RowTypes, HandlerTypes
    <2> QED BY <1>10, <2>2, <2>3, Untouched DEF Rows
  <1> QED BY <1>13, <1>14, RatedRow DEF Rows

LEMMA RateSecondRows ==
  ASSUME Rows, NEW m \in Match, RateSecond(m)
  PROVE  Rows'
  <1>0. Types /\ RowInv(m)
    BY DEF Rows
  <1>1. PICK d \in Rated : d = rating[m]
    BY <1>0 DEF RateSecond, Types, HandlerTypes
  <1>2. PICK e : e = [d EXCEPT !.rated = Player]
    OBVIOUS
  <1>3. e \in Rated /\ d.second \in Tally
    BY <1>2 DEF Rated
  <1>4. /\ rating' = [rating EXCEPT ![m] = e] /\ games' = [games EXCEPT ![2] = d.second]
        /\ queue' = Append(queue, GamesJob(2, d.second))
        /\ deferred' = deferred /\ mem' = mem /\ db' = db /\ live' = live /\ inserting' = inserting
        /\ lost' = lost /\ dbGames' = dbGames
    BY <1>0, <1>1, <1>2 DEF RateSecond, rowVars, historyVars, Types, HandlerTypes
  <1>5. /\ GamesJob(2, d.second) \in TallyJob /\ GamesJob(2, d.second) \in Job
    BY <1>3, TallyJobs, ValuesAreFinal
  <1>6. \A k : GamesJob(2, d.second) \notin JobOf(k)
    BY <1>5, TallyKinds
  <1>7. SeqTypes'
    BY <1>0, <1>4, <1>5, JobQueued DEF Types
  <1>8. Types'
    BY <1>0, <1>3, <1>4, <1>7 DEF Types, RowTypes, TallyTypes, HandlerTypes
  <1>9. ASSUME NEW k \in Match PROVE RowInv(k)'
    <2>1. JobsStay(k)
      BY <1>0, <1>4, <1>5, <1>6, StayQueued DEF Types
    <2>2. (rating'[k] = None) <=> (rating[k] = None)
      BY <1>0, <1>1, <1>3, <1>4, ValuesAreFinal DEF Types, HandlerTypes
    <2> QED BY <1>4, <2>1, <2>2, Untouched DEF Rows
  <1> QED BY <1>8, <1>9 DEF Rows

LEMMA ChangeRows ==
  ASSUME Rows, NEW m \in Match, RecordChange(m)
  PROVE  Rows'
  <1>0. Types /\ RowInv(m)
    BY DEF Rows
  <1>1. PICK x : x = [op |-> "change", match |-> m]
    OBVIOUS
  <1>2. /\ queue' = Append(queue, x) /\ deferred' = deferred
        /\ db' = db /\ live' = live /\ inserting' = inserting /\ lost' = lost /\ UNCHANGED gameVars
        /\ mem' = IF mem[m] = None THEN mem ELSE [mem EXCEPT ![m].change = TRUE]
        /\ rating' = [rating EXCEPT ![m] = None]
    BY <1>1 DEF RecordChange, historyVars
  <1>3. x \in Job /\ x \in JobOf(m)
    BY <1>1, ChangeKinds
  <1>4. /\ mem' \in [Match -> Row \cup {None}]
        /\ \A k \in Match : k # m => mem'[k] = mem[k]
    <2>1. CASE mem[m] = None
      BY <1>0, <1>2, <2>1 DEF Types, RowTypes
    <2>2. CASE mem[m] # None
      <3>1. PICK o \in Row : o = mem[m]
        BY <1>0, <2>2 DEF Types, RowTypes
      <3>2. PICK n : n = [o EXCEPT !.change = TRUE]
        OBVIOUS
      <3>3. n \in Row
        BY <3>2, RowChanged
      <3>4. mem' = [mem EXCEPT ![m] = n]
        BY <1>0, <1>2, <2>2, <3>1, <3>2 DEF Types, RowTypes
      <3> QED BY <1>0, <3>3, <3>4 DEF Types, RowTypes
    <2> QED BY <2>1, <2>2
  <1>5. SeqTypes'
    BY <1>0, <1>2, <1>3, JobQueued DEF Types
  <1>6. Types'
    BY <1>0, <1>2, <1>4, <1>5 DEF Types, RowTypes, TallyTypes, HandlerTypes, gameVars
  <1>7. ASSUME NEW k \in Match, k # m PROVE RowInv(k)'
    <2>1. JobsStay(k)
      BY <1>0, <1>2, <1>3, <1>7, JobsElsewhere, StayQueued DEF Types
    <2>2. rating'[k] = rating[k]
      BY <1>0, <1>2, <1>7 DEF Types, HandlerTypes
    <2> QED BY <1>2, <1>4, <1>7, <2>1, <2>2, Untouched DEF Rows
  <1> QED BY <1>6, <1>7, ChangedRow DEF Rows

LEMMA QuietRows ==
  ASSUME Rows, SeqTypes', \A k : JobsStay(k), games' \in [Player -> Tally], dbGames' = dbGames,
         mem' = mem, db' = db, live' = live, inserting' = inserting, rating' = rating, lost' = lost
  PROVE  Rows'
  <1>1. Types'
    BY DEF Rows, Types, RowTypes, TallyTypes, HandlerTypes
  <1>2. ASSUME NEW k \in Match PROVE RowInv(k)'
    BY Untouched DEF Rows
  <1> QED BY <1>1, <1>2 DEF Rows

LEMMA OtherRows ==
  ASSUME Rows,
         \/ \E m \in Match : TimePasses(m) \/ EndConflict(m)
         \/ RunDeferred \/ Midnight \/ UNCHANGED vars
  PROVE  Rows'
  <1>1. games \in [Player -> Tally] /\ SeqTypes
    BY DEF Rows, Types, TallyTypes
  <1>2. CASE \E m \in Match : TimePasses(m) \/ EndConflict(m)
    <2>1. /\ mem' = mem /\ db' = db /\ live' = live /\ inserting' = inserting
          /\ rating' = rating /\ lost' = lost /\ UNCHANGED <<gameVars, jobVars>>
      BY <1>2 DEF TimePasses, EndConflict, rowVars, historyVars
    <2>2. SeqTypes' /\ games' = games /\ dbGames' = dbGames
      BY <1>1, <2>1 DEF SeqTypes, jobVars, gameVars
    <2> QED BY <1>1, <2>1, <2>2, StayUnchanged, QuietRows
  <1>3. CASE RunDeferred
    <2>1. /\ mem' = mem /\ db' = db /\ live' = live /\ inserting' = inserting
          /\ rating' = rating /\ lost' = lost /\ UNCHANGED gameVars
      BY <1>3 DEF RunDeferred, rowVars, historyVars
    <2>2. SeqTypes' /\ games' = games /\ dbGames' = dbGames
      BY <1>1, <1>3, <2>1, JobMoves DEF gameVars
    <2>3. \A k : JobsStay(k)
      BY <1>1, <1>3, StayMoved
    <2> QED BY <1>1, <2>1, <2>2, <2>3, QuietRows
  <1>4. CASE Midnight
    <2>1. /\ mem' = mem /\ db' = db /\ live' = live /\ inserting' = inserting
          /\ rating' = rating /\ lost' = lost /\ dbGames' = dbGames
          /\ games' = Recounted(mem, games)
          /\ queue' = queue \o RecountJobs(mem) /\ deferred' = deferred
      BY <1>4 DEF Midnight, rowVars, historyVars
    <2>2. SeqTypes' /\ \A k : JobsStay(k)
      BY <1>1, <2>1, RecountQueued
    <2>3. games' \in [Player -> Tally]
      BY <1>1, <2>1, RecountedTypes
    <2> QED BY <2>1, <2>2, <2>3, QuietRows
  <1>5. CASE UNCHANGED vars
    <2>1. /\ mem' = mem /\ db' = db /\ live' = live /\ inserting' = inserting
          /\ rating' = rating /\ lost' = lost /\ UNCHANGED <<gameVars, jobVars>>
      BY <1>5 DEF vars, rowVars, historyVars
    <2>2. SeqTypes' /\ games' = games /\ dbGames' = dbGames
      BY <1>1, <2>1 DEF SeqTypes, jobVars, gameVars
    <2> QED BY <1>1, <2>1, <2>2, StayUnchanged, QuietRows
  <1> QED BY <1>2, <1>3, <1>4, <1>5

LEMMA WriteRows ==
  ASSUME Rows, WriteNext
  PROVE  Rows'
  <1>0. Types
    BY DEF Rows
  <1>1. PICK x \in Job : x = Head(queue)
    BY <1>0, WriteStep DEF Types
  <1>2. /\ mem' = mem /\ live' = live /\ inserting' = inserting /\ rating' = rating /\ games' = games
    BY <1>0, WriteStep DEF Types
  <1>3. SeqTypes'
    BY <1>0, WriteStep, JobWritten DEF Types
  <1>4. CASE x \in TallyJob
    <2>1. /\ db' = db /\ lost' = lost
          /\ dbGames' = [dbGames EXCEPT ![x.player] = x.games]
      BY <1>0, <1>1, <1>4, WriteTally DEF Types
    <2>2. x.player \in Player /\ x.games \in Tally
      BY <1>4, JobOps
    <2>3. Types'
      BY <1>0, <1>2, <1>3, <2>1, <2>2 DEF Types, RowTypes, TallyTypes, HandlerTypes
    <2>4. \A k : JobsStay(k)
      BY <1>0, <1>1, <1>4, TallyKinds, StayWritten DEF Types
    <2>5. ASSUME NEW k \in Match PROVE RowInv(k)'
      BY <1>2, <2>1, <2>4, Untouched DEF Rows
    <2> QED BY <2>3, <2>5 DEF Rows
  <1>5. CASE x \notin TallyJob
    <2>1. PICK m \in Match : m = x.match /\ x \in JobOf(m)
      BY <1>5, JobKinds
    <2>2. RowInv(m)' /\ db'[m] \in Row
      BY <1>1, <2>1, WrittenRow DEF Rows
    <2>3. /\ db' = [db EXCEPT ![m] = Written(x)] /\ dbGames' = dbGames
          /\ lost' = IF GoesWrong(x) THEN lost \cup {m} ELSE lost
      BY <1>0, <1>1, <1>5, <2>1, WriteRow DEF Types
    <2>4. db' \in [Match -> Row \cup {None}] /\ \A k \in Match : k # m => db'[k] = db[k]
      BY <1>0, <2>2, <2>3 DEF Types, RowTypes
    <2>5. Types'
      BY <1>0, <1>2, <1>3, <2>3, <2>4 DEF Types, RowTypes, TallyTypes, HandlerTypes
    <2>6. ASSUME NEW k \in Match, k # m PROVE RowInv(k)'
      <3>1. JobsStay(k)
        BY <1>0, <1>1, <2>1, <2>6, JobsElsewhere, StayWritten DEF Types
      <3> QED BY <1>2, <2>3, <2>4, <2>6, <3>1, Untouched DEF Rows
    <2> QED BY <2>2, <2>5, <2>6 DEF Rows
  <1> QED BY <1>4, <1>5

LEMMA RecountedJobs ==
  ASSUME NEW rows
  PROVE  /\ RecountJobs(rows) \in Seq(Job)
         /\ \A k : ~HasIn(RecountJobs(rows), JobOf(k))
  <1> DEFINE x == GamesJob(1, GamesIn(rows, 1))
             y == GamesJob(2, GamesIn(rows, 2))
  <1>1. x \in Job /\ y \in Job /\ \A k : x \notin JobOf(k) /\ y \notin JobOf(k)
    BY TallyJobs, TallyCounted, TallyKinds, ValuesAreFinal
  <1>2. RecountJobs(rows) = IF Finals(rows) = {} THEN <<>> ELSE <<x, y>>
    BY DEF RecountJobs
  <1> HIDE DEF x, y
  <1>3. /\ <<x, y>> \in Seq(Job) /\ Len(<<x, y>>) = 2
        /\ <<x, y>>[1] = x /\ <<x, y>>[2] = y
    BY <1>1
  <1>4. \A k : ~HasIn(<<x, y>>, JobOf(k))
    <2>1. \A i \in 1..2 : i = 1 \/ i = 2
      OBVIOUS
    <2> QED BY <1>1, <1>3, <2>1 DEF HasIn
  <1>5. <<>> \in Seq(Job)
    OBVIOUS
  <1> QED BY <1>2, <1>3, <1>4, <1>5, EmptyHas

LEMMA RestartRows ==
  ASSUME Rows, Restart
  PROVE  Rows'
  <1>1. /\ mem' = db /\ db' = db /\ games' = Recounted(db, dbGames) /\ dbGames' = dbGames
        /\ queue' = RecountJobs(db) /\ deferred' = <<>> /\ inserting' = None
        /\ rating' = [m \in Match |-> None] /\ live' = {} /\ lost' = lost
    BY DEF Restart, historyVars
  <1>2. SeqTypes'
    BY <1>1, RecountedJobs DEF SeqTypes
  <1>3. Types'
    <2>1. RowTypes' /\ HandlerTypes'
      BY <1>1 DEF Rows, Types, RowTypes, HandlerTypes
    <2>2. TallyTypes'
      BY <1>1, RecountedTypes DEF Rows, Types, TallyTypes
    <2> QED BY <1>2, <2>1, <2>2 DEF Types
  <1>4. ASSUME NEW m \in Match PROVE RowInv(m)'
    <2>1. ~Comes(JobOf(m))'
      BY <1>1, RecountedJobs, EmptyHas DEF Comes
    <2>2. RowRule(m)
      BY DEF Rows, RowInv
    <2>3. m # inserting' /\ rating'[m] = None /\ m \notin live'
      BY <1>1, ValuesAreFinal
    <2>4. RowRule(m)'
      BY <1>1, <2>1, <2>2, <2>3 DEF RowRule
    <2>5. \A S : S \subseteq JobOf(m) => ~Comes(S)'
      <3>1. \A S : S \subseteq JobOf(m) =>
               /\ HasIn(queue', S) => HasIn(queue', JobOf(m))
               /\ HasIn(deferred', S) => HasIn(deferred', JobOf(m))
        BY HasSubset
      <3> QED BY <2>1, <3>1 DEF Comes
    <2>6. /\ ~Comes(AbortOf(m))' /\ ~Comes(SystemOf(m))' /\ ~Comes(Verdict(m))' /\ ~Comes(ChangeOf(m))'
          /\ \A v : ~Comes(ThatResult(m, v))'
          /\ \A p : ~Comes(ReportBy(m, p))'
      BY <2>5, KindsOfJobs
    <2>7. SystemRule(m)'
      BY <2>6 DEF SystemRule
    <2>8. ASSUME NEW r \in Row, mem'[m] = r PROVE Owed(m, r)'
      <3>1. db'[m] = r /\ r = db[m]
        BY <1>1, <2>8
      <3>2. Reported(r) => r.result # None
        BY <2>2, <3>1, ValuesAreFinal DEF RowRule
      <3>3. Told(m, r)'
        BY <2>6, <3>1, <3>2 DEF Told
      <3>4. r.result # Aborted => r.result = ResultOf(r)
        BY <3>2 DEF ResultOf
      <3>5. Judged(m, r)'
        BY <2>6, <3>1, <3>4 DEF Judged
      <3> QED BY <2>3, <3>3, <3>5 DEF Owed
    <2> QED BY <2>4, <2>7, <2>8 DEF RowInv
  <1> QED BY <1>3, <1>4 DEF Rows

LEMMA NextRows ==
  ASSUME Rows, Single, [Next]_vars
  PROVE  Rows'
  <1>1. ASSUME NEW m \in Match, MatchStep(m) PROVE Rows'
    <2>1. CASE \E p \in Player, v \in Value : Report(m, p, v)
      BY <2>1, ReportRows
    <2>2. CASE \E p \in Player : Abort(m, p)
      BY <2>2, AbortRows
    <2>3. CASE \E absent \in SUBSET Player \ {{}} : SystemAbort(m, absent)
      BY <2>3, SystemAbortRows
    <2>4. CASE InsertMatch(m)
      BY <2>4, InsertRows
    <2>5. CASE TimePasses(m) \/ EndConflict(m)
      BY <2>5, OtherRows
    <2>6. CASE RateFirst(m)
      BY <2>6, RateFirstRows
    <2>7. CASE RateSecond(m)
      BY <2>7, RateSecondRows
    <2>8. CASE RecordChange(m)
      BY <2>8, ChangeRows
    <2> QED BY <1>1, <2>1, <2>2, <2>3, <2>4, <2>5, <2>6, <2>7, <2>8 DEF MatchStep
  <1>2. CASE LoadMatch
    BY <1>2, LoadRows
  <1>3. CASE Restart
    BY <1>3, RestartRows
  <1>4. CASE WriteNext
    BY <1>4, WriteRows
  <1>5. CASE RunDeferred \/ Midnight \/ UNCHANGED vars
    BY <1>5, OtherRows
  <1> QED BY <1>1, <1>2, <1>3, <1>4, <1>5 DEF Next

-----------------------------------------------------------------------------
(* One match at a time *)

\* Nothing reopens a match of this run but its own coming into memory.
LEMMA EndedStays ==
  ASSUME Rows, [Next]_vars, ~LoadMatch, ~Restart, NEW k \in live, HasEnded(k)
  PROVE  HasEnded(k)'
  <1>0. k \in Match /\ Types /\ RowInv(k)
    BY DEF Rows, Types, HandlerTypes
  <1>1. rating[k] = None /\ (mem[k] = None \/ mem[k].result # None \/ k \in processed)
    BY DEF HasEnded
  <1>2. CASE mem' = mem /\ rating' = rating /\ (k \in processed => k \in processed')
    BY <1>1, <1>2 DEF HasEnded
  <1>3. ASSUME NEW m \in Match, MatchStep(m) PROVE HasEnded(k)'
    <2>1. CASE InsertMatch(m) \/ TimePasses(m) \/ EndConflict(m)
      BY <1>2, <2>1 DEF InsertMatch, TimePasses, EndConflict, rowVars
    <2>2. CASE \/ \E p \in Player : (\E v \in Value : Report(m, p, v)) \/ Abort(m, p)
               \/ \E absent \in SUBSET Player \ {{}} : SystemAbort(m, absent)
      <3>1. /\ IsOpen(m) /\ rating' = rating /\ processed' = processed
            /\ \E r : mem' = [mem EXCEPT ![m] = r]
        BY <2>2 DEF Report, Abort, SystemAbort
      <3>2. CASE m = k
        BY <1>1, <3>1, <3>2 DEF HasEnded, IsOpen
      <3>3. CASE m # k
        <4>1. mem'[k] = mem[k]
          BY <1>0, <3>1, <3>3 DEF Types, RowTypes
        <4> QED BY <1>1, <3>1, <4>1 DEF HasEnded
      <3> QED BY <3>2, <3>3
    <2>3. CASE RateFirst(m)
      <3>1. /\ IsOpen(m) /\ m \notin processed /\ processed' = processed
            /\ mem' = [mem EXCEPT ![m].result = mem[m].report[1]]
            /\ \E d : rating' = [rating EXCEPT ![m] = d]
        BY <2>3 DEF RateFirst, IsDue
      <3>2. m # k
        BY <1>1, <3>1 DEF IsOpen
      <3>3. mem'[k] = mem[k] /\ rating'[k] = rating[k]
        BY <1>0, <3>1, <3>2 DEF Types, RowTypes, HandlerTypes
      <3> QED BY <1>1, <3>1, <3>3 DEF HasEnded
    <2>4. CASE RateSecond(m)
      <3>1. /\ rating[m] # None /\ mem' = mem /\ processed' = processed
            /\ rating' = [rating EXCEPT ![m].rated = Player]
        BY <2>4 DEF RateSecond, rowVars
      <3>2. m # k
        BY <1>1, <3>1
      <3>3. rating'[k] = rating[k]
        BY <1>0, <3>1, <3>2 DEF Types, HandlerTypes
      <3> QED BY <1>1, <3>1, <3>3 DEF HasEnded
    <2>5. CASE RecordChange(m)
      <3>1. /\ rating[m] # None /\ processed' = processed \cup {m}
            /\ mem' = IF mem[m] = None THEN mem ELSE [mem EXCEPT ![m].change = TRUE]
            /\ rating' = [rating EXCEPT ![m] = None]
        BY <2>5 DEF RecordChange
      <3>2. m # k
        BY <1>1, <3>1
      <3>3. mem'[k] = mem[k] /\ rating'[k] = rating[k]
        BY <1>0, <3>1, <3>2 DEF Types, RowTypes, HandlerTypes
      <3> QED BY <1>1, <3>1, <3>3 DEF HasEnded
    <2> QED BY <1>3, <2>1, <2>2, <2>3, <2>4, <2>5 DEF MatchStep
  <1>4. CASE RunDeferred \/ Midnight \/ WriteNext \/ UNCHANGED vars
    BY <1>2, <1>4 DEF RunDeferred, Midnight, WriteNext, vars, rowVars
  <1> QED BY <1>3, <1>4 DEF Next

LEMMA NextSingle ==
  ASSUME Rows, Rows', Single, [Next]_vars
  PROVE  Single'
  <1>1. CASE Restart
    <2>1. live' = {}
      BY <1>1 DEF Restart
    <2> QED BY <2>1 DEF Single
  <1>2. CASE LoadMatch
    <2>1. /\ inserting \in Match /\ inserting' = None /\ live' = live /\ rating' = rating
          /\ processed' = processed /\ mem' = Newest([mem EXCEPT ![inserting] = db[inserting]])
          /\ \A k \in live : HasEnded(k)
      BY <1>2 DEF LoadMatch, Single, Rows, Types, HandlerTypes
    <2>2. ASSUME NEW k \in live, k # inserting PROVE HasEnded(k)'
      <3>1. k \in Match
        BY DEF Rows, Types, HandlerTypes
      <3>2. mem'[k] \in {mem[k], None}
        BY <2>1, <2>2, <3>1 DEF Newest, Rows, Types, RowTypes
      <3>3. HasEnded(k)
        BY <2>1
      <3> QED BY <2>1, <3>2, <3>3 DEF HasEnded
    <2> QED BY <2>1, <2>2 DEF Single
  <1>3. ASSUME NEW m \in Match, InsertMatch(m) PROVE Single'
    <2>1. /\ live' = live \cup {m} /\ mem' = mem /\ rating' = rating
          /\ \A k \in live : HasEnded(k)
      BY <1>3 DEF InsertMatch
    <2>2. ~LoadMatch /\ ~Restart
      BY <1>3, ValuesAreFinal DEF InsertMatch, LoadMatch, Restart
    <2>3. \A k \in live : HasEnded(k)'
      BY <2>1, <2>2, EndedStays
    <2>4. m = inserting'
      BY <1>3 DEF InsertMatch
    <2>5. HasEnded(m)'
      BY <2>4 DEF Rows, RowInv, RowRule, HasEnded
    <2> QED BY <2>1, <2>3, <2>5 DEF Single
  <1>4. CASE ~Restart /\ ~LoadMatch /\ ~\E m \in Match : InsertMatch(m)
    <2>1. live' = live /\ inserting' = inserting
      BY <1>4 DEF Next, MatchStep, TimePasses, Report, Abort, SystemAbort, RateFirst, RateSecond,
                  RecordChange, EndConflict, RunDeferred, Midnight, WriteNext, vars
    <2>2. \A k \in live : HasEnded(k) => HasEnded(k)'
      BY <1>4, EndedStays
    <2> QED BY <2>1, <2>2 DEF Single
  <1> QED BY <1>1, <1>2, <1>3, <1>4

-----------------------------------------------------------------------------
Inv == Rows /\ Single

LEMMA InitInv == Init => Inv
  <1> SUFFICES ASSUME Init PROVE Inv
    OBVIOUS
  <1>1. Types
    BY DEF Init, Types, RowTypes, TallyTypes, HandlerTypes, SeqTypes, Tally, Player
  <1>2. ASSUME NEW m \in Match PROVE RowInv(m)
    <2>1. queue = <<>> /\ deferred = <<>> /\ mem[m] = None /\ db[m] = None /\ rating[m] = None
          /\ live = {} /\ inserting = None
      BY DEF Init
    <2>2. \A S : ~Comes(S)
      BY <2>1, EmptyHas DEF Comes
    <2>3. RowRule(m)
      BY <2>1, <2>2, ValuesAreFinal DEF RowRule
    <2>4. SystemRule(m)
      BY <2>2 DEF SystemRule
    <2> QED BY <2>1, <2>3, <2>4, ValuesAreFinal DEF RowInv
  <1>3. Single
    BY DEF Init, Single
  <1> QED BY <1>1, <1>2, <1>3 DEF Inv, Rows

\* Memory's row, the database's row and the jobs between them belong together,
\* and one match at most is going on, in every state.
THEOREM Invariant == Spec => []Inv
  <1>1. Inv /\ [Next]_vars => Inv'
    BY NextRows, NextSingle DEF Inv
  <1> QED BY InitInv, <1>1, PTL DEF Spec

\* Two judges, one on each side of the queue, come to the same verdict
\* (update_match_report and update_player_report_1v1), for any number of matches,
\* reports and restarts.
THEOREM VerdictsMeet == Spec => []ResultsSettle
  <1>1. Inv => ResultsSettle
    <2>1. SUFFICES ASSUME Inv, Settled, NEW m \in Match \ lost, mem[m] # None
                   PROVE  /\ db[m].result = ResultOf(mem[m])
                          /\ db[m].change = mem[m].change
                          /\ mem[m].result # Aborted => db[m].report = mem[m].report
      BY DEF ResultsSettle
    <2>2. PICK r \in Row : r = mem[m]
      BY <2>1 DEF Inv, Rows, Types, RowTypes
    <2>3. Told(m, r) /\ Judged(m, r) /\ RowRule(m)
      BY <2>1, <2>2 DEF Inv, Rows, RowInv, Owed
    <2>4. \A S : ~Comes(S)
      BY <2>1, EmptyHas DEF Settled, Comes
    <2>5. PICK d \in Row : d = db[m]
      BY <2>1, <2>3 DEF RowRule, Inv, Rows, Types, RowTypes
    <2>6. d.change = r.change /\ (r.result # Aborted => \A p \in Player : d.report[p] = r.report[p])
      BY <2>3, <2>4, <2>5 DEF Told
    <2>7. d.result = ResultOf(r)
      <3>1. r.result = Aborted => ResultOf(r) = Aborted
        BY ValuesAreFinal DEF ResultOf
      <3> QED BY <2>3, <2>4, <2>5, <3>1 DEF Judged
    <2>8. d.report \in [Player -> Mark] /\ r.report \in [Player -> Mark]
      BY RowFields
    <2>9. r.result # Aborted => d.report = r.report
      BY <2>6, <2>8
    <2> QED BY <2>2, <2>5, <2>6, <2>7, <2>9
  <1> QED BY Invariant, <1>1, PTL

-----------------------------------------------------------------------------
(* The games of the final matches *)

LEMMA SameGames ==
  ASSUME NEW a, NEW b,
         \A k \in Match :
           /\ a[k] # None /\ a[k].result \in Final => b[k] # None /\ b[k].result = a[k].result
           /\ b[k] # None /\ b[k].result \in Final => a[k] # None /\ b[k].result = a[k].result
  PROVE  Finals(a) = Finals(b) /\ \A p : GamesIn(a, p) = GamesIn(b, p)
  <1>1. Finals(a) = Finals(b)
    BY DEF Finals
  <1>2. ASSUME NEW p
        PROVE  {m \in Finals(a) : a[m].result = p} = {m \in Finals(b) : b[m].result = p}
    BY <1>1 DEF Finals
  <1> QED BY <1>1, <1>2 DEF GamesIn

LEMMA OneGameMore ==
  ASSUME NEW a, NEW b, NEW m \in Match, NEW v \in Value,
         m \notin Finals(a), b[m] # None, b[m].result = v,
         \A k \in Match : k # m => b[k] = a[k], NEW p
  PROVE  GamesIn(b, p) = OneMore(GamesIn(a, p), p, v)
  <1> DEFINE W(rows) == {k \in Finals(rows) : rows[k].result = p}
  <1>1. Finals(b) = Finals(a) \cup {m}
    BY ValuesAreFinal DEF Finals
  <1>2. IsFiniteSet(Finals(a)) /\ IsFiniteSet(W(a))
    BY TallyCounted
  <1>3. Cardinality(Finals(b)) = Cardinality(Finals(a)) + 1
    BY <1>1, <1>2, FS_AddElement
  <1>4. Cardinality(W(b)) = Cardinality(W(a)) + (IF v = p THEN 1 ELSE 0)
    <2>1. CASE v = p
      <3>1. W(b) = W(a) \cup {m} /\ m \notin W(a)
        BY <1>1, <2>1 DEF Finals
      <3> QED BY <1>2, <2>1, <3>1, FS_AddElement
    <2>2. CASE v # p
      <3>1. W(b) = W(a)
        BY <1>1, <2>2 DEF Finals
      <3>2. PICK c \in Nat : c = Cardinality(W(a))
        BY <1>2, FS_CardinalityType
      <3>3. Cardinality(W(b)) = c
        BY <3>1, <3>2
      <3>4. c + (IF v = p THEN 1 ELSE 0) = c
        BY <2>2
      <3> HIDE DEF W
      <3> QED BY <3>2, <3>3, <3>4
    <2> QED BY <2>1, <2>2
  <1>5. /\ GamesIn(a, p) = [played |-> Cardinality(Finals(a)), won |-> Cardinality(W(a))]
        /\ GamesIn(b, p) = [played |-> Cardinality(Finals(b)), won |-> Cardinality(W(b))]
    BY DEF GamesIn
  <1> HIDE DEF W
  <1> QED BY <1>3, <1>4, <1>5 DEF OneMore

Zero == [played |-> 0, won |-> 0]

LEMMA NoGames ==
  ASSUME NEW rows, NEW p, Finals(rows) = {}
  PROVE  GamesIn(rows, p) = Zero
  <1>1. {m \in Finals(rows) : rows[m].result = p} = {}
    OBVIOUS
  <1> QED BY <1>1, FS_EmptySet DEF GamesIn, Zero

\* Every A of the sequence comes after some B.
Preceded(s, A, B) ==
  \A i \in 1..Len(s) : s[i] \in A => \E j \in 1..Len(s) : j < i /\ s[j] \in B

LEMMA PrecededAppended ==
  ASSUME NEW J, NEW s \in Seq(J), NEW x \in J, NEW A, NEW B, Preceded(s, A, B),
         x \in A => HasIn(s, B)
  PROVE  Preceded(Append(s, x), A, B)
  <1> DEFINE t == Append(s, x)
  <1>1. /\ Len(t) = Len(s) + 1 /\ Len(s) \in Nat
        /\ \A i \in 1..Len(s) : t[i] = s[i]
        /\ t[Len(s) + 1] = x
    BY Appended
  <1> HIDE DEF t
  <1>2. ASSUME NEW i \in 1..Len(t), t[i] \in A PROVE \E j \in 1..Len(t) : j < i /\ t[j] \in B
    <2>1. CASE i \in 1..Len(s)
      <3>1. PICK j \in 1..Len(s) : j < i /\ s[j] \in B
        BY <1>1, <1>2, <2>1 DEF Preceded
      <3>2. j \in 1..Len(t) /\ t[j] = s[j]
        BY <1>1
      <3> QED BY <3>1, <3>2
    <2>2. CASE i = Len(s) + 1
      <3>1. PICK j \in 1..Len(s) : s[j] \in B
        BY <1>1, <1>2, <2>2 DEF HasIn
      <3>2. j \in 1..Len(t) /\ t[j] = s[j] /\ j < i
        BY <1>1, <2>2
      <3> QED BY <3>1, <3>2
    <2> QED BY <1>1, <2>1, <2>2
  <1>3. Preceded(t, A, B)
    BY <1>2 DEF Preceded
  <1> QED BY <1>3 DEF t

LEMMA PrecededTailed ==
  ASSUME NEW J, NEW s \in Seq(J), s # <<>>, NEW A, NEW B, Preceded(s, A, B)
  PROVE  /\ Head(s) \notin A
         /\ Head(s) \notin B => Preceded(Tail(s), A, B)
  <1> DEFINE t == Tail(s)
             h == Head(s)
  <1>1. /\ Len(t) = Len(s) - 1 /\ Len(s) \in Nat /\ Len(s) > 0
        /\ \A i \in 1..(Len(s) - 1) : t[i] = s[i + 1]
        /\ h = s[1]
    BY Tailed
  <1> HIDE DEF t, h
  <1>2. h \notin A
    <2>1. 1 \in 1..Len(s) /\ ~\E j \in 1..Len(s) : j < 1
      BY <1>1
    <2> QED BY <1>1, <2>1 DEF Preceded
  <1>3. ASSUME h \notin B, NEW i \in 1..Len(t), t[i] \in A PROVE \E j \in 1..Len(t) : j < i /\ t[j] \in B
    <2>1. i + 1 \in 1..Len(s) /\ t[i] = s[i + 1]
      BY <1>1
    <2>2. PICK j \in 1..Len(s) : j < i + 1 /\ s[j] \in B
      BY <1>3, <2>1 DEF Preceded
    <2>3. j # 1
      BY <1>1, <1>3, <2>2
    <2>4. j - 1 \in 1..Len(t) /\ j - 1 < i /\ j - 1 \in 1..(Len(s) - 1) /\ (j - 1) + 1 = j
      BY <1>1, <2>2, <2>3
    <2>5. t[j - 1] = s[j]
      BY <1>1, <2>4
    <2> QED BY <2>2, <2>4, <2>5
  <1>4. h \notin B => Preceded(t, A, B)
    BY <1>3 DEF Preceded
  <1> QED BY <1>2, <1>4 DEF t, h

-----------------------------------------------------------------------------
(* What the games of a player come to *)

Clean == lost = {} /\ undone = {}

\* The database has the result, and memory agrees if it has the row.
Decided(m) ==
  /\ db[m] # None /\ db[m].result \in Final
  /\ mem[m] # None => mem[m].result = db[m].result

SomeDecided == \E m \in Match : Decided(m)

AllHere == \A k \in Match : db[k] # None /\ k # inserting => mem[k] # None

BigTally == {x \in TallyJob : x.games # Zero}

\* The last job of a player's games brings what memory has.
TallyRule ==
  \A p \in Player :
    /\ HasIn(queue, TallyOf(p)) => EndsIn(queue, TallyOf(p), {GamesJob(p, games[p])})
    /\ ~HasIn(queue, TallyOf(p)) => dbGames[p] = games[p]

\* Games are written after the result of a match, so that a restart that finds
\* games finds a final match to count.
Proven ==
  SomeDecided \/ ((\A p \in Player : dbGames[p] = Zero) /\ Preceded(queue, BigTally, ResultJob))

InTime(m) ==
  mem[m] # None /\ mem[m].result \in Final => HasIn(queue, ResultFor(m)) \/ Decided(m)

HalfRated(m) == rating[m] # None /\ rating[m].rated = {1}

CountRule ==
  AllHere =>
    /\ games[1] = GamesIn(mem, 1)
    /\ \A m \in Match : HalfRated(m) => rating[m].second = GamesIn(mem, 2)
    /\ (\A m \in Match : ~HalfRated(m)) => games[2] = GamesIn(mem, 2)

Counted ==
  /\ TallyRule
  /\ Clean => Proven /\ (\A m \in Match : InTime(m)) /\ CountRule

\* A job of no player's games leaves the games as they were to be.
LEMMA TallyKept ==
  ASSUME SeqTypes, TallyRule, games' = games, dbGames' = dbGames,
         queue' = queue \/ \E x \in Job : x \notin TallyJob /\ queue' = Append(queue, x)
  PROVE  TallyRule' /\ (Preceded(queue, BigTally, ResultJob) => Preceded(queue', BigTally, ResultJob))
  <1>1. CASE queue' = queue
    BY <1>1 DEF TallyRule
  <1>2. ASSUME NEW x \in Job, x \notin TallyJob, queue' = Append(queue, x)
        PROVE  TallyRule' /\ (Preceded(queue, BigTally, ResultJob) => Preceded(queue', BigTally, ResultJob))
    <2>1. \A p : x \notin TallyOf(p)
      BY <1>2 DEF TallyOf
    <2>2. \A S : HasIn(queue', S) <=> HasIn(queue, S) \/ x \in S
      BY <1>2, HasAppended DEF SeqTypes
    <2>3. \A S, T : x \notin S /\ EndsIn(queue, S, T) => EndsIn(queue', S, T)
      BY <1>2, EndsAppended DEF SeqTypes
    <2>4. TallyRule'
      BY <2>1, <2>2, <2>3 DEF TallyRule
    <2>5. x \notin BigTally
      BY <1>2 DEF BigTally
    <2>6. Preceded(queue, BigTally, ResultJob) => Preceded(queue', BigTally, ResultJob)
      BY <1>2, <2>5, PrecededAppended DEF SeqTypes
    <2> QED BY <2>4, <2>6
  <1> QED BY <1>1, <1>2

\* A step that makes no match final, and none less.
LEMMA Uncounted ==
  ASSUME Rows, Counted, games' = games, dbGames' = dbGames, lost' = lost, undone' = undone,
         queue' = queue \/ \E x \in Job : x \notin TallyJob /\ queue' = Append(queue, x),
         \A k \in Match : Decided(k) => Decided(k)',
         \A k \in Match : mem'[k] # None /\ mem'[k].result \in Final =>
                            mem[k] # None /\ mem[k].result = mem'[k].result,
         AllHere' => /\ AllHere
                     /\ \A k \in Match : mem[k] # None /\ mem[k].result \in Final =>
                                           mem'[k] # None /\ mem'[k].result = mem[k].result,
         \A k \in Match : HalfRated(k)' <=> HalfRated(k),
         \A k \in Match : HalfRated(k) => rating'[k].second = rating[k].second
  PROVE  Counted'
  <1>1. TallyRule' /\ (Preceded(queue, BigTally, ResultJob) => Preceded(queue', BigTally, ResultJob))
    BY TallyKept DEF Counted, Rows, Types
  <1>2. \A S : HasIn(queue, S) => HasIn(queue', S)
    <2>1. CASE queue' = queue
      BY <2>1
    <2>2. ASSUME NEW x \in Job, queue' = Append(queue, x)
          PROVE  \A S : HasIn(queue, S) => HasIn(queue', S)
      BY <2>2, HasAppended DEF Rows, Types, SeqTypes
    <2> QED BY <2>1, <2>2
  <1>3. SUFFICES ASSUME Clean' PROVE Proven' /\ (\A m \in Match : InTime(m)') /\ CountRule'
    BY <1>1 DEF Counted
  <1>4. Proven /\ (\A m \in Match : InTime(m)) /\ CountRule
    BY <1>3 DEF Clean, Counted
  <1>5. SomeDecided => SomeDecided'
    BY DEF SomeDecided
  <1>6. Proven'
    BY <1>1, <1>4, <1>5 DEF Proven
  <1>7. ASSUME NEW m \in Match PROVE InTime(m)'
    BY <1>2, <1>4 DEF InTime
  <1>8. ASSUME AllHere'
        PROVE  /\ games'[1] = GamesIn(mem', 1)
               /\ \A m \in Match : HalfRated(m)' => rating'[m].second = GamesIn(mem', 2)
               /\ (\A m \in Match : ~HalfRated(m)') => games'[2] = GamesIn(mem', 2)
    <2>1. AllHere
      BY <1>8
    <2>2. \A p : GamesIn(mem, p) = GamesIn(mem', p)
      BY <1>8, SameGames
    <2> QED BY <1>4, <2>1, <2>2 DEF CountRule
  <1>9. CountRule'
    BY <1>8 DEF CountRule
  <1> QED BY <1>6, <1>7, <1>9

\* An open match is reported or ended.
LEMMA OpenUncounted ==
  ASSUME Rows, Counted, NEW m \in Match, IsOpen(m), NEW n \in Row,
         mem' = [mem EXCEPT ![m] = n], n.result \in {None, Aborted},
         games' = games, dbGames' = dbGames, lost' = lost, undone' = undone, db' = db,
         inserting' = inserting, rating' = rating,
         queue' = queue \/ \E x \in Job : x \notin TallyJob /\ queue' = Append(queue, x)
  PROVE  Counted'
  <1>1. mem'[m] = n /\ \A k \in Match : k # m => mem'[k] = mem[k]
    BY DEF Rows, Types, RowTypes
  <1>2. mem[m] # None /\ mem[m].result \notin Final /\ n # None /\ n.result \notin Final
    BY ValuesAreFinal DEF IsOpen
  <1>3. \A k \in Match : Decided(k) => Decided(k)'
    BY <1>1, <1>2 DEF Decided
  <1>4. \A k \in Match : mem'[k] # None /\ mem'[k].result \in Final =>
                            mem[k] # None /\ mem[k].result = mem'[k].result
    BY <1>1, <1>2
  <1>5. /\ AllHere' => AllHere
        /\ \A k \in Match : mem[k] # None /\ mem[k].result \in Final =>
                              mem'[k] # None /\ mem'[k].result = mem[k].result
    BY <1>1, <1>2 DEF AllHere
  <1>6. \A k \in Match : HalfRated(k)' <=> HalfRated(k)
    BY DEF HalfRated
  <1> QED BY <1>3, <1>4, <1>5, <1>6, Uncounted

LEMMA OpenSteps ==
  ASSUME Rows, Counted, NEW m \in Match,
         \/ \E p \in Player : (\E v \in Value : Report(m, p, v)) \/ Abort(m, p)
         \/ \E absent \in SUBSET Player \ {{}} : SystemAbort(m, absent)
  PROVE  Counted'
  <1>1. ASSUME NEW p \in Player, NEW v \in Value, Report(m, p, v) PROVE Counted'
    <2>1. /\ IsOpen(m) /\ mem' = [mem EXCEPT ![m] = Noted(@, p, v)] /\ queue' = queue
          /\ games' = games /\ dbGames' = dbGames /\ lost' = lost /\ undone' = undone /\ db' = db
          /\ inserting' = inserting /\ rating' = rating
      BY <1>1 DEF Report, historyVars, gameVars
    <2>2. mem[m] \in Row /\ mem[m].result = None
      BY <2>1, OpenRow DEF Rows
    <2>3. PICK n \in Row : n = Noted(mem[m], p, v)
      BY <2>2, RowNoted
    <2>4. n.result = None
      BY <2>2, <2>3, RowNoted
    <2>5. mem' = [mem EXCEPT ![m] = n]
      BY <2>1, <2>3 DEF Rows, Types, RowTypes
    <2> QED BY <2>1, <2>4, <2>5, OpenUncounted
  <1>2. ASSUME NEW p \in Player, Abort(m, p) PROVE Counted'
    <2> DEFINE x == [op |-> "abort", match |-> m, by |-> p]
               f == [q \in Player |-> IF q = p THEN Aborter ELSE Aborted]
    <2>1. /\ IsOpen(m) /\ mem' = [mem EXCEPT ![m] = Ended(@, f)] /\ queue' = Append(queue, x)
          /\ games' = games /\ dbGames' = dbGames /\ lost' = lost /\ undone' = undone /\ db' = db
          /\ inserting' = inserting /\ rating' = rating
      BY <1>2 DEF Abort, historyVars, gameVars
    <2>2. mem[m] \in Row
      BY <2>1, OpenRow DEF Rows
    <2>3. f \in [Player -> Mark]
      BY DEF Mark
    <2>4. x \in Job /\ x \notin TallyJob
      <3>1. x \in Job /\ x.op = "abort"
        BY AbortKinds
      <3> QED BY <3>1, JobKinds
    <2> HIDE DEF x, f
    <2>5. PICK n \in Row : n = Ended(mem[m], f)
      BY <2>2, <2>3, RowEnded
    <2>6. n.result = Aborted
      BY <2>2, <2>3, <2>5, RowEnded
    <2>7. mem' = [mem EXCEPT ![m] = n]
      BY <2>1, <2>5 DEF Rows, Types, RowTypes
    <2> QED BY <2>1, <2>4, <2>6, <2>7, OpenUncounted
  <1>3. ASSUME NEW absent \in SUBSET Player \ {{}}, SystemAbort(m, absent) PROVE Counted'
    <2> DEFINE f == [p \in Player |-> IF p \in absent THEN Unconfirmed ELSE None]
               x == [op |-> "system", match |-> m, report |-> f]
    <2>1. /\ IsOpen(m) /\ mem' = [mem EXCEPT ![m] = Ended(@, f)] /\ queue' = Append(queue, x)
          /\ games' = games /\ dbGames' = dbGames /\ lost' = lost /\ undone' = undone /\ db' = db
          /\ inserting' = inserting /\ rating' = rating
      BY <1>3 DEF SystemAbort, historyVars, gameVars
    <2>2. mem[m] \in Row
      BY <2>1, OpenRow DEF Rows
    <2>3. f \in [Player -> Mark] /\ f \in [Player -> {None, Unconfirmed}]
      BY DEF Mark
    <2> HIDE DEF f
    <2>4. x \in Job /\ x \notin TallyJob
      <3>1. x \in Job /\ x.op = "system"
        BY <2>3, SystemKinds
      <3> QED BY <3>1, JobKinds
    <2> HIDE DEF x
    <2>5. PICK n \in Row : n = Ended(mem[m], f)
      BY <2>2, <2>3, RowEnded
    <2>6. n.result = Aborted
      BY <2>2, <2>3, <2>5, RowEnded
    <2>7. mem' = [mem EXCEPT ![m] = n]
      BY <2>1, <2>5 DEF Rows, Types, RowTypes
    <2> QED BY <2>1, <2>4, <2>6, <2>7, OpenUncounted
  <1> QED BY <1>1, <1>2, <1>3

LEMMA CreationSteps ==
  ASSUME Rows, Counted, (\E m \in Match : InsertMatch(m)) \/ LoadMatch
  PROVE  Counted'
  <1>1. ASSUME NEW m \in Match, InsertMatch(m) PROVE Counted'
    <2>1. /\ inserting = None /\ db[m] = None /\ inserting' = m /\ db' = [db EXCEPT ![m] = NewRow]
          /\ mem' = mem /\ queue' = queue /\ rating' = rating
          /\ games' = games /\ dbGames' = dbGames /\ lost' = lost /\ undone' = undone
      BY <1>1 DEF InsertMatch, jobVars, gameVars, historyVars
    <2>2. \A k \in Match : k # m => db'[k] = db[k]
      BY <2>1 DEF Rows, Types, RowTypes
    <2>3. \A k \in Match : Decided(k) => Decided(k)'
      BY <2>1, <2>2 DEF Decided
    <2>4. AllHere' => AllHere
      BY <2>1, <2>2 DEF AllHere
    <2>5. \A k \in Match : HalfRated(k)' <=> HalfRated(k)
      BY <2>1 DEF HalfRated
    <2> QED BY <2>1, <2>3, <2>4, <2>5, Uncounted
  <1>2. ASSUME LoadMatch PROVE Counted'
    <2>1. PICK m \in Match : m = inserting
      BY <1>2 DEF LoadMatch, Rows, Types, HandlerTypes
    <2>2. /\ mem' = Newest([mem EXCEPT ![m] = db[m]]) /\ inserting' = None
          /\ db' = db /\ queue' = queue /\ rating' = rating
          /\ games' = games /\ dbGames' = dbGames /\ lost' = lost /\ undone' = undone
      BY <1>2, <2>1 DEF LoadMatch, jobVars, gameVars, historyVars
    <2>3. db[m] = NewRow /\ mem[m] = None /\ NewRow.result = None
      BY <2>1, NewRowFields DEF Rows, RowInv, RowRule
    <2>4. mem'[m] \in {NewRow, None} /\ \A k \in Match : k # m => mem'[k] \in {mem[k], None}
      <3> DEFINE rows == [mem EXCEPT ![m] = db[m]]
      <3>1. rows[m] = db[m] /\ \A k \in Match : k # m => rows[k] = mem[k]
        BY DEF Rows, Types, RowTypes
      <3>2. mem' = Newest(rows)
        BY <2>2
      <3> HIDE DEF rows
      <3>3. \A k \in Match : mem'[k] \in {rows[k], None}
        BY <3>2 DEF Newest
      <3> QED BY <2>3, <3>1, <3>3
    <2>5. \A k \in Match : Decided(k) => Decided(k)'
      BY <2>2, <2>3, <2>4, ValuesAreFinal DEF Decided
    <2>6. \A k \in Match : mem'[k] # None /\ mem'[k].result \in Final =>
                              mem[k] # None /\ mem[k].result = mem'[k].result
      BY <2>3, <2>4, ValuesAreFinal
    <2>7. ASSUME AllHere'
          PROVE  /\ AllHere
                 /\ \A k \in Match : mem[k] # None /\ mem[k].result \in Final =>
                                       mem'[k] # None /\ mem'[k].result = mem[k].result
      <3>1. \A k \in Match : db[k] # None => mem'[k] # None
        BY <2>2, <2>7, ValuesAreFinal DEF AllHere
      <3>2. AllHere
        BY <2>1, <2>4, <3>1 DEF AllHere
      <3>3. \A k \in Match : mem[k] # None => db[k] # None
        BY DEF Rows, RowInv, RowRule
      <3> QED BY <2>3, <2>4, <3>1, <3>2, <3>3
    <2>8. \A k \in Match : HalfRated(k)' <=> HalfRated(k)
      BY <2>2 DEF HalfRated
    <2> QED BY <2>2, <2>5, <2>6, <2>7, <2>8, Uncounted
  <1> QED BY <1>1, <1>2

LEMMA ChangeStep ==
  ASSUME Rows, Counted, NEW m \in Match, RecordChange(m)
  PROVE  Counted'
  <1>1. PICK x : x = [op |-> "change", match |-> m]
    OBVIOUS
  <1>2. /\ rating[m] # None /\ rating[m].rated = Player
        /\ queue' = Append(queue, x) /\ db' = db /\ inserting' = inserting
        /\ games' = games /\ dbGames' = dbGames /\ lost' = lost /\ undone' = undone
        /\ mem' = IF mem[m] = None THEN mem ELSE [mem EXCEPT ![m].change = TRUE]
        /\ rating' = [rating EXCEPT ![m] = None]
    BY <1>1 DEF RecordChange, historyVars, gameVars
  <1>3. x \in Job /\ x \notin TallyJob
    <2>1. x \in Job /\ x.op = "change"
      BY <1>1, ChangeKinds
    <2> QED BY <2>1, JobKinds
  <1>4. \A k \in Match : (mem'[k] # None <=> mem[k] # None) /\ (mem[k] # None => mem'[k].result = mem[k].result)
    <2>1. CASE mem[m] = None
      BY <1>2, <2>1
    <2>2. CASE mem[m] # None
      <3>1. PICK o \in Row : o = mem[m]
        BY <2>2 DEF Rows, Types, RowTypes
      <3>2. PICK n : n = [o EXCEPT !.change = TRUE]
        OBVIOUS
      <3>3. n \in Row /\ n.result = o.result /\ n # None
        BY <3>2, RowChanged, ValuesAreFinal
      <3>4. mem' = [mem EXCEPT ![m] = n]
        BY <1>2, <2>2, <3>1, <3>2 DEF Rows, Types, RowTypes
      <3> QED BY <2>2, <3>1, <3>3, <3>4 DEF Rows, Types, RowTypes
    <2> QED BY <2>1, <2>2
  <1>5. \A k \in Match : Decided(k) => Decided(k)'
    BY <1>2, <1>4 DEF Decided
  <1>6. AllHere' => AllHere
    BY <1>2, <1>4 DEF AllHere
  <1>7. {1} # Player
    BY ValuesAreFinal
  <1>8. \A k \in Match : /\ HalfRated(k)' <=> HalfRated(k)
                         /\ HalfRated(k) => rating'[k].second = rating[k].second
    BY <1>2, <1>7 DEF HalfRated, Rows, Types, HandlerTypes
  <1> QED BY <1>2, <1>3, <1>4, <1>5, <1>6, <1>8, Uncounted

LEMMA SilentSteps ==
  ASSUME Rows, Counted,
         RunDeferred \/ (\E m \in Match : TimePasses(m) \/ EndConflict(m)) \/ UNCHANGED vars
  PROVE  Counted'
  <1>1. /\ mem' = mem /\ db' = db /\ inserting' = inserting /\ rating' = rating
        /\ games' = games /\ dbGames' = dbGames /\ lost' = lost /\ undone' = undone
    BY DEF RunDeferred, TimePasses, EndConflict, vars, rowVars, gameVars, historyVars
  <1>2. queue' = queue \/ \E x \in Job : x \notin TallyJob /\ queue' = Append(queue, x)
    <2>1. CASE RunDeferred
      <3>1. queue' = Append(queue, Head(deferred)) /\ Head(deferred) \in ReportJob
        BY <2>1, Tailed DEF RunDeferred, Rows, Types, SeqTypes
      <3>2. Head(deferred) \in Job /\ Head(deferred).op = "report"
        BY <3>1, JobOps DEF Job, RowJob
      <3>3. Head(deferred) \notin TallyJob
        BY <3>2, JobKinds
      <3> QED BY <3>1, <3>2, <3>3
    <2>2. CASE (\E m \in Match : TimePasses(m) \/ EndConflict(m)) \/ UNCHANGED vars
      BY <2>2 DEF TimePasses, EndConflict, vars, jobVars
    <2> QED BY <2>1, <2>2
  <1>3. /\ \A k \in Match : Decided(k) => Decided(k)'
        /\ AllHere' => AllHere
        /\ \A k \in Match : HalfRated(k)' <=> HalfRated(k)
    BY <1>1 DEF Decided, AllHere, HalfRated
  <1> QED BY <1>1, <1>2, <1>3, Uncounted

\* No two matches are rated at a time.
LEMMA RatesAlone ==
  ASSUME Rows, Single, NEW m \in Match, IsDue(m), rating[m] = None, NEW k \in Match
  PROVE  rating[k] = None
  <1>1. m \in live /\ ~HasEnded(m)
    BY DEF IsDue, IsOpen, HasEnded
  <1>2. ASSUME rating[k] # None PROVE FALSE
    <2>1. k \in live /\ ~HasEnded(k)
      BY <1>2 DEF Rows, RowInv, RowRule, HasEnded
    <2>2. k = m
      BY <1>1, <2>1 DEF Single
    <2> QED BY <1>2, <2>2
  <1> QED BY <1>2

LEMMA RateFirstStepCounts ==
  ASSUME Rows, Single, Counted, NEW m \in Match, RateFirst(m)
  PROVE  Counted'
  <1>0. Types /\ RowInv(m) /\ SeqTypes /\ queue \in Seq(Job) /\ games \in [Player -> Tally]
    BY DEF Rows, Types, SeqTypes, TallyTypes
  <1>1. PICK o \in Row : o = mem[m]
    BY <1>0, OpenRow DEF RateFirst, IsDue
  <1>2. PICK v \in Value : v = o.report[1]
    BY <1>0, <1>1, RateFirstStep
  <1>3. PICK x : x = [op |-> "result", match |-> m, value |-> v]
    OBVIOUS
  <1>4. PICK g : g = OneMore(games[1], 1, v)
    OBVIOUS
  <1>5. PICK y : y = GamesJob(1, g)
    OBVIOUS
  <1>6. /\ queue' = queue \o <<x, y>> /\ y \in TallyJob /\ g \in Tally
        /\ games' = [games EXCEPT ![1] = g]
    BY <1>0, <1>1, <1>2, <1>3, <1>4, <1>5, RateFirstStep
  <1>7. PICK n : n = [o EXCEPT !.result = v]
    OBVIOUS
  <1>8. n \in Row /\ n.result = v /\ n # None
    BY <1>7, RowDecided, ValuesAreFinal DEF Verdicts
  <1>9. mem' = [mem EXCEPT ![m] = n]
    BY <1>0, <1>1, <1>2, <1>7, RateFirstStep
  <1>10. PICK d \in Rated : d = [rated |-> {1}, second |-> OneMore(games[2], 2, v)]
    BY <1>0, <1>1, <1>2, RateFirstStep
  <1>11. rating' = [rating EXCEPT ![m] = d]
    BY <1>0, <1>1, <1>2, <1>10, RateFirstStep
  <1>12. /\ db' = db /\ inserting' = inserting /\ lost' = lost /\ undone' = undone /\ dbGames' = dbGames
         /\ IsDue(m) /\ rating[m] = None
    BY DEF RateFirst, historyVars
  <1>13. mem'[m] = n /\ \A k \in Match : k # m => mem'[k] = mem[k]
    BY <1>0, <1>9 DEF Types, RowTypes
  <1>14. /\ x \in Job /\ x \in ResultFor(m) /\ x \in ResultJob /\ x \notin TallyJob
         /\ y \in Job /\ y.player = 1 /\ y.games = g
    <2>1. x \in Job /\ x \in ResultFor(m) /\ x.op = "result"
      BY <1>3, ResultKinds
    <2>2. x \in ResultJob /\ x \notin TallyJob
      BY <2>1, JobKinds
    <2>3. y \in Job /\ y.player = 1 /\ y.games = g
      BY <1>5, <1>6, TallyJobs, ValuesAreFinal
    <2> QED BY <2>1, <2>2, <2>3
  <1>15. PICK s \in Seq(Job) : s = Append(queue, x)
    BY <1>0, <1>14, Appended
  <1>16. queue' = Append(s, y)
    BY <1>0, <1>6, <1>14, <1>15, TwoQueued
  <1>17. \A S : HasIn(queue', S) <=> HasIn(queue, S) \/ x \in S \/ y \in S
    <2>1. \A S : HasIn(s, S) <=> HasIn(queue, S) \/ x \in S
      BY <1>0, <1>14, <1>15, HasAppended
    <2>2. \A S : HasIn(queue', S) <=> HasIn(s, S) \/ y \in S
      BY <1>14, <1>16, HasAppended
    <2> QED BY <2>1, <2>2
  <1>18. \A S, T : /\ y \in T => EndsIn(queue', S, T)
                   /\ x \notin S /\ y \notin S /\ EndsIn(queue, S, T) => EndsIn(queue', S, T)
    <2>1. \A S, T : x \notin S /\ EndsIn(queue, S, T) => EndsIn(s, S, T)
      BY <1>0, <1>14, <1>15, EndsAppended
    <2>2. \A S, T : /\ y \in T => EndsIn(queue', S, T)
                    /\ y \notin S /\ EndsIn(s, S, T) => EndsIn(queue', S, T)
      BY <1>14, <1>16, EndsAppended
    <2> QED BY <2>1, <2>2
  <1>19. games'[1] = g /\ games'[2] = games[2]
    BY <1>0, <1>6, ValuesAreFinal
  <1>20. TallyRule'
    <2>1. EndsIn(queue', TallyOf(1), {GamesJob(1, games'[1])}) /\ HasIn(queue', TallyOf(1))
      <3>1. y \in {GamesJob(1, games'[1])} /\ y \in TallyOf(1)
        BY <1>5, <1>6, <1>14, <1>19 DEF TallyOf
      <3> QED BY <1>17, <1>18, <3>1
    <2>2. /\ HasIn(queue', TallyOf(2)) => EndsIn(queue', TallyOf(2), {GamesJob(2, games'[2])})
          /\ ~HasIn(queue', TallyOf(2)) => dbGames'[2] = games'[2]
      <3>1. x \notin TallyOf(2) /\ y \notin TallyOf(2)
        BY <1>14 DEF TallyOf
      <3>2. /\ HasIn(queue, TallyOf(2)) => EndsIn(queue, TallyOf(2), {GamesJob(2, games[2])})
            /\ ~HasIn(queue, TallyOf(2)) => dbGames[2] = games[2]
        BY ValuesAreFinal DEF Counted, TallyRule
      <3> QED BY <1>12, <1>17, <1>18, <1>19, <3>1, <3>2
    <2> QED BY <2>1, <2>2, ValuesAreFinal DEF TallyRule
  <1>21. SUFFICES ASSUME Clean' PROVE Proven' /\ (\A k \in Match : InTime(k)') /\ CountRule'
    BY <1>20 DEF Counted
  <1>22. Proven /\ (\A k \in Match : InTime(k)) /\ CountRule
    BY <1>12, <1>21 DEF Clean, Counted
  <1>23. mem[m].result = None /\ mem[m] # None
    BY <1>12 DEF IsDue, IsOpen
  <1>24. \A k \in Match : Decided(k) => Decided(k)'
    BY <1>12, <1>13, <1>23, ValuesAreFinal DEF Decided
  <1>25. Proven'
    <2>1. CASE SomeDecided
      BY <1>24, <2>1 DEF SomeDecided, Proven
    <2>2. CASE ~SomeDecided
      <3>1. (\A p \in Player : dbGames[p] = Zero) /\ Preceded(queue, BigTally, ResultJob)
        BY <1>22, <2>2 DEF Proven
      <3>2. x \notin BigTally
        BY <1>14 DEF BigTally
      <3>3. Preceded(s, BigTally, ResultJob)
        BY <1>0, <1>14, <1>15, <3>1, <3>2, PrecededAppended
      <3>4. HasIn(s, ResultJob)
        BY <1>0, <1>14, <1>15, HasAppended
      <3>5. Preceded(queue', BigTally, ResultJob)
        BY <1>14, <1>16, <3>3, <3>4, PrecededAppended
      <3> QED BY <1>12, <3>1, <3>5 DEF Proven
    <2> QED BY <2>1, <2>2
  <1>26. ASSUME NEW k \in Match PROVE InTime(k)'
    <2>1. CASE k = m
      BY <1>14, <1>17, <2>1 DEF InTime
    <2>2. CASE k # m
      BY <1>13, <1>17, <1>22, <1>24, <2>2 DEF InTime
    <2> QED BY <2>1, <2>2
  <1>27. ASSUME AllHere'
         PROVE  /\ games'[1] = GamesIn(mem', 1)
                /\ \A k \in Match : HalfRated(k)' => rating'[k].second = GamesIn(mem', 2)
                /\ (\A k \in Match : ~HalfRated(k)') => games'[2] = GamesIn(mem', 2)
    <2>1. AllHere
      BY <1>12, <1>13, <1>23, <1>27 DEF AllHere
    <2>2. \A k \in Match : rating[k] = None
      BY <1>12, RatesAlone
    <2>3. games[1] = GamesIn(mem, 1) /\ games[2] = GamesIn(mem, 2)
      BY <1>22, <2>1, <2>2 DEF CountRule, HalfRated
    <2>4. m \notin Finals(mem)
      BY <1>23, ValuesAreFinal DEF Finals
    <2>5. \A p : GamesIn(mem', p) = OneMore(GamesIn(mem, p), p, v)
      BY <1>8, <1>13, <2>4, OneGameMore
    <2>6. games'[1] = GamesIn(mem', 1)
      BY <1>4, <1>19, <2>3, <2>5
    <2>7. d.second = GamesIn(mem', 2)
      BY <1>10, <2>3, <2>5
    <2>8. rating'[m] = d /\ \A k \in Match : k # m => rating'[k] = None
      BY <1>0, <1>11, <2>2 DEF Types, HandlerTypes
    <2>9. HalfRated(m)'
      <3>1. d.rated = {1}
        BY <1>10
      <3>2. d # None
        BY ValuesAreFinal
      <3> QED BY <2>8, <3>1, <3>2 DEF HalfRated
    <2>10. \A k \in Match : HalfRated(k)' => k = m
      BY <2>8 DEF HalfRated
    <2> QED BY <2>6, <2>7, <2>8, <2>9, <2>10
  <1>28. CountRule'
    BY <1>27 DEF CountRule
  <1> QED BY <1>25, <1>26, <1>28

\* One job of a player's games, once there is a final match.
LEMMA TallyQueued ==
  ASSUME SeqTypes, TallyRule, NEW p \in Player, NEW g \in Tally,
         games \in [Player -> Tally], games' = [games EXCEPT ![p] = g], dbGames' = dbGames,
         queue' = Append(queue, GamesJob(p, g))
  PROVE  /\ TallyRule'
         /\ Preceded(queue, BigTally, ResultJob) /\ HasIn(queue, ResultJob) =>
              Preceded(queue', BigTally, ResultJob)
         /\ \A S : HasIn(queue, S) => HasIn(queue', S)
  <1>1. PICK x : x = GamesJob(p, g)
    OBVIOUS
  <1>2. x \in Job /\ x \in TallyJob /\ x.player = p /\ x.games = g
    BY <1>1, TallyJobs
  <1>3. queue \in Seq(Job) /\ queue' = Append(queue, x)
    BY <1>1 DEF SeqTypes
  <1>4. \A S : HasIn(queue', S) <=> HasIn(queue, S) \/ x \in S
    BY <1>2, <1>3, HasAppended
  <1>5. \A S, T : /\ x \in T => EndsIn(queue', S, T)
                  /\ x \notin S /\ EndsIn(queue, S, T) => EndsIn(queue', S, T)
    BY <1>2, <1>3, EndsAppended
  <1>6. games'[p] = g /\ \A q \in Player : q # p => games'[q] = games[q]
    OBVIOUS
  <1>7. ASSUME NEW q \in Player
        PROVE  /\ HasIn(queue', TallyOf(q)) => EndsIn(queue', TallyOf(q), {GamesJob(q, games'[q])})
               /\ ~HasIn(queue', TallyOf(q)) => dbGames'[q] = games'[q]
    <2>1. CASE q = p
      <3>1. x \in TallyOf(q) /\ x \in {GamesJob(q, games'[q])}
        BY <1>1, <1>2, <1>6, <2>1 DEF TallyOf
      <3> QED BY <1>4, <1>5, <3>1
    <2>2. CASE q # p
      <3>1. x \notin TallyOf(q)
        BY <1>2, <2>2 DEF TallyOf
      <3>2. /\ HasIn(queue, TallyOf(q)) => EndsIn(queue, TallyOf(q), {GamesJob(q, games[q])})
            /\ ~HasIn(queue, TallyOf(q)) => dbGames[q] = games[q]
        BY DEF TallyRule
      <3> QED BY <1>4, <1>5, <1>6, <2>2, <3>1, <3>2
    <2> QED BY <2>1, <2>2
  <1>8. TallyRule'
    BY <1>7 DEF TallyRule
  <1>9. Preceded(queue, BigTally, ResultJob) /\ HasIn(queue, ResultJob) =>
              Preceded(queue', BigTally, ResultJob)
    BY <1>2, <1>3, PrecededAppended
  <1> QED BY <1>4, <1>8, <1>9

LEMMA RateSecondCounts ==
  ASSUME Rows, Counted, NEW m \in Match, RateSecond(m)
  PROVE  Counted'
  <1>0. Types /\ SeqTypes /\ games \in [Player -> Tally] /\ TallyRule
    BY DEF Rows, Types, TallyTypes, Counted
  <1>1. PICK d \in Rated : d = rating[m]
    BY <1>0 DEF RateSecond, Types, HandlerTypes
  <1>2. PICK e : e = [d EXCEPT !.rated = Player]
    OBVIOUS
  <1>3. e \in Rated /\ d.second \in Tally /\ e.rated = Player /\ d.rated = {1}
    BY <1>1, <1>2 DEF Rated, RateSecond
  <1>4. PICK g \in Tally : g = d.second
    BY <1>3
  <1>5. /\ rating' = [rating EXCEPT ![m] = e] /\ games' = [games EXCEPT ![2] = g]
        /\ queue' = Append(queue, GamesJob(2, g))
        /\ mem' = mem /\ db' = db /\ inserting' = inserting
        /\ lost' = lost /\ undone' = undone /\ dbGames' = dbGames
    BY <1>0, <1>1, <1>2, <1>4 DEF RateSecond, rowVars, historyVars, Types, HandlerTypes
  <1>6. /\ TallyRule'
        /\ Preceded(queue, BigTally, ResultJob) /\ HasIn(queue, ResultJob) =>
              Preceded(queue', BigTally, ResultJob)
        /\ \A S : HasIn(queue, S) => HasIn(queue', S)
    BY <1>0, <1>5, TallyQueued, ValuesAreFinal
  <1>7. SUFFICES ASSUME Clean' PROVE Proven' /\ (\A k \in Match : InTime(k)') /\ CountRule'
    BY <1>6 DEF Counted
  <1>8. Proven /\ (\A k \in Match : InTime(k)) /\ CountRule
    BY <1>5, <1>7 DEF Clean, Counted
  <1>9. \A k \in Match : Decided(k)' <=> Decided(k)
    BY <1>5 DEF Decided
  <1>10. SomeDecided \/ HasIn(queue, ResultJob)
    <2>1. mem[m] # None /\ mem[m].result \in Final
      BY <1>1, ValuesAreFinal DEF Rows, RowInv, RowRule, RateSecond
    <2>2. HasIn(queue, ResultFor(m)) \/ Decided(m)
      BY <1>8, <2>1 DEF InTime
    <2>3. ResultFor(m) \subseteq ResultJob
      BY DEF ResultFor
    <2> QED BY <2>2, <2>3, HasSubset DEF SomeDecided
  <1>11. Proven'
    BY <1>5, <1>6, <1>8, <1>9, <1>10 DEF Proven, SomeDecided
  <1>12. \A k \in Match : InTime(k)'
    BY <1>5, <1>6, <1>8, <1>9 DEF InTime
  <1>13. ASSUME AllHere'
         PROVE  /\ games'[1] = GamesIn(mem', 1)
                /\ \A k \in Match : HalfRated(k)' => rating'[k].second = GamesIn(mem', 2)
                /\ games'[2] = GamesIn(mem', 2)
    <2>1. AllHere
      BY <1>5, <1>13 DEF AllHere
    <2>2. HalfRated(m)
      BY DEF HalfRated, RateSecond
    <2>3. games[1] = GamesIn(mem, 1) /\ g = GamesIn(mem, 2)
      BY <1>1, <1>4, <1>8, <2>1, <2>2 DEF CountRule
    <2>4. games'[1] = games[1] /\ games'[2] = g
      BY <1>0, <1>5, ValuesAreFinal
    <2>5. ASSUME NEW k \in Match, HalfRated(k)' PROVE rating'[k].second = GamesIn(mem', 2)
      <3>1. CASE k = m
        <4>1. rating'[k] = e
          BY <1>0, <1>5, <3>1 DEF Types, HandlerTypes
        <4> QED BY <1>3, <2>5, <4>1, ValuesAreFinal DEF HalfRated
      <3>2. CASE k # m
        <4>1. rating'[k] = rating[k]
          BY <1>0, <1>5, <3>2 DEF Types, HandlerTypes
        <4>2. HalfRated(k)
          BY <2>5, <4>1 DEF HalfRated
        <4> QED BY <1>5, <1>8, <2>1, <4>1, <4>2 DEF CountRule
      <3> QED BY <3>1, <3>2
    <2> QED BY <1>5, <2>3, <2>4, <2>5
  <1>14. CountRule'
    BY <1>13 DEF CountRule
  <1> QED BY <1>11, <1>12, <1>14

\* The jobs of a recount are the last of both players.
LEMMA RecountTally ==
  ASSUME NEW s \in Seq(Job), NEW rows, Finals(rows) # {}, NEW t, t = s \o RecountJobs(rows)
  PROVE  /\ \A p \in Player : /\ HasIn(t, TallyOf(p))
                              /\ EndsIn(t, TallyOf(p), {GamesJob(p, GamesIn(rows, p))})
         /\ \A S : HasIn(s, S) => HasIn(t, S)
         /\ Preceded(s, BigTally, ResultJob) /\ HasIn(s, ResultJob) => Preceded(t, BigTally, ResultJob)
  <1>1. PICK x : x = GamesJob(1, GamesIn(rows, 1))
    OBVIOUS
  <1>2. PICK y : y = GamesJob(2, GamesIn(rows, 2))
    OBVIOUS
  <1>3. /\ x \in TallyJob /\ x \in Job /\ x.player = 1
        /\ y \in TallyJob /\ y \in Job /\ y.player = 2
    BY <1>1, <1>2, TallyJobs, TallyCounted, ValuesAreFinal
  <1>4. t = s \o <<x, y>>
    BY <1>1, <1>2 DEF RecountJobs
  <1>5. PICK u \in Seq(Job) : u = Append(s, x)
    BY <1>3, Appended
  <1>6. t = Append(u, y)
    BY <1>3, <1>4, <1>5, TwoQueued
  <1>7. /\ \A S : HasIn(u, S) <=> HasIn(s, S) \/ x \in S
        /\ \A S : HasIn(t, S) <=> HasIn(u, S) \/ y \in S
    <2>1. \A S : HasIn(u, S) <=> HasIn(s, S) \/ x \in S
      BY <1>3, <1>5, HasAppended
    <2>2. \A S : HasIn(t, S) <=> HasIn(u, S) \/ y \in S
      BY <1>3, <1>6, HasAppended
    <2> QED BY <2>1, <2>2
  <1>8. /\ \A S, T : x \in T => EndsIn(u, S, T)
        /\ \A S, T : y \in T => EndsIn(t, S, T)
        /\ \A S, T : y \notin S /\ EndsIn(u, S, T) => EndsIn(t, S, T)
    BY <1>3, <1>5, <1>6, EndsAppended
  <1>9. x \in TallyOf(1) /\ y \in TallyOf(2) /\ y \notin TallyOf(1)
    BY <1>3 DEF TallyOf
  <1>10. \A p \in Player : /\ HasIn(t, TallyOf(p))
                           /\ EndsIn(t, TallyOf(p), {GamesJob(p, GamesIn(rows, p))})
    <2>1. /\ HasIn(t, TallyOf(1)) /\ EndsIn(t, TallyOf(1), {GamesJob(1, GamesIn(rows, 1))})
      <3>1. x \in {GamesJob(1, GamesIn(rows, 1))}
        BY <1>1
      <3>2. EndsIn(u, TallyOf(1), {GamesJob(1, GamesIn(rows, 1))})
        BY <1>8, <3>1
      <3> QED BY <1>7, <1>8, <1>9, <3>2
    <2>2. /\ HasIn(t, TallyOf(2)) /\ EndsIn(t, TallyOf(2), {GamesJob(2, GamesIn(rows, 2))})
      <3>1. y \in {GamesJob(2, GamesIn(rows, 2))}
        BY <1>2
      <3> QED BY <1>7, <1>8, <1>9, <3>1
    <2> QED BY <2>1, <2>2, ValuesAreFinal
  <1>11. Preceded(s, BigTally, ResultJob) /\ HasIn(s, ResultJob) => Preceded(t, BigTally, ResultJob)
    <2>1. SUFFICES ASSUME Preceded(s, BigTally, ResultJob), HasIn(s, ResultJob)
                   PROVE  Preceded(t, BigTally, ResultJob)
      OBVIOUS
    <2>2. Preceded(u, BigTally, ResultJob)
      BY <1>3, <1>5, <2>1, PrecededAppended
    <2>3. HasIn(u, ResultJob)
      BY <1>7, <2>1
    <2> QED BY <1>3, <1>6, <2>2, <2>3, PrecededAppended
  <1> QED BY <1>7, <1>10, <1>11

LEMMA MidnightCounts ==
  ASSUME Rows, Counted, Midnight
  PROVE  Counted'
  <1>1. /\ mem' = mem /\ db' = db /\ inserting' = inserting /\ rating' = rating
        /\ lost' = lost /\ undone' = undone /\ dbGames' = dbGames
        /\ games' = Recounted(mem, games) /\ queue' = queue \o RecountJobs(mem)
    BY DEF Midnight, rowVars, historyVars
  <1>2. queue \in Seq(Job) /\ games \in [Player -> Tally]
    BY DEF Rows, Types, SeqTypes, TallyTypes
  <1>3. \A p \in Player : games'[p] = IF Finals(mem) = {} THEN games[p] ELSE GamesIn(mem, p)
    BY <1>1, <1>2, RecountedTypes
  <1>4. /\ \A k \in Match : Decided(k)' <=> Decided(k)
        /\ AllHere' <=> AllHere
        /\ \A k \in Match : HalfRated(k)' <=> HalfRated(k)
    BY <1>1 DEF Decided, AllHere, HalfRated
  <1>5. CASE Finals(mem) = {}
    <2>1. queue' = queue
      BY <1>1, <1>2, <1>5 DEF RecountJobs
    <2>2. games' = games
      BY <1>1, <1>2, <1>3, <1>5, RecountedTypes
    <2> QED BY <1>1, <1>4, <2>1, <2>2, Uncounted
  <1>6. CASE Finals(mem) # {}
    <2>1. /\ \A p \in Player : /\ HasIn(queue', TallyOf(p))
                               /\ EndsIn(queue', TallyOf(p), {GamesJob(p, GamesIn(mem, p))})
          /\ \A S : HasIn(queue, S) => HasIn(queue', S)
          /\ Preceded(queue, BigTally, ResultJob) /\ HasIn(queue, ResultJob) =>
               Preceded(queue', BigTally, ResultJob)
      <3>1. PICK t : t = queue \o RecountJobs(mem)
        OBVIOUS
      <3>2. /\ \A p \in Player : /\ HasIn(t, TallyOf(p))
                                 /\ EndsIn(t, TallyOf(p), {GamesJob(p, GamesIn(mem, p))})
            /\ \A S : HasIn(queue, S) => HasIn(t, S)
            /\ Preceded(queue, BigTally, ResultJob) /\ HasIn(queue, ResultJob) =>
                 Preceded(t, BigTally, ResultJob)
        BY <1>2, <1>6, <3>1, RecountTally
      <3> QED BY <1>1, <3>1, <3>2
    <2>2. \A p \in Player : games'[p] = GamesIn(mem, p)
      BY <1>3, <1>6
    <2>3. TallyRule'
      BY <2>1, <2>2 DEF TallyRule
    <2>4. SUFFICES ASSUME Clean' PROVE Proven' /\ (\A k \in Match : InTime(k)') /\ CountRule'
      BY <2>3 DEF Counted
    <2>5. Proven /\ (\A k \in Match : InTime(k)) /\ CountRule
      BY <1>1, <2>4 DEF Clean, Counted
    <2>6. SomeDecided \/ HasIn(queue, ResultJob)
      <3>1. PICK m \in Match : mem[m] # None /\ mem[m].result \in Final
        BY <1>6 DEF Finals
      <3>2. HasIn(queue, ResultFor(m)) \/ Decided(m)
        BY <2>5, <3>1 DEF InTime
      <3>3. ResultFor(m) \subseteq ResultJob
        BY DEF ResultFor
      <3> QED BY <3>2, <3>3, HasSubset DEF SomeDecided
    <2>7. Proven'
      BY <1>1, <1>4, <2>1, <2>5, <2>6 DEF Proven, SomeDecided
    <2>8. \A k \in Match : InTime(k)'
      BY <1>1, <1>4, <2>1, <2>5 DEF InTime
    <2>9. CountRule'
      BY <1>1, <1>4, <2>2, <2>5, ValuesAreFinal DEF CountRule
    <2> QED BY <2>7, <2>8, <2>9
  <1> QED BY <1>5, <1>6

LEMMA RestartCounts ==
  ASSUME Rows, Counted, Restart
  PROVE  Counted'
  <1>1. /\ mem' = db /\ db' = db /\ games' = Recounted(db, dbGames) /\ dbGames' = dbGames
        /\ queue' = RecountJobs(db) /\ inserting' = None
        /\ rating' = [m \in Match |-> None] /\ lost' = lost /\ undone' = undone
    BY DEF Restart, historyVars
  <1>2. dbGames \in [Player -> Tally]
    BY DEF Rows, Types, TallyTypes
  <1>3. \A p \in Player : games'[p] = IF Finals(db) = {} THEN dbGames[p] ELSE GamesIn(db, p)
    BY <1>1, <1>2, RecountedTypes
  <1>4. \A k \in Match : db[k] # None /\ db[k].result \in Final => Decided(k)'
    BY <1>1 DEF Decided
  <1>5. \A k \in Match : InTime(k)'
    BY <1>1, <1>4 DEF InTime
  <1>6. \A k \in Match : ~HalfRated(k)'
    BY <1>1 DEF HalfRated
  <1>7. CASE Finals(db) = {}
    <2>1. queue' = <<>>
      BY <1>1, <1>7 DEF RecountJobs
    <2>2. TallyRule'
      BY <1>1, <1>3, <1>7, <2>1, EmptyHas DEF TallyRule
    <2>3. ASSUME Clean' PROVE Proven' /\ CountRule'
      <3>1. Proven
        BY <1>1, <2>3 DEF Clean, Counted
      <3>2. ~SomeDecided
        BY <1>7 DEF SomeDecided, Decided, Finals
      <3>3. \A p \in Player : dbGames[p] = Zero
        BY <3>1, <3>2 DEF Proven
      <3>4. Preceded(queue', BigTally, ResultJob)
        BY <2>1 DEF Preceded
      <3>5. \A p \in Player : games'[p] = GamesIn(mem', p)
        BY <1>1, <1>3, <1>7, <3>3, NoGames
      <3>6. CountRule'
        BY <1>6, <3>5, ValuesAreFinal DEF CountRule
      <3> QED BY <1>1, <3>3, <3>4, <3>6 DEF Proven
    <2> QED BY <1>5, <2>2, <2>3 DEF Counted
  <1>8. CASE Finals(db) # {}
    <2>1. queue' = <<>> \o RecountJobs(db)
      BY <1>1, RecountedJobs
    <2>2. \A p \in Player : /\ HasIn(queue', TallyOf(p))
                            /\ EndsIn(queue', TallyOf(p), {GamesJob(p, GamesIn(db, p))})
      <3>1. PICK t : t = <<>> \o RecountJobs(db)
        OBVIOUS
      <3>2. <<>> \in Seq(Job)
        OBVIOUS
      <3>3. \A p \in Player : /\ HasIn(t, TallyOf(p))
                              /\ EndsIn(t, TallyOf(p), {GamesJob(p, GamesIn(db, p))})
        BY <1>8, <3>1, <3>2, RecountTally
      <3> QED BY <2>1, <3>1, <3>3
    <2>3. \A p \in Player : games'[p] = GamesIn(db, p)
      BY <1>3, <1>8
    <2>4. TallyRule'
      BY <2>2, <2>3 DEF TallyRule
    <2>5. SomeDecided'
      BY <1>4, <1>8 DEF Finals, SomeDecided
    <2>6. CountRule'
      BY <1>1, <1>6, <2>3, ValuesAreFinal DEF CountRule
    <2> QED BY <1>5, <2>4, <2>5, <2>6 DEF Counted, Proven
  <1> QED BY <1>7, <1>8

\* A result the database has decided is not taken back unnoticed.
LEMMA DecidedStays ==
  ASSUME Rows, WriteNext, Head(queue) \notin TallyJob, undone' = {}, NEW k \in Match, Decided(k)
  PROVE  Decided(k)'
  <1>1. PICK x \in Job : x = Head(queue) /\ x \notin TallyJob
    BY WriteStep DEF Rows, Types
  <1>2. PICK m \in Match : m = x.match /\ x \in JobOf(m)
    BY <1>1, JobKinds
  <1>3. /\ db[m] \in Row /\ x \in RowJob
        /\ db' = [db EXCEPT ![m] = Written(x)] /\ db'[m] = Written(x) /\ mem' = mem
        /\ undone' = IF TakesBack(x) THEN undone \cup {m} ELSE undone
        /\ \A S : Comes(S) <=> x \in S \/ Comes(S)'
        /\ RowRule(m) /\ SystemRule(m)
    BY <1>1, <1>2, WritesOf DEF Rows
  <1>4. CASE k # m
    <2>1. db'[k] = db[k]
      BY <1>3, <1>4 DEF Rows, Types, RowTypes
    <2> QED BY <1>3, <2>1 DEF Decided
  <1>5. CASE k = m
    <2>1. PICK d \in Row : d = db[m] /\ d.result \in Final /\ (mem[m] # None => mem[m].result = d.result)
      BY <1>3, <1>5 DEF Decided
    <2>2. PICK e \in Row : e = db'[m]
      BY <1>1, <1>2, WrittenRow DEF Rows
    <2>3. e # None
      BY ValuesAreFinal
    <2>4. CASE x \in ReportJob
      <3>1. ~TakesBack(x)
        BY <1>3
      <3>2. x.op = "report"
        BY <2>4, JobOps
      <3>3. Written(x).result = db[m].result
        BY <1>2, <2>1, <3>1, <3>2 DEF TakesBack
      <3> QED BY <1>3, <1>5, <2>1, <2>2, <2>3, <3>3 DEF Decided
    <2>5. CASE x \in AbortJob
      <3>1. x.op = "abort"
        BY <2>5, JobOps
      <3>2. ~MayAbort(m)
        BY <2>1, ValuesAreFinal DEF MayAbort
      <3>3. Written(x) = db[m]
        BY <1>2, <3>1, <3>2 DEF Written
      <3> QED BY <1>3, <1>5, <2>1, <2>2, <2>3, <3>3 DEF Decided
    <2>6. CASE x \in SystemJob
      <3>1. x \in SystemOf(m)
        BY <1>2, <2>6 DEF SystemOf
      <3>2. Comes(SystemOf(m))
        BY <1>3, <3>1
      <3> QED BY <1>3, <2>1, <3>2 DEF SystemRule
    <2>7. CASE x \in ResultJob
      <3>1. x.op = "result" /\ x.value \in Value
        BY <2>7, JobOps
      <3>2. e = [d EXCEPT !.result = x.value]
        BY <1>2, <1>3, <2>1, <2>2, <3>1 DEF Written
      <3>3. e.result = x.value /\ e.result \in Final
        BY <3>1, <3>2, RowDecided, ValuesAreFinal DEF Verdicts
      <3>4. ASSUME mem[m] # None PROVE mem[m].result = x.value
        <4>1. PICK r \in Row : r = mem[m]
          BY <3>4 DEF Rows, Types, RowTypes
        <4>2. Told(m, r)
          BY <4>1 DEF Rows, RowInv, Owed
        <4>3. x \in ThatResult(m, x.value)
          BY <1>2, <2>7 DEF ThatResult
        <4>4. Comes(ThatResult(m, x.value))
          BY <1>3, <4>3
        <4> QED BY <3>1, <4>1, <4>2, <4>4 DEF Told
      <3> QED BY <1>3, <1>5, <2>2, <2>3, <3>3, <3>4 DEF Decided
    <2>8. CASE x \in ChangeJob
      <3>1. x.op = "change"
        BY <2>8, JobOps
      <3>2. e = [d EXCEPT !.change = TRUE]
        BY <1>2, <1>3, <2>1, <2>2, <3>1 DEF Written
      <3>3. e.result = d.result
        BY <3>2, RowChanged
      <3> QED BY <1>3, <1>5, <2>1, <2>2, <2>3, <3>3 DEF Decided
    <2> QED BY <1>3, <2>4, <2>5, <2>6, <2>7, <2>8 DEF RowJob
  <1> QED BY <1>4, <1>5

LEMMA ResultDecides ==
  ASSUME Rows, WriteNext, NEW m \in Match, Head(queue) \in ResultFor(m)
  PROVE  Decided(m)'
  <1>1. PICK x : x = Head(queue)
    OBVIOUS
  <1>2. x \in ResultJob /\ x.match = m /\ x.op = "result" /\ x.value \in Value /\ x \in JobOf(m)
        /\ x \in ThatResult(m, x.value)
    BY <1>1, JobOps DEF ResultFor, RowJob, JobOf, ThatResult
  <1>3. /\ db[m] \in Row /\ db'[m] = Written(x) /\ mem' = mem
        /\ \A S : Comes(S) <=> x \in S \/ Comes(S)'
    BY <1>1, <1>2, WritesOf DEF Rows
  <1>4. PICK d \in Row : d = db[m]
    BY <1>3
  <1>5. PICK e : e = [d EXCEPT !.result = x.value]
    OBVIOUS
  <1>6. e \in Row /\ e.result = x.value /\ e # None
    BY <1>2, <1>5, RowDecided, ValuesAreFinal DEF Verdicts
  <1>7. db'[m] = e
    BY <1>2, <1>3, <1>4, <1>5 DEF Written
  <1>8. ASSUME mem[m] # None PROVE mem[m].result = x.value
    <2>1. PICK r \in Row : r = mem[m]
      BY <1>8 DEF Rows, Types, RowTypes
    <2>2. Told(m, r)
      BY <2>1 DEF Rows, RowInv, Owed
    <2>3. Comes(ThatResult(m, x.value))
      BY <1>2, <1>3
    <2> QED BY <1>2, <2>1, <2>2, <2>3 DEF Told
  <1> QED BY <1>2, <1>3, <1>6, <1>7, <1>8, ValuesAreFinal DEF Decided

LEMMA WriteCounts ==
  ASSUME Rows, Rows', Counted, WriteNext
  PROVE  Counted'
  <1>1. /\ queue # <<>> /\ queue' = Tail(queue) /\ mem' = mem /\ games' = games
        /\ inserting' = inserting /\ rating' = rating
    BY WriteStep DEF Rows, Types
  <1>2. PICK x \in Job : x = Head(queue)
    BY WriteStep DEF Rows, Types
  <1>3. queue \in Seq(Job)
    BY DEF Rows, Types, SeqTypes
  <1>4. \A S : HasIn(queue, S) <=> x \in S \/ HasIn(queue', S)
    BY <1>1, <1>2, <1>3, HasTailed
  <1>5. \A S, T : T \subseteq S /\ EndsIn(queue, S, T) =>
           /\ HasIn(queue', S) => EndsIn(queue', S, T)
           /\ ~HasIn(queue', S) => x \in T
    BY <1>1, <1>2, <1>3, EndsTailed
  <1>6. Preceded(queue, BigTally, ResultJob) =>
           x \notin BigTally /\ (x \notin ResultJob => Preceded(queue', BigTally, ResultJob))
    BY <1>1, <1>2, <1>3, PrecededTailed
  <1>7. \A p \in Player : {GamesJob(p, games[p])} \subseteq TallyOf(p)
    <2>1. \A p \in Player : games[p] \in Tally
      BY DEF Rows, Types, TallyTypes
    <2> QED BY <2>1, TallyJobs DEF TallyOf
  <1>8. \A k \in Match : HalfRated(k)' <=> HalfRated(k)
    BY <1>1 DEF HalfRated
  <1>9. \A S : S \subseteq RowJob /\ x \in TallyJob => x \notin S
    BY JobOps DEF RowJob
  <1>10. CASE x \in TallyJob
    <2>1. /\ db' = db /\ lost' = lost /\ undone' = undone
          /\ dbGames' = [dbGames EXCEPT ![x.player] = x.games]
      BY <1>2, <1>10, WriteTally DEF Rows, Types
    <2>2. x.player \in Player /\ x.games \in Tally /\ dbGames \in [Player -> Tally]
      BY <1>10, JobOps DEF Rows, Types, TallyTypes
    <2>3. ASSUME NEW p \in Player
          PROVE  /\ HasIn(queue', TallyOf(p)) => EndsIn(queue', TallyOf(p), {GamesJob(p, games[p])})
                 /\ ~HasIn(queue', TallyOf(p)) => dbGames'[p] = games[p]
      <3>1. /\ HasIn(queue, TallyOf(p)) => EndsIn(queue, TallyOf(p), {GamesJob(p, games[p])})
            /\ ~HasIn(queue, TallyOf(p)) => dbGames[p] = games[p]
        BY DEF Counted, TallyRule
      <3>2. CASE x \in TallyOf(p)
        <4>1. EndsIn(queue, TallyOf(p), {GamesJob(p, games[p])})
          BY <1>4, <3>1, <3>2
        <4>2. ASSUME ~HasIn(queue', TallyOf(p)) PROVE dbGames'[p] = games[p]
          <5>1. x = GamesJob(p, games[p])
            BY <1>5, <1>7, <4>1, <4>2
          <5>2. x.player = p /\ x.games = games[p]
            BY <5>1 DEF GamesJob
          <5> QED BY <2>1, <2>2, <5>2
        <4> QED BY <1>5, <1>7, <4>1, <4>2
      <3>3. CASE x \notin TallyOf(p)
        <4>1. x.player # p
          BY <1>10, <3>3 DEF TallyOf
        <4>2. dbGames'[p] = dbGames[p]
          BY <2>1, <2>2, <4>1
        <4> QED BY <1>4, <1>5, <1>7, <3>1, <3>3, <4>2
      <3> QED BY <3>2, <3>3
    <2>4. TallyRule'
      BY <1>1, <2>3 DEF TallyRule
    <2>5. SUFFICES ASSUME Clean' PROVE Proven' /\ (\A k \in Match : InTime(k)') /\ CountRule'
      BY <2>4 DEF Counted
    <2>6. Proven /\ (\A k \in Match : InTime(k)) /\ CountRule
      BY <2>1, <2>5 DEF Clean, Counted
    <2>7. (\A k \in Match : Decided(k)' <=> Decided(k)) /\ (AllHere' <=> AllHere)
      BY <1>1, <2>1 DEF Decided, AllHere
    <2>8. x \notin ResultJob /\ \A k : x \notin ResultFor(k)
      BY <1>9, <1>10 DEF RowJob, ResultFor
    <2>9. Proven'
      <3>1. CASE SomeDecided
        BY <2>7, <3>1 DEF SomeDecided, Proven
      <3>2. CASE ~SomeDecided
        <4>1. (\A p \in Player : dbGames[p] = Zero) /\ Preceded(queue, BigTally, ResultJob)
          BY <2>6, <3>2 DEF Proven
        <4>2. x.games = Zero
          BY <1>6, <1>10, <4>1 DEF BigTally
        <4>3. \A p \in Player : dbGames'[p] = Zero
          BY <2>1, <2>2, <4>1, <4>2
        <4> QED BY <1>6, <2>8, <4>1, <4>3 DEF Proven
      <3> QED BY <3>1, <3>2
    <2>10. \A k \in Match : InTime(k)'
      BY <1>1, <1>4, <2>6, <2>7, <2>8 DEF InTime
    <2>11. CountRule'
      BY <1>1, <1>8, <2>6, <2>7 DEF CountRule
    <2> QED BY <2>9, <2>10, <2>11
  <1>11. CASE x \notin TallyJob
    <2>1. PICK m \in Match : m = x.match /\ x \in JobOf(m)
      BY <1>11, JobKinds
    <2>2. /\ db' = [db EXCEPT ![m] = Written(x)] /\ dbGames' = dbGames
          /\ lost' = IF GoesWrong(x) THEN lost \cup {m} ELSE lost
          /\ undone' = IF TakesBack(x) THEN undone \cup {m} ELSE undone
      BY <1>2, <1>11, <2>1, WriteRow DEF Rows, Types
    <2>3. db[m] # None /\ db'[m] # None
      BY <1>2, <2>1, WritesOf, WrittenRow, ValuesAreFinal DEF Rows
    <2>4. \A p : x \notin TallyOf(p)
      BY <1>11 DEF TallyOf
    <2>5. TallyRule'
      BY <1>1, <1>4, <1>5, <1>7, <2>2, <2>4 DEF Counted, TallyRule
    <2>6. SUFFICES ASSUME Clean' PROVE Proven' /\ (\A k \in Match : InTime(k)') /\ CountRule'
      BY <2>5 DEF Counted
    <2>7. Proven /\ (\A k \in Match : InTime(k)) /\ CountRule /\ undone' = {}
      BY <2>2, <2>6 DEF Clean, Counted
    <2>8. \A k \in Match : Decided(k) => Decided(k)'
      BY <1>2, <1>11, <2>7, DecidedStays
    <2>9. \A k \in Match : x \in ResultFor(k) => Decided(k)'
      BY <1>2, ResultDecides
    <2>10. AllHere' <=> AllHere
      <3>1. \A k \in Match : db'[k] # None <=> db[k] # None
        BY <2>2, <2>3 DEF Rows, Types, RowTypes
      <3> QED BY <1>1, <3>1 DEF AllHere
    <2>11. Proven'
      <3>1. CASE SomeDecided
        BY <2>8, <3>1 DEF SomeDecided, Proven
      <3>2. CASE x \in ResultJob
        <4>1. x \in ResultFor(m)
          BY <2>1, <3>2 DEF ResultFor
        <4> QED BY <2>9, <4>1 DEF SomeDecided, Proven
      <3>3. CASE ~SomeDecided /\ x \notin ResultJob
        BY <1>6, <2>2, <2>7, <3>3 DEF Proven
      <3> QED BY <3>1, <3>2, <3>3
    <2>12. \A k \in Match : InTime(k)'
      BY <1>1, <1>4, <2>7, <2>8, <2>9 DEF InTime
    <2>13. CountRule'
      BY <1>1, <1>8, <2>7, <2>10 DEF CountRule
    <2> QED BY <2>11, <2>12, <2>13
  <1> QED BY <1>10, <1>11

LEMMA NextCounts ==
  ASSUME Rows, Rows', Single, Counted, [Next]_vars
  PROVE  Counted'
  <1>1. ASSUME NEW m \in Match, MatchStep(m) PROVE Counted'
    <2>1. CASE \/ \E p \in Player : (\E v \in Value : Report(m, p, v)) \/ Abort(m, p)
               \/ \E absent \in SUBSET Player \ {{}} : SystemAbort(m, absent)
      BY <2>1, OpenSteps
    <2>2. CASE InsertMatch(m)
      BY <2>2, CreationSteps
    <2>3. CASE TimePasses(m) \/ EndConflict(m)
      BY <2>3, SilentSteps
    <2>4. CASE RateFirst(m)
      BY <2>4, RateFirstStepCounts
    <2>5. CASE RateSecond(m)
      BY <2>5, RateSecondCounts
    <2>6. CASE RecordChange(m)
      BY <2>6, ChangeStep
    <2> QED BY <1>1, <2>1, <2>2, <2>3, <2>4, <2>5, <2>6 DEF MatchStep
  <1>2. CASE LoadMatch
    BY <1>2, CreationSteps
  <1>3. CASE RunDeferred \/ UNCHANGED vars
    BY <1>3, SilentSteps
  <1> QED BY <1>1, <1>2, <1>3, MidnightCounts, RestartCounts, WriteCounts DEF Next

LEMMA InitCounts == Init => Counted
  <1> SUFFICES ASSUME Init PROVE Counted
    OBVIOUS
  <1>1. /\ mem = [m \in Match |-> None] /\ db = [m \in Match |-> None]
        /\ games = [p \in Player |-> [played |-> 0, won |-> 0]] /\ dbGames = games
        /\ queue = <<>> /\ rating = [m \in Match |-> None]
    BY DEF Init
  <1>2. TallyRule
    BY <1>1, EmptyHas DEF TallyRule
  <1>3. Preceded(queue, BigTally, ResultJob)
    BY <1>1 DEF Preceded
  <1>4. \A p \in Player : games[p] = Zero /\ dbGames[p] = Zero
    BY <1>1 DEF Zero
  <1>5. Finals(mem) = {}
    BY <1>1 DEF Finals
  <1>6. \A p : GamesIn(mem, p) = Zero
    BY <1>5, NoGames
  <1>7. CountRule
    BY <1>1, <1>4, <1>6, ValuesAreFinal DEF CountRule, HalfRated
  <1>8. \A m \in Match : InTime(m)
    BY <1>1 DEF InTime
  <1> QED BY <1>2, <1>3, <1>4, <1>7, <1>8 DEF Counted, Proven

\* No game is counted twice or left out (_calculate_and_write_mmr and
\* reconcile_mmr_stats_from_matches), for any number of matches, reports,
\* midnights and restarts.
THEOREM EveryGameCounts == Spec => []GamesAreCounted
  <1>1. Inv /\ Inv' /\ Counted /\ [Next]_vars => Counted'
    BY NextCounts DEF Inv
  <1>2. Inv /\ Counted => GamesAreCounted
    <2>1. SUFFICES ASSUME Inv, Counted, lost = {}, undone = {},
                          \A m \in Match : rating[m] = None,
                          \A m \in Match : db[m] # None /\ m # inserting => mem[m] # None
                   PROVE  /\ \A p \in Player : games[p] = GamesIn(mem, p)
                          /\ queue = <<>> => dbGames = games
      BY DEF GamesAreCounted
    <2>2. AllHere /\ Clean /\ \A m \in Match : ~HalfRated(m)
      BY <2>1 DEF AllHere, Clean, HalfRated
    <2>3. games[1] = GamesIn(mem, 1) /\ games[2] = GamesIn(mem, 2)
      BY <2>1, <2>2 DEF Counted, CountRule
    <2>4. ASSUME queue = <<>> PROVE dbGames = games
      <3>1. \A p \in Player : dbGames[p] = games[p]
        BY <2>1, <2>4, EmptyHas DEF Counted, TallyRule
      <3> QED BY <2>1, <3>1 DEF Inv, Rows, Types, TallyTypes
    <2> QED BY <2>3, <2>4, ValuesAreFinal
  <1>3. Spec => []Counted
    BY Invariant, InitCounts, <1>1, PTL DEF Spec
  <1> QED BY Invariant, <1>2, <1>3, PTL
=============================================================================
