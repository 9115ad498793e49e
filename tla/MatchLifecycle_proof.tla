------------------------ MODULE MatchLifecycle_proof ------------------------
(***************************************************************************)
(* What holds of MatchLifecycle for every number of players, matches, lock *)
(* objects and every bound.                                                *)
(***************************************************************************)
EXTENDS MatchLifecycle, TLAPS, SequenceTheorems, FiniteSetTheorems, WellFoundedInduction

-----------------------------------------------------------------------------
(* Removing the monitor task from the FIFO of a lock *)

\* RemoveFirst drops one occurrence of e, if there is one.
LEMMA RemoveFirstAt ==
  ASSUME NEW S, NEW q \in Seq(S), NEW e, \E i \in 1..Len(q) : q[i] = e
  PROVE  /\ RemoveFirst(q, e) \in Seq(S)
         /\ \E i \in 1..Len(q) :
              /\ q[i] = e /\ Len(RemoveFirst(q, e)) = Len(q) - 1
              /\ \A j \in 1..(Len(q) - 1) :
                   RemoveFirst(q, e)[j] = IF j < i THEN q[j] ELSE q[j + 1]
<1> DEFINE I == {i \in 1..Len(q) : q[i] = e}
           i == Min(I)
<1>1. RemoveFirst(q, e) = SubSeq(q, 1, i - 1) \o SubSeq(q, i + 1, Len(q))
  BY DEF RemoveFirst, SelectInSeq, RemoveAt
<1>2. i \in 1..Len(q) /\ q[i] = e
  <2>1. \E x \in I : \A y \in I : x =< y
    <3> DEFINE R == OpToRel(<, Nat)
    <3>1. I \subseteq Nat /\ I # {}
      OBVIOUS
    <3>2. \E x \in I : \A y \in I : ~(<<y, x>> \in R)
      BY <3>1, NatLessThanWellFounded, WFMin
    <3>3. \A x, y \in Nat : y < x => <<y, x>> \in R
      BY DEF OpToRel
    <3> HIDE DEF R
    <3>4. PICK x \in I : \A y \in I : ~(<<y, x>> \in R)
      BY <3>2
    <3>5. \A y \in I : x =< y
      <4> SUFFICES ASSUME NEW y \in I PROVE x =< y
        OBVIOUS
      <4>1. x \in Nat /\ y \in Nat
        BY <3>1
      <4> HIDE DEF I
      <4>2. ~(y < x)
        BY <3>3, <3>4, <4>1
      <4> QED BY <4>1, <4>2
    <3> HIDE DEF I
    <3> QED BY <3>5
  <2> QED BY <2>1 DEF Min
<1>3. \A j \in 1..Len(q) : q[j] \in S
  BY ElementOfSeq
<1> HIDE DEF i
<1>4. /\ SubSeq(q, 1, i - 1) \in Seq(S) /\ Len(SubSeq(q, 1, i - 1)) = i - 1
      /\ \A j \in 1..(i-1) : SubSeq(q, 1, i - 1)[j] = q[j]
  <2>1. \A j \in 1..(i - 1) : q[j] \in S
    BY <1>2, <1>3
  <2> QED BY <1>2, <2>1, SubSeqProperties
<1>5. /\ SubSeq(q, i + 1, Len(q)) \in Seq(S) /\ Len(SubSeq(q, i + 1, Len(q))) = Len(q) - i
      /\ \A j \in 1..(Len(q) - i) : SubSeq(q, i + 1, Len(q))[j] = q[i + j]
  <2>1. \A j \in (i + 1)..Len(q) : q[j] \in S
    BY <1>2, <1>3
  <2>2. Len(q) \in Int /\ i + 1 \in Int
    BY <1>2
  <2>3. /\ SubSeq(q, i + 1, Len(q)) \in Seq(S)
        /\ Len(SubSeq(q, i + 1, Len(q))) = IF i + 1 <= Len(q) THEN Len(q) - (i+1) + 1 ELSE 0
        /\ \A j \in 1..Len(q)-(i+1)+1 : SubSeq(q, i + 1, Len(q))[j] = q[(i+1) + j - 1]
    BY <2>1, <2>2, SubSeqProperties
  <2>0. i \in Int /\ Len(q) \in Nat /\ i =< Len(q)
    BY <1>2
  <2>4. Len(q) - (i+1) + 1 = Len(q) - i /\ (~(i + 1 <= Len(q)) => Len(q) - i = 0)
    BY <2>0
  <2>5. \A j \in 1..(Len(q) - i) : (i+1) + j - 1 = i + j
    BY <2>0
  <2>6. Len(SubSeq(q, i + 1, Len(q))) = Len(q) - i
    BY <2>3, <2>4
  <2>7. \A j \in 1..(Len(q) - i) : SubSeq(q, i + 1, Len(q))[j] = q[i + j]
    BY <2>3, <2>4, <2>5, Zenon
  <2> QED BY <2>3, <2>6, <2>7
<1> DEFINE a == SubSeq(q, 1, i - 1)
           b == SubSeq(q, i + 1, Len(q))
           r == a \o b
<1> HIDE DEF I
<1>6. i \in Int /\ Len(q) \in Nat /\ 1 =< i /\ i =< Len(q)
  BY <1>2
<1>7. a \in Seq(S) /\ b \in Seq(S) /\ Len(a) = i - 1 /\ Len(b) = Len(q) - i
  BY <1>4, <1>5
<1>8. /\ \A j \in 1..(i - 1) : a[j] = q[j]
      /\ \A j \in 1..(Len(q) - i) : b[j] = q[i + j]
  BY <1>4, <1>5
<1> HIDE DEF a, b
<1>9. r \in Seq(S) /\ Len(r) = Len(q) - 1
  <2>1. r \in Seq(S) /\ Len(r) = Len(a) + Len(b)
    BY <1>7, ConcatProperties
  <2>2. Len(a) + Len(b) = Len(q) - 1
    BY <1>6, <1>7
  <2> QED BY <2>1, <2>2
<1>10. \A j \in 1..Len(r) : r[j] = IF j <= Len(a) THEN a[j] ELSE b[j - Len(a)]
  BY <1>7, ConcatProperties
<1>11. ASSUME NEW j \in 1..(Len(q) - 1)
       PROVE  r[j] = IF j < i THEN q[j] ELSE q[j + 1]
  <2>1. CASE j <= i - 1
    BY <1>6, <1>7, <1>8, <1>9, <1>10, <2>1
  <2>2. CASE ~(j <= i - 1)
    <3>1. /\ j - (i - 1) \in 1..(Len(q) - i)
          /\ i + (j - (i - 1)) = j + 1 /\ j + 1 \in 1..Len(q)
      BY <1>6, <1>9, <2>2
    <3>2. r[j] = b[j - (i - 1)]
      BY <1>7, <1>9, <1>10, <2>2
    <3>3. ~(j < i)
      BY <1>6, <2>2
    <3> QED BY <1>8, <3>1, <3>2, <3>3
  <2> QED BY <2>1, <2>2
<1> HIDE DEF r
<1>12. RemoveFirst(q, e) = r
  BY <1>1 DEF r, a, b
<1>13. /\ q[i] = e /\ Len(r) = Len(q) - 1
       /\ \A j \in 1..(Len(q) - 1) : r[j] = IF j < i THEN q[j] ELSE q[j + 1]
  BY <1>2, <1>9, <1>11
<1> QED BY <1>2, <1>9, <1>12, <1>13

\* RemoveFirst yields a sequence whose elements all come from its argument.
LEMMA RemoveFirstType ==
  ASSUME NEW S, NEW q \in Seq(S), NEW e
  PROVE  /\ RemoveFirst(q, e) \in Seq(S)
         /\ \A j \in 1..Len(RemoveFirst(q, e)) : \E k \in 1..Len(q) : RemoveFirst(q, e)[j] = q[k]
<1>1. CASE \E i \in 1..Len(q) : q[i] = e
  <2> DEFINE r == RemoveFirst(q, e)
  <2>1. r \in Seq(S)
    BY <1>1, RemoveFirstAt
  <2>2. PICK i \in 1..Len(q) :
          /\ Len(r) = Len(q) - 1
          /\ \A j \in 1..(Len(q) - 1) : r[j] = IF j < i THEN q[j] ELSE q[j + 1]
    BY <1>1, RemoveFirstAt
  <2> HIDE DEF r
  <2>3. \A j \in 1..(Len(q) - 1) : j \in 1..Len(q) /\ j + 1 \in 1..Len(q)
    OBVIOUS
  <2>4. \A j \in 1..Len(r) : \E k \in 1..Len(q) : r[j] = q[k]
    BY <2>2, <2>3
  <2> QED BY <2>1, <2>4 DEF r
<1>2. CASE ~ \E i \in 1..Len(q) : q[i] = e
  BY <1>2 DEF RemoveFirst
<1> QED BY <1>1, <1>2

-----------------------------------------------------------------------------
(* The helpers of the model keep the types of the variables they assign *)

\* Of a well-typed FIFO: its head is a task and its tail is a FIFO.
LEMMA HeadIsTask ==
  ASSUME LockOK, NEW m \in Match, NEW l \in LockObj, lockQ[m][l] # <<>>
  PROVE  /\ Head(lockQ[m][l]) \in Task
         /\ Tail(lockQ[m][l]) \in Seq(Task)
<1>1. lockQ[m][l] \in Seq(Task)
  BY DEF LockOK
<1> QED BY <1>1, HeadTailProperties

\* The holder of a lock that runs for a player carries a player.
LEMMA HolderIsPlayer ==
  ASSUME LockOK, NEW m \in Match, NEW l \in LockObj,
         NEW kind \in {"confirm", "abort", "record1", "record2"}, Holds(m, l, kind)
  PROVE  Head(lockQ[m][l])[2] \in Player
<1>1. Head(lockQ[m][l]) \in Task /\ Head(lockQ[m][l])[1] = kind
  BY HeadIsTask DEF Holds
<1> QED BY <1>1 DEF Task, Monitor, Check

\* A task that gets in line for a lock, registering a new one if need be.
LEMMA GetLockOK ==
  ASSUME LockOK, NEW m \in Match, NEW task \in Task, GetLock(m, task)
  PROVE  LockOK'
<1> DEFINE l == IF lockOf[m] # None THEN lockOf[m] ELSE CHOOSE f \in FreeLocks(m) : TRUE
<1>1. l \in LockObj
  BY DEF LockOK, GetLock, FreeLocks
<1> HIDE DEF l
<1>2. /\ lockOf' = [lockOf EXCEPT ![m] = l]
      /\ lockQ' = [lockQ EXCEPT ![m][l] = Append(@, task)]
      /\ UNCHANGED <<cs, pending>>
  BY DEF GetLock, l
<1>3. Append(lockQ[m][l], task) \in Seq(Task)
  <2>1. lockQ[m][l] \in Seq(Task)
    BY <1>1 DEF LockOK
  <2> QED BY <2>1, AppendProperties
<1> QED BY <1>1, <1>2, <1>3 DEF LockOK

\* The holder releases its lock.
LEMMA ReleaseOK ==
  ASSUME LockOK, NEW m \in Match, NEW l \in LockObj, lockQ[m][l] # <<>>,
         Release(m, l), lockOf' \in [Match -> LockObj \cup {None}]
  PROVE  LockOK'
<1>1. Tail(lockQ[m][l]) \in Seq(Task)
  BY HeadIsTask
<1> QED BY <1>1 DEF LockOK, Release, HolderPc

\* The holder releases its lock and the monitor of the match is cancelled.
LEMMA ReleaseAndCancelMonitorOK ==
  ASSUME LockOK, NEW m \in Match, NEW l \in LockObj, lockQ[m][l] # <<>>,
         ReleaseAndCancelMonitor(m, l)
  PROVE  LockOK'
<1> DEFINE q == [lockQ[m] EXCEPT ![l] = Tail(@)]
<1>1. q \in [LockObj -> Seq(Task)]
  BY HeadIsTask DEF LockOK
<1>2. \A k \in LockObj : RemoveFirst(q[k], Monitor) \in Seq(Task)
  BY <1>1, RemoveFirstType
<1> DEFINE r == [k \in LockObj |-> RemoveFirst(q[k], Monitor)]
           gone(k) == k = l \/ (q[k] # <<>> /\ Head(q[k]) = Monitor)
<1>3. /\ lockQ' = [lockQ EXCEPT ![m] = r]
      /\ cs' = [cs EXCEPT ![m] = [k \in LockObj |-> IF gone(k) THEN "enter" ELSE cs[m][k]]]
      /\ pending' = [pending EXCEPT ![m] =
                       [k \in LockObj |-> IF gone(k) THEN {} ELSE pending[m][k]]]
      /\ lockOf' = [lockOf EXCEPT ![m] = None]
  BY DEF ReleaseAndCancelMonitor
<1>4. r \in [LockObj -> Seq(Task)]
  BY <1>2
<1> HIDE DEF r, gone
<1> QED BY <1>3, <1>4 DEF LockOK, HolderPc

\* The holder is suspended in its critical section.
LEMMA SuspendOK ==
  ASSUME LockOK, NEW m \in Match, NEW l \in LockObj, NEW pc \in HolderPc,
         Suspend(m, l, pc), pending' \in [Match -> [LockObj -> SUBSET Callback]]
  PROVE  LockOK'
BY DEF LockOK, Suspend

\* The callbacks pass from the service to the holder.
LEMMA TakeCallbacksOK ==
  ASSUME LockOK, SvcOK, NEW m \in Match, NEW l \in LockObj, TakeCallbacks(m, l)
  PROVE  /\ pending' \in [Match -> [LockObj -> SUBSET Callback]]
         /\ callbacks' \in [Match -> SUBSET Callback]
BY DEF LockOK, SvcOK, TakeCallbacks

\* A view registers with the service.
LEMMA StartMonitoringOK ==
  ASSUME SvcOK, TaskOK, NEW m \in Match, NEW c \in Callback, StartMonitoring(m, c)
  PROVE  /\ callbacks' \in [Match -> SUBSET Callback]
         /\ monitored' \subseteq Match
         /\ confirmations' \in [Match -> (SUBSET Player) \cup {None}]
         /\ monitor' \in [Match -> {"none", "sleep", "run"}]
BY DEF SvcOK, TaskOK, StartMonitoring

\* A handler stops to monitor the match and releases its lock.
LEMMA StopMonitoringOK ==
  ASSUME LockOK, SvcOK, TaskOK, NEW m \in Match, NEW l \in LockObj, NEW popLock \in BOOLEAN,
         lockQ[m][l] # <<>>, StopMonitoring(m, l, popLock), processed' \subseteq Match
  PROVE  /\ LockOK' /\ SvcOK'
         /\ monitor' \in [Match -> {"none", "sleep", "run"}]
<1>1. CASE m \in monitored
  <2>1. ReleaseAndCancelMonitor(m, l)
    BY <1>1 DEF StopMonitoring
  <2>2. LockOK'
    BY <2>1, ReleaseAndCancelMonitorOK
  <2>3. monitor' \in [Match -> {"none", "sleep", "run"}]
    BY <2>1 DEF ReleaseAndCancelMonitor, TaskOK
  <2>4. SvcOK'
    BY <1>1 DEF StopMonitoring, SvcOK
  <2> QED BY <2>2, <2>3, <2>4
<1>2. CASE m \notin monitored
  <2>1. /\ Release(m, l)
        /\ lockOf' \in [Match -> LockObj \cup {None}]
        /\ UNCHANGED <<monitor, callbacks, bothConfirmed, confirmations>>
        /\ monitored' \subseteq Match
    BY <1>2 DEF StopMonitoring, LockOK, SvcOK
  <2>2. LockOK'
    BY <2>1, ReleaseOK
  <2> QED BY <2>1, <2>2 DEF SvcOK, TaskOK
<1> QED BY <1>1, <1>2

\* The players of a match that exists are players.
LEMMA PlayersOfType ==
  ASSUME RowOK, NEW m \in Match
  PROVE  PlayersOf(m) \subseteq Player
<1>1. players[m] = <<>> \/ players[m] \in Player \X Player
  BY DEF RowOK
<1> QED BY <1>1 DEF PlayersOf

\* Players are released.
LEMMA ReleasePlayersOK ==
  ASSUME PlayerOK, NEW ps, ReleasePlayers(ps)
  PROVE  PlayerOK'
BY DEF PlayerOK, ReleasePlayers

\* Listeners are cancelled.
LEMMA CancelListenersOK ==
  ASSUME ViewOK, NEW ps, CancelListeners(ps)
  PROVE  view' \in [Match -> [Player -> ViewPc]]
BY DEF ViewOK, CancelListeners, ViewPc

\* A player is rated.
LEMMA RatedOK ==
  ASSUME RowOK, NEW m \in Match, NEW p
  PROVE  [mmr EXCEPT ![m][p] = @ + 1] \in [Match -> [Player -> Nat]]
<1>1. mmr \in [Match -> [Player -> Nat]]
  BY DEF RowOK
<1>2. [mmr[m] EXCEPT ![p] = @ + 1] \in [Player -> Nat]
  <2>1. mmr[m] \in [Player -> Nat]
    BY <1>1
  <2>2. CASE p \in Player
    BY <2>1, <2>2
  <2>3. CASE p \notin Player
    BY <2>1, <2>3
  <2> QED BY <2>2, <2>3
<1> QED BY <1>1, <1>2

\* An upload moves on.
LEMMA UploadMovesOK ==
  ASSUME TaskOK, NEW m \in Match, NEW p \in Player, NEW pc \in UploadPc
  PROVE  [upload EXCEPT ![m][p].pc = pc] \in [Match -> [Player -> Upload]]
<1> DEFINE u == upload[m][p]
           v == [u EXCEPT !.pc = pc]
<1>1. upload \in [Match -> [Player -> Upload]]
  BY DEF TaskOK
<1>2. u \in Upload
  BY <1>1
<1>3. v \in Upload
  BY <1>2 DEF Upload
<1>4. [upload EXCEPT ![m][p].pc = pc] = [upload EXCEPT ![m] = [upload[m] EXCEPT ![p] = v]]
  BY <1>1
<1> HIDE DEF v
<1> QED BY <1>1, <1>3, <1>4

\* Variables that do not change keep their types.
LEMMA Kept ==
  /\ RowOK /\ UNCHANGED rowVars => RowOK'
  /\ PlayerOK /\ UNCHANGED playerVars => PlayerOK'
  /\ SvcOK /\ UNCHANGED svcVars => SvcOK'
  /\ LockOK /\ UNCHANGED lockVars => LockOK'
  /\ TaskOK /\ UNCHANGED taskVars => TaskOK'
  /\ ViewOK /\ UNCHANGED viewVars => ViewOK'
<1>1. RowOK /\ UNCHANGED rowVars => RowOK'
  BY DEF RowOK, rowVars
<1>2. PlayerOK /\ UNCHANGED playerVars => PlayerOK'
  BY DEF PlayerOK, playerVars
<1>3. SvcOK /\ UNCHANGED svcVars => SvcOK'
  BY DEF SvcOK, svcVars
<1>4. LockOK /\ UNCHANGED lockVars => LockOK'
  BY DEF LockOK, lockVars
<1>5. TaskOK /\ UNCHANGED taskVars => TaskOK'
  BY DEF TaskOK, taskVars
<1>6. ViewOK /\ UNCHANGED viewVars => ViewOK'
  BY DEF ViewOK, viewVars
<1> QED BY <1>1, <1>2, <1>3, <1>4, <1>5, <1>6

-----------------------------------------------------------------------------
(* Every step keeps the types *)

LEMMA TypeInit == Init => TypeOK
<1> SUFFICES ASSUME Init PROVE TypeOK
  OBVIOUS
<1> USE MatchLifecycleAssumption
<1>1. RowOK
  BY DEF Init, RowOK, Report, Result
<1>2. PlayerOK
  BY DEF Init, PlayerOK
<1>3. SvcOK
  BY DEF Init, SvcOK
<1>4. LockOK
  BY EmptySeq DEF Init, LockOK, HolderPc
<1>5. TaskOK
  BY DEF Init, TaskOK, UploadPc, Upload
<1>6. ViewOK
  BY DEF Init, ViewOK, ViewPc
<1> QED BY <1>1, <1>2, <1>3, <1>4, <1>5, <1>6 DEF TypeOK

\* The actions of players, the matchmaker's creation of a match among them.
LEMMA TypePlayerStep == TypeOK /\ PlayerStep => TypeOK'
<1> SUFFICES ASSUME TypeOK, PlayerStep PROVE TypeOK'
  OBVIOUS
<1> USE MatchLifecycleAssumption, Kept DEF TypeOK
<1>1. ASSUME NEW p \in Player, JoinQueue(p) PROVE TypeOK'
  <2>1. PlayerOK'
    BY <1>1 DEF JoinQueue, PlayerOK
  <2> QED BY <1>1, <2>1 DEF JoinQueue
<1>2. ASSUME NEW p \in Player, LeaveQueue(p) PROVE TypeOK'
  <2>1. PlayerOK'
    BY <1>2 DEF LeaveQueue, PlayerOK
  <2>2. ViewOK'
    BY <1>2, CancelListenersOK DEF LeaveQueue, ViewOK
  <2> QED BY <1>2, <2>1, <2>2 DEF LeaveQueue
<1>3. ASSUME NEW m \in Match, NEW p \in Player, NEW q \in Player, CreateMatch(m, p, q)
      PROVE  TypeOK'
  <2>1. RowOK'
    BY <1>3 DEF CreateMatch, RowOK
  <2>2. PlayerOK'
    BY <1>3 DEF CreateMatch, PlayerOK
  <2>3. ViewOK'
    BY <1>3 DEF CreateMatch, ViewOK, ViewPc
  <2> QED BY <1>3, <2>1, <2>2, <2>3 DEF CreateMatch
<1>4. ASSUME NEW m \in Match, NEW p \in Player, NEW button \in {"confirm", "abort"},
             Click(m, p, button)
      PROVE  TypeOK'
  <2>1. LockOK'
    BY <1>4, GetLockOK DEF Click, Task
  <2>2. ViewOK'
    BY <1>4 DEF Click, ViewOK
  <2> QED BY <1>4, <2>1, <2>2 DEF Click
<1>5. ASSUME NEW m \in Match, NEW p \in Player, NEW v \in Outcome, StartUpload(m, p, v)
      PROVE  TypeOK'
  <2>1. TaskOK'
    <3>1. [pc |-> "parsing", value |-> v] \in Upload
      BY DEF Upload, UploadPc
    <3>2. upload' \in [Match -> [Player -> Upload]]
      BY <1>5, <3>1 DEF StartUpload, TaskOK
    <3>3. uploads' \in [Match -> 0..MaxUploads]
      BY <1>5 DEF StartUpload, TaskOK
    <3> QED BY <1>5, <3>2, <3>3 DEF StartUpload, TaskOK
  <2> QED BY <1>5, <2>1 DEF StartUpload
<1> QED BY <1>1, <1>2, <1>3, <1>4, <1>5 DEF PlayerStep, ClickConfirm, ClickAbort

\* The listeners and views of a player.
LEMMA TypeViewStep ==
  ASSUME TypeOK, NEW m \in Match, NEW p \in Player, ViewStep(m, p)
  PROVE  TypeOK'
<1> USE MatchLifecycleAssumption, Kept DEF TypeOK
<1>1. CASE ShowMatch(m, p)
  <2>1. /\ callbacks' \in [Match -> SUBSET Callback]
        /\ monitored' \subseteq Match
        /\ confirmations' \in [Match -> (SUBSET Player) \cup {None}]
        /\ monitor' \in [Match -> {"none", "sleep", "run"}]
    BY <1>1, StartMonitoringOK DEF ShowMatch, Callback
  <2>2. SvcOK'
    BY <1>1, <2>1 DEF ShowMatch, SvcOK
  <2>3. TaskOK'
    BY <1>1, <2>1 DEF ShowMatch, TaskOK
  <2>4. PlayerOK' /\ ViewOK'
    BY <1>1 DEF ShowMatch, PlayerOK, ViewOK, ViewPc
  <2> QED BY <1>1, <2>2, <2>3, <2>4 DEF ShowMatch
<1>2. CASE ShowMatchFails(m, p)
  <2>1. PlayerOK' /\ ViewOK'
    BY <1>2 DEF ShowMatchFails, PlayerOK, ViewOK, ViewPc
  <2> QED BY <1>2, <2>1 DEF ShowMatchFails
<1>3. CASE BuildFoundView(m, p)
  <2>1. /\ callbacks' \in [Match -> SUBSET Callback]
        /\ monitored' \subseteq Match
        /\ confirmations' \in [Match -> (SUBSET Player) \cup {None}]
        /\ monitor' \in [Match -> {"none", "sleep", "run"}]
    BY <1>3, StartMonitoringOK DEF BuildFoundView, Callback
  <2>2. SvcOK'
    BY <1>3, <2>1 DEF BuildFoundView, SvcOK
  <2>3. TaskOK'
    BY <1>3, <2>1 DEF BuildFoundView, TaskOK
  <2>4. ViewOK'
    BY <1>3 DEF BuildFoundView, ViewOK, ViewPc
  <2> QED BY <1>3, <2>2, <2>3, <2>4 DEF BuildFoundView
<1>4. CASE PublishFoundView(m, p)
  <2>1. PlayerOK' /\ ViewOK'
    BY <1>4 DEF PublishFoundView, PlayerOK, ViewOK, ViewPc
  <2> QED BY <1>4, <2>1 DEF PublishFoundView
<1>5. CASE FoundViewFails(m, p)
  <2>1. ViewOK'
    BY <1>5 DEF FoundViewFails, ViewOK, ViewPc
  <2> QED BY <1>5, <2>1 DEF FoundViewFails
<1> QED BY <1>1, <1>2, <1>3, <1>4, <1>5 DEF ViewStep

\* An upload gets in line to report, or its notice to the opponent is sent.
LEMMA TypeUploadStep ==
  ASSUME TypeOK, NEW m \in Match, NEW p \in Player, UploadStep(m, p)
  PROVE  TypeOK'
<1> USE MatchLifecycleAssumption, Kept DEF TypeOK
<1>1. CASE RecordReport(m, p)
  <2>1. LockOK'
    <3>1. PICK kind \in {"record1", "record2"} : GetLock(m, <<kind, p>>)
      BY <1>1 DEF RecordReport
    <3>2. <<kind, p>> \in Task
      BY DEF Task
    <3> QED BY <3>1, <3>2, GetLockOK
  <2>2. TaskOK'
    BY <1>1, UploadMovesOK DEF RecordReport, TaskOK, Upload, UploadPc
  <2> QED BY <1>1, <2>1, <2>2 DEF RecordReport
<1>2. CASE OpponentNotified(m, p)
  <2>1. TaskOK'
    <3>1. upload' \in [Match -> [Player -> Upload]]
      BY <1>2, UploadMovesOK DEF OpponentNotified, UploadPc
    <3> QED BY <1>2, <3>1 DEF OpponentNotified, TaskOK, Upload
  <2> QED BY <1>2, <2>1 DEF OpponentNotified
<1> QED BY <1>1, <1>2 DEF UploadStep

\* Spawned checks and the abort timer get in line for the lock.
LEMMA TypeSpawnStep ==
  ASSUME TypeOK, NEW m \in Match, StartCheck(m) \/ MonitorWakes(m)
  PROVE  TypeOK'
<1> USE MatchLifecycleAssumption, Kept DEF TypeOK
<1>1. CASE StartCheck(m)
  <2>1. LockOK'
    BY <1>1, GetLockOK DEF StartCheck, Task
  <2>2. TaskOK'
    BY <1>1 DEF StartCheck, TaskOK
  <2> QED BY <1>1, <2>1, <2>2 DEF StartCheck
<1>2. CASE MonitorWakes(m)
  <2>1. LockOK'
    BY <1>2, GetLockOK DEF MonitorWakes, Task
  <2>2. TaskOK'
    BY <1>2 DEF MonitorWakes, TaskOK
  <2> QED BY <1>2, <2>1, <2>2 DEF MonitorWakes
<1> QED BY <1>1, <1>2

\* The holder of a lock: confirmations, aborts and reports.
LEMMA TypeButtonStep ==
  ASSUME TypeOK, NEW m \in Match, NEW l \in LockObj,
         \/ ConfirmBegins(m, l) \/ ConfirmEndsAlone(m, l) \/ ConfirmEndsBoth(m, l)
         \/ AbortMatch(m, l) \/ RecordFirst(m, l) \/ RecordSecond(m, l)
  PROVE  TypeOK'
<1> USE MatchLifecycleAssumption, Kept DEF TypeOK
<1>1. CASE ConfirmBegins(m, l)
  <2>1. SvcOK'
    BY <1>1, HolderIsPlayer DEF ConfirmBegins, SvcOK, Confirmed
  <2>2. LockOK'
    BY <1>1, SuspendOK DEF ConfirmBegins, LockOK, HolderPc
  <2> QED BY <1>1, <2>1, <2>2 DEF ConfirmBegins
<1>2. CASE ConfirmEndsAlone(m, l)
  <2>1. LockOK'
    BY <1>2, ReleaseOK DEF ConfirmEndsAlone, Holds, LockOK
  <2> QED BY <1>2, <2>1 DEF ConfirmEndsAlone
<1>3. CASE ConfirmEndsBoth(m, l)
  <2>1. LockOK' /\ monitor' \in [Match -> {"none", "sleep", "run"}]
    <3>1. CASE monitor[m] = "none"
      BY <1>3, <3>1, ReleaseOK DEF ConfirmEndsBoth, Holds, LockOK, TaskOK
    <3>2. CASE monitor[m] # "none"
      <4>1. ReleaseAndCancelMonitor(m, l) /\ lockQ[m][l] # <<>>
        BY <1>3, <3>2 DEF ConfirmEndsBoth, Holds
      <4> QED BY <4>1, ReleaseAndCancelMonitorOK DEF ReleaseAndCancelMonitor, TaskOK
    <3> QED BY <3>1, <3>2
  <2>2. SvcOK' /\ ViewOK'
    BY <1>3 DEF ConfirmEndsBoth, SvcOK, ViewOK, ViewPc
  <2>3. TaskOK'
    BY <1>3, <2>1 DEF ConfirmEndsBoth, TaskOK
  <2> QED BY <1>3, <2>1, <2>2, <2>3 DEF ConfirmEndsBoth
<1>4. CASE AbortMatch(m, l)
  <2>1. LockOK'
    BY <1>4, ReleaseOK DEF AbortMatch, Holds, LockOK
  <2>2. RowOK'
    <3>1. CASE IsTerminal(m)
      BY <1>4, <3>1 DEF AbortMatch, RowOK
    <3>2. CASE ~IsTerminal(m)
      <4> DEFINE p == Head(lockQ[m][l])[2]
      <4>1. p \in Player
        BY <1>4, HolderIsPlayer DEF AbortMatch
      <4>2. aborts' = [aborts EXCEPT ![p] = IF @ > 0 THEN @ - 1 ELSE 0]
        BY <1>4, <3>2 DEF AbortMatch
      <4> HIDE DEF p
      <4>3. aborts' \in [Player -> 0..MaxAborts]
        BY <4>1, <4>2 DEF RowOK
      <4>4. <<-3, -1>> \in Report \X Report /\ <<-1, -3>> \in Report \X Report
        BY DEF Report
      <4>5. report' \in [Match -> Report \X Report]
        <5>1. PICK r \in {<<-3, -1>>, <<-1, -3>>} : report' = [report EXCEPT ![m] = r]
          BY <1>4, <3>2 DEF AbortMatch
        <5> QED BY <4>4, <5>1 DEF RowOK
      <4>6. result' \in [Match -> Result]
        BY <1>4, <3>2 DEF AbortMatch, RowOK, Result
      <4> QED BY <1>4, <4>3, <4>5, <4>6 DEF AbortMatch, RowOK
    <3> QED BY <3>1, <3>2
  <2>3. TaskOK'
    BY <1>4 DEF AbortMatch, TaskOK
  <2> QED BY <1>4, <2>1, <2>2, <2>3 DEF AbortMatch
<1>5. ASSUME NEW i \in 1..2, NEW p \in Player, NEW after \in UploadPc,
             RecordFor(m, l, i, p, after), lockQ[m][l] # <<>>
      PROVE  TypeOK'
  <2>1. LockOK'
    BY <1>5, ReleaseOK DEF RecordFor, LockOK
  <2>2. upload' \in [Match -> [Player -> Upload]]
    <3>1. \E pc \in UploadPc : upload' = [upload EXCEPT ![m][p].pc = pc]
      BY <1>5 DEF RecordFor, UploadPc
    <3> QED BY <3>1, UploadMovesOK
  <2>3. checks' \in [Match -> Nat]
    BY <1>5 DEF RecordFor, TaskOK
  <2>4. upload[m][p].value \in Report
    BY DEF TaskOK, Upload, Report
  <2>5. report' \in [Match -> Report \X Report]
    <3>1. ASSUME NEW r \in Report \X Report, NEW v \in Report
          PROVE  [r EXCEPT ![i] = v] \in Report \X Report
      BY <3>1
    <3>2. \/ UNCHANGED report
          \/ report' = [report EXCEPT ![m][i] = upload[m][p].value]
      BY <1>5 DEF RecordFor
    <3>3. [report[m] EXCEPT ![i] = upload[m][p].value] \in Report \X Report
      BY <2>4, <3>1 DEF RowOK
    <3> QED BY <3>2, <3>3 DEF RowOK
  <2>6. RowOK' /\ TaskOK'
    BY <1>5, <2>2, <2>3, <2>5 DEF RecordFor, RowOK, TaskOK
  <2> QED BY <1>5, <2>1, <2>6 DEF RecordFor
<1>6. CASE RecordFirst(m, l)
  BY <1>5, <1>6, HolderIsPlayer DEF RecordFirst, Holds, UploadPc
<1>7. CASE RecordSecond(m, l)
  BY <1>5, <1>7, HolderIsPlayer DEF RecordSecond, Holds, UploadPc
<1> QED BY <1>1, <1>2, <1>3, <1>4, <1>6, <1>7

\* The holder handles an abort up to its first callback.
LEMMA HandleAbortOK ==
  ASSUME TypeOK, NEW m \in Match, NEW l \in LockObj, HandleAbort(m, l),
         UNCHANGED <<monitored, bothConfirmed, confirmations, told, clicks>>
  PROVE  PlayerOK' /\ SvcOK' /\ LockOK' /\ ViewOK'
<1> USE DEF TypeOK
<1>1. PlayerOK'
  BY ReleasePlayersOK DEF HandleAbort
<1>2. ViewOK'
  BY CancelListenersOK DEF HandleAbort, ViewOK
<1>3. LockOK'
  BY TakeCallbacksOK, SuspendOK DEF HandleAbort, HolderPc
<1>4. SvcOK'
  BY TakeCallbacksOK DEF HandleAbort, SvcOK
<1> QED BY <1>1, <1>2, <1>3, <1>4

\* The holder of a lock: completion checks up to their first await.
LEMMA TypeCheckStep ==
  ASSUME TypeOK, NEW m \in Match, NEW l \in LockObj,
         \/ CheckIdle(m, l) \/ CheckAborts(m, l)
         \/ CheckCompletes(m, l) \/ CheckConflicts(m, l)
  PROVE  TypeOK'
<1> USE MatchLifecycleAssumption, Kept DEF TypeOK
<1>1. CASE CheckIdle(m, l)
  <2>1. LockOK'
    BY <1>1, ReleaseOK DEF CheckIdle, Checking, Holds, LockOK
  <2> QED BY <1>1, <2>1 DEF CheckIdle
<1>2. CASE CheckAborts(m, l)
  BY <1>2, HandleAbortOK DEF CheckAborts
<1>3. CASE CheckCompletes(m, l)
  <2>1. report[m][1] \in Result
    BY <1>3 DEF CheckCompletes, RowOK, Report, Result, IsAborted
  <2>2. RowOK'
    BY <1>3, <2>1, RatedOK DEF CheckCompletes, RowOK
  <2>3. LockOK'
    BY <1>3, SuspendOK DEF CheckCompletes, LockOK, HolderPc
  <2> QED BY <1>3, <2>2, <2>3 DEF CheckCompletes
<1>4. CASE CheckConflicts(m, l)
  <2>1. SvcOK'
    BY <1>4, TakeCallbacksOK DEF CheckConflicts, SvcOK
  <2>2. LockOK'
    BY <1>4, TakeCallbacksOK, SuspendOK DEF CheckConflicts, HolderPc
  <2> QED BY <1>4, <2>1, <2>2 DEF CheckConflicts
<1> QED BY <1>1, <1>2, <1>3, <1>4

\* The holder of a lock: from the rating of player 2 to the end of a handler.
LEMMA TypeEndStep ==
  ASSUME TypeOK, NEW m \in Match, NEW l \in LockObj,
         \/ RateSecond(m, l) \/ RateFails(m, l) \/ Complete(m, l)
         \/ EndAbort(m, l) \/ EndComplete(m, l) \/ EndConflict(m, l)
  PROVE  TypeOK'
<1> USE MatchLifecycleAssumption, Kept DEF TypeOK
<1>1. CASE RateSecond(m, l)
  <2>1. RowOK'
    BY <1>1, RatedOK DEF RateSecond, RowOK
  <2>2. LockOK'
    BY <1>1, SuspendOK DEF RateSecond, LockOK, HolderPc
  <2> QED BY <1>1, <2>1, <2>2 DEF RateSecond
<1>2. CASE RateFails(m, l)
  <2>1. lockQ[m][l] # <<>> /\ StopMonitoring(m, l, FALSE) /\ processed' \subseteq Match
    BY <1>2 DEF RateFails, At, SvcOK
  <2>2. LockOK' /\ SvcOK' /\ monitor' \in [Match -> {"none", "sleep", "run"}]
    BY <2>1, StopMonitoringOK
  <2>3. TaskOK'
    BY <1>2, <2>2 DEF RateFails, TaskOK
  <2> QED BY <1>2, <2>2, <2>3 DEF RateFails
<1>3. CASE Complete(m, l)
  <2>1. PlayerOK' /\ ViewOK'
    BY <1>3, ReleasePlayersOK, CancelListenersOK DEF Complete, ViewOK
  <2>2. SvcOK'
    BY <1>3, TakeCallbacksOK DEF Complete, SvcOK
  <2>3. LockOK'
    BY <1>3, TakeCallbacksOK, SuspendOK DEF Complete, HolderPc
  <2> QED BY <1>3, <2>1, <2>2, <2>3 DEF Complete
<1>4. CASE EndAbort(m, l)
  <2>1. PICK popLock \in BOOLEAN :
          /\ lockQ[m][l] # <<>> /\ StopMonitoring(m, l, popLock)
          /\ processed' \subseteq Match
    BY <1>4 DEF EndAbort, Told, At, SvcOK
  <2>2. LockOK' /\ SvcOK' /\ monitor' \in [Match -> {"none", "sleep", "run"}]
    BY <2>1, StopMonitoringOK
  <2>3. TaskOK'
    BY <1>4, <2>2 DEF EndAbort, TaskOK
  <2> QED BY <1>4, <2>2, <2>3 DEF EndAbort
<1>5. CASE EndComplete(m, l)
  <2>1. lockQ[m][l] # <<>> /\ StopMonitoring(m, l, FALSE) /\ processed' \subseteq Match
    BY <1>5 DEF EndComplete, Told, At, SvcOK
  <2>2. LockOK' /\ SvcOK' /\ monitor' \in [Match -> {"none", "sleep", "run"}]
    BY <2>1, StopMonitoringOK
  <2>3. PlayerOK' /\ ViewOK'
    BY <1>5, ReleasePlayersOK, CancelListenersOK DEF EndComplete, ViewOK
  <2>4. TaskOK'
    BY <1>5, <2>2 DEF EndComplete, TaskOK
  <2> QED BY <1>5, <2>2, <2>3, <2>4 DEF EndComplete
<1>6. CASE EndConflict(m, l)
  <2>1. lockQ[m][l] # <<>> /\ StopMonitoring(m, l, TRUE) /\ processed' \subseteq Match
    BY <1>6 DEF EndConflict, Told, At, SvcOK
  <2>2. LockOK' /\ SvcOK' /\ monitor' \in [Match -> {"none", "sleep", "run"}]
    BY <2>1, StopMonitoringOK
  <2>3. PlayerOK' /\ ViewOK'
    BY <1>6, ReleasePlayersOK, CancelListenersOK DEF EndConflict, ViewOK
  <2>4. TaskOK'
    BY <1>6, <2>2 DEF EndConflict, TaskOK
  <2> QED BY <1>6, <2>2, <2>3, <2>4 DEF EndConflict
<1> QED BY <1>1, <1>2, <1>3, <1>4, <1>5, <1>6

\* One callback returns.
LEMMA TypeDeliver ==
  ASSUME TypeOK, NEW m \in Match, NEW l \in LockObj, NEW c \in Callback, Deliver(m, l, c)
  PROVE  TypeOK'
<1> USE MatchLifecycleAssumption, Kept DEF TypeOK
<1>1. c[2] \in Player
  BY DEF Callback
<1>2. LockOK'
  BY DEF Deliver, LockOK
<1>3. told' \in [Match -> SUBSET (Callback \X HolderPc)]
  <2>1. <<c, cs[m][l]>> \in Callback \X HolderPc
    BY DEF LockOK
  <2> QED BY <2>1 DEF Deliver, ViewOK
<1>4. view' \in [Match -> [Player -> ViewPc]]
  BY <1>1 DEF Deliver, ViewOK, ViewPc
<1>5. PlayerOK' /\ ViewOK'
  BY <1>3, <1>4 DEF Deliver, PlayerOK, ViewOK
<1> QED BY <1>2, <1>5 DEF Deliver

\* The abort timer that holds the lock.
LEMMA TypeMonitorStep ==
  ASSUME TypeOK, NEW m \in Match, NEW l \in LockObj,
         MonitorExpires(m, l) \/ MonitorFindsResult(m, l) \/ MonitorAborts(m, l)
  PROVE  TypeOK'
<1> USE MatchLifecycleAssumption, Kept DEF TypeOK
<1>1. CASE MonitorExpires(m, l)
  <2>1. pending' \in [Match -> [LockObj -> SUBSET Callback]]
    BY <1>1 DEF MonitorExpires, LockOK, SvcOK
  <2>2. LockOK'
    BY <1>1, <2>1, SuspendOK DEF MonitorExpires, HolderPc
  <2> QED BY <1>1, <2>2 DEF MonitorExpires
<1>2. CASE MonitorFindsResult(m, l)
  <2>1. LockOK' /\ monitor' \in [Match -> {"none", "sleep", "run"}]
    BY <1>2, ReleaseAndCancelMonitorOK
    DEF MonitorFindsResult, Told, At, ReleaseAndCancelMonitor, TaskOK
  <2>2. TaskOK'
    BY <1>2, <2>1 DEF MonitorFindsResult, TaskOK
  <2> QED BY <1>2, <2>1, <2>2 DEF MonitorFindsResult
<1>3. CASE MonitorAborts(m, l)
  <2>1. RowOK'
    BY <1>3 DEF MonitorAborts, RowOK, UnconfirmedCode, Report, Result
  <2>2. CASE AlreadyProcessed(m)
    <3>1. LockOK' /\ monitor' \in [Match -> {"none", "sleep", "run"}]
      BY <1>3, <2>2, ReleaseAndCancelMonitorOK
      DEF MonitorAborts, Told, At, ReleaseAndCancelMonitor, TaskOK
    <3>2. TaskOK' /\ ViewOK' /\ SvcOK' /\ PlayerOK'
      BY <1>3, <2>2, <3>1 DEF MonitorAborts, TaskOK, ViewOK, SvcOK
    <3> QED BY <2>1, <3>1, <3>2
  <2>3. CASE ~AlreadyProcessed(m)
    <3>1. PlayerOK' /\ SvcOK' /\ LockOK' /\ ViewOK'
      BY <1>3, <2>3, HandleAbortOK DEF MonitorAborts
    <3>2. TaskOK'
      BY <1>3, <2>3 DEF MonitorAborts, TaskOK
    <3> QED BY <2>1, <3>1, <3>2
  <2> QED BY <2>2, <2>3
<1> QED BY <1>1, <1>2, <1>3

LEMMA TypeNext == TypeOK /\ [Next]_vars => TypeOK'
<1> SUFFICES ASSUME TypeOK, [Next]_vars PROVE TypeOK'
  OBVIOUS
<1>1. CASE UNCHANGED vars
  BY <1>1, Kept DEF TypeOK, vars
<1>2. CASE PlayerStep
  BY <1>2, TypePlayerStep
<1>3. ASSUME NEW m \in Match, NEW p \in Player, ViewStep(m, p) \/ UploadStep(m, p)
      PROVE  TypeOK'
  BY <1>3, TypeViewStep, TypeUploadStep
<1>4. ASSUME NEW m \in Match, NEW l \in LockObj, HolderStep(m, l) PROVE TypeOK'
  BY <1>4, TypeButtonStep, TypeCheckStep, TypeEndStep, TypeMonitorStep, TypeDeliver
  DEF HolderStep
<1>5. ASSUME NEW m \in Match, StartCheck(m) \/ MonitorWakes(m) PROVE TypeOK'
  BY <1>5, TypeSpawnStep
<1> QED BY <1>1, <1>2, <1>3, <1>4, <1>5 DEF Next

\* Type correctness: in every reachable state every variable has its type.
THEOREM TypeCorrect == Spec => []TypeOK
BY TypeInit, TypeNext, PTL DEF Spec

-----------------------------------------------------------------------------
(* The abort timer runs only for monitored matches *)

LEMMA MonitorNext == TypeOK /\ MonitorIsMonitored /\ [Next]_vars => MonitorIsMonitored'
<1> SUFFICES ASSUME TypeOK, MonitorIsMonitored, [Next]_vars PROVE MonitorIsMonitored'
  OBVIOUS
<1> USE DEF MonitorIsMonitored, TypeOK
<1>1. CASE UNCHANGED <<monitor, monitored>>
  BY <1>1
<1>2. CASE UNCHANGED vars
  BY <1>1, <1>2 DEF vars, svcVars, taskVars
<1>3. CASE PlayerStep
  BY <1>1, <1>3 DEF PlayerStep, JoinQueue, LeaveQueue, CreateMatch, ClickConfirm, ClickAbort,
     Click, StartUpload, svcVars, taskVars
<1>4. ASSUME NEW m \in Match, NEW p \in Player, ViewStep(m, p) \/ UploadStep(m, p)
      PROVE  MonitorIsMonitored'
  <2>1. ASSUME NEW c, StartMonitoring(m, c) PROVE MonitorIsMonitored'
    BY <2>1 DEF StartMonitoring, TaskOK, SvcOK
  <2> QED BY <1>1, <1>4, <2>1 DEF ViewStep, UploadStep, ShowMatch, ShowMatchFails,
     BuildFoundView, PublishFoundView, FoundViewFails, RecordReport, OpponentNotified,
     svcVars, taskVars
<1>5. ASSUME NEW m \in Match, NEW l \in LockObj, HolderStep(m, l)
      PROVE  MonitorIsMonitored'
  <2>1. ASSUME ReleaseAndCancelMonitor(m, l), UNCHANGED monitored
        PROVE  MonitorIsMonitored'
    BY <2>1 DEF ReleaseAndCancelMonitor, TaskOK
  <2>2. ASSUME NEW popLock, StopMonitoring(m, l, popLock) PROVE MonitorIsMonitored'
    BY <2>2 DEF StopMonitoring, ReleaseAndCancelMonitor, TaskOK
  <2>3. CASE \/ ConfirmBegins(m, l) \/ ConfirmEndsAlone(m, l) \/ AbortMatch(m, l)
             \/ RecordFirst(m, l) \/ RecordSecond(m, l)
             \/ CheckIdle(m, l) \/ CheckAborts(m, l) \/ CheckCompletes(m, l)
             \/ CheckConflicts(m, l) \/ RateSecond(m, l) \/ Complete(m, l)
             \/ MonitorExpires(m, l) \/ \E c \in Callback : Deliver(m, l, c)
    BY <1>1, <2>3 DEF ConfirmBegins, ConfirmEndsAlone, AbortMatch, RecordFirst, RecordSecond,
       RecordFor, CheckIdle, CheckAborts, CheckCompletes, CheckConflicts, RateSecond,
       Complete, MonitorExpires, Deliver, svcVars, taskVars
  <2>4. CASE ConfirmEndsBoth(m, l)
    BY <1>1, <2>1, <2>4 DEF ConfirmEndsBoth
  <2>5. CASE EndAbort(m, l) \/ EndComplete(m, l) \/ EndConflict(m, l) \/ RateFails(m, l)
    BY <2>2, <2>5 DEF EndAbort, EndComplete, EndConflict, RateFails
  <2>6. CASE MonitorFindsResult(m, l) \/ MonitorAborts(m, l)
    BY <1>1, <2>1, <2>6 DEF MonitorFindsResult, MonitorAborts, svcVars
  <2> QED BY <1>5, <2>3, <2>4, <2>5, <2>6 DEF HolderStep
<1>6. ASSUME NEW m \in Match, StartCheck(m) \/ MonitorWakes(m) PROVE MonitorIsMonitored'
  <2>1. CASE StartCheck(m)
    BY <1>1, <2>1 DEF StartCheck, svcVars
  <2>2. CASE MonitorWakes(m)
    BY <2>2 DEF MonitorWakes, TaskOK, svcVars
  <2> QED BY <1>6, <2>1, <2>2
<1> QED BY <1>2, <1>3, <1>4, <1>5, <1>6 DEF Next

\* A running abort timer belongs to a monitored match: a handler that stops the
\* monitoring, or two confirmations, always cancel the timer as well.
THEOREM MonitorBelongs == Spec => []MonitorIsMonitored
<1>1. Init => MonitorIsMonitored
  BY DEF Init, MonitorIsMonitored
<1> QED BY <1>1, TypeCorrect, MonitorNext, PTL DEF Spec

-----------------------------------------------------------------------------
(* A result is final *)

\* How a step may change the row of a match.
RowStep ==
  \A m \in Match :
    \/ result'[m] = result[m] /\ report'[m] = report[m]
    \/ result[m] = None /\ result'[m] = result[m]
    \/ result[m] = None /\ result'[m] = -1
    \/ /\ result[m] # -1 /\ report'[m] = report[m]
       /\ report[m] = <<result'[m], result'[m]>>

LEMMA RowStepHolds == TypeOK /\ [Next]_vars => RowStep
<1> SUFFICES ASSUME TypeOK, [Next]_vars PROVE RowStep
  OBVIOUS
<1> USE MatchLifecycleAssumption DEF TypeOK
<1>1. CASE UNCHANGED <<result, report>>
  BY <1>1 DEF RowStep
<1>2. CASE UNCHANGED vars
  BY <1>1, <1>2 DEF vars, rowVars
<1>3. CASE PlayerStep
  BY <1>1, <1>3 DEF PlayerStep, JoinQueue, LeaveQueue, CreateMatch, ClickConfirm, ClickAbort,
     Click, StartUpload, rowVars
<1>4. ASSUME NEW m \in Match, NEW p \in Player, ViewStep(m, p) \/ UploadStep(m, p)
      PROVE  RowStep
  BY <1>1, <1>4 DEF ViewStep, UploadStep, ShowMatch, ShowMatchFails,
     BuildFoundView, PublishFoundView, FoundViewFails, RecordReport, OpponentNotified, rowVars
<1>5. ASSUME NEW m \in Match, NEW l \in LockObj, HolderStep(m, l) PROVE RowStep
  <2>1. CASE \/ ConfirmBegins(m, l) \/ ConfirmEndsAlone(m, l) \/ ConfirmEndsBoth(m, l)
             \/ CheckIdle(m, l) \/ CheckAborts(m, l) \/ CheckConflicts(m, l)
             \/ RateSecond(m, l) \/ RateFails(m, l) \/ Complete(m, l)
             \/ EndAbort(m, l) \/ EndComplete(m, l) \/ EndConflict(m, l)
             \/ MonitorExpires(m, l) \/ MonitorFindsResult(m, l)
             \/ \E c \in Callback : Deliver(m, l, c)
    BY <1>1, <2>1 DEF ConfirmBegins, ConfirmEndsAlone, ConfirmEndsBoth, CheckIdle, CheckAborts,
       CheckConflicts, RateSecond, RateFails, Complete, EndAbort, EndComplete, EndConflict,
       MonitorExpires, MonitorFindsResult, Deliver, rowVars
  <2>2. CASE AbortMatch(m, l)
    <3>1. CASE IsTerminal(m)
      BY <1>1, <2>2, <3>1 DEF AbortMatch
    <3>2. CASE ~IsTerminal(m)
      BY <2>2, <3>2 DEF AbortMatch, IsTerminal, RowStep, RowOK
    <3> QED BY <3>1, <3>2
  <2>3. ASSUME NEW i, NEW p, NEW after, RecordFor(m, l, i, p, after) PROVE RowStep
    <3>1. CASE IsTerminal(m)
      BY <1>1, <2>3, <3>1 DEF RecordFor
    <3>2. CASE ~IsTerminal(m)
      BY <2>3, <3>2 DEF RecordFor, IsTerminal, RowStep, RowOK
    <3> QED BY <3>1, <3>2
  <2>4. CASE RecordFirst(m, l) \/ RecordSecond(m, l)
    BY <2>3, <2>4 DEF RecordFirst, RecordSecond
  <2>5. CASE CheckCompletes(m, l)
    <3>1. PICK v : report[m] = <<v, v>>
      BY <2>5 DEF CheckCompletes, Agree, RowOK
    <3> QED BY <2>5, <3>1 DEF CheckCompletes, IsAborted, RowStep, RowOK
  <2>6. CASE MonitorAborts(m, l)
    BY <2>6 DEF MonitorAborts, RowStep, RowOK
  <2> QED BY <1>5, <2>1, <2>2, <2>4, <2>5, <2>6 DEF HolderStep
<1>6. ASSUME NEW m \in Match, StartCheck(m) \/ MonitorWakes(m) PROVE RowStep
  BY <1>1, <1>6 DEF StartCheck, MonitorWakes, rowVars
<1> QED BY <1>2, <1>3, <1>4, <1>5, <1>6 DEF Next

\* A result other than an abort is what both stored reports say, although reports,
\* aborts and the timer all write to the row.
THEOREM ResultReported == Spec => []ResultIsReported
<1>1. Init => ResultIsReported
  BY MatchLifecycleAssumption DEF Init, ResultIsReported
<1>2. TypeOK /\ ResultIsReported /\ [Next]_vars => ResultIsReported'
  BY RowStepHolds, MatchLifecycleAssumption DEF RowStep, ResultIsReported
<1> QED BY <1>1, <1>2, TypeCorrect, PTL DEF Spec

\* Once set, match_result never changes again, whatever is aborted, reported,
\* checked or timed out later, and whichever lock objects the tasks hold.
THEOREM ResultFinal == Spec => ResultIsFinal
<1>1. TypeOK /\ ResultIsReported /\ [Next]_vars =>
        [\A m \in Match : result[m] # None => result'[m] = result[m]]_vars
  <2> SUFFICES ASSUME TypeOK, ResultIsReported, [Next]_vars,
                      NEW m \in Match, result[m] # None
               PROVE  result'[m] = result[m]
    OBVIOUS
  <2>1. CASE result[m] = -1
    BY <2>1, RowStepHolds DEF RowStep
  <2>2. CASE result[m] # -1
    <3>1. report[m] = <<result[m], result[m]>>
      BY <2>2 DEF TypeOK, RowOK, Result, ResultIsReported
    <3> QED BY <2>2, <3>1, RowStepHolds DEF RowStep
  <2> QED BY <2>1, <2>2
<1> QED BY <1>1, TypeCorrect, ResultReported, PTL DEF Spec, ResultIsFinal

-----------------------------------------------------------------------------
(* Only its two players deal with a match *)

\* The tasks of every lock of the other matches wait where they waited.
Elsewhere(m) == \A n \in Match : n # m => lockQ'[n] = lockQ[n]

\* The holder of a lock is one of the tasks in line.
LEMMA HolderWaits ==
  ASSUME LockOK, NEW m \in Match, NEW l \in LockObj, lockQ[m][l] # <<>>
  PROVE  Head(lockQ[m][l]) \in Waiting(m)
<1>1. lockQ[m][l] \in Seq(Task)
  BY DEF LockOK
<1>2. Head(lockQ[m][l]) \in ToSet(lockQ[m][l])
  BY <1>1, LenProperties, EmptySeq DEF ToSet
<1> QED BY <1>2 DEF Waiting

\* Getting in line for a lock adds one task.
LEMMA GetLockWaits ==
  ASSUME LockOK, NEW m \in Match, NEW task \in Task, GetLock(m, task)
  PROVE  Waiting(m)' \subseteq Waiting(m) \cup {task} /\ Elsewhere(m)
<1> DEFINE l == IF lockOf[m] # None THEN lockOf[m] ELSE CHOOSE f \in FreeLocks(m) : TRUE
<1>1. lockQ' = [lockQ EXCEPT ![m][l] = Append(@, task)]
  BY DEF GetLock
<1>2. l \in LockObj
  BY DEF LockOK, GetLock, FreeLocks
<1> HIDE DEF l
<1>3. ASSUME NEW k \in LockObj PROVE ToSet(lockQ'[m][k]) \subseteq ToSet(lockQ[m][k]) \cup {task}
  <2>1. lockQ[m][k] \in Seq(Task)
    BY DEF LockOK
  <2>2. CASE k = l
    <3>1. lockQ'[m][k] = Append(lockQ[m][k], task)
      BY <1>1, <1>2, <2>2 DEF LockOK
    <3> QED BY <2>1, <3>1, AppendProperties DEF ToSet
  <2>3. CASE k # l
    BY <1>1, <1>2, <2>3 DEF LockOK
  <2> QED BY <2>2, <2>3
<1>4. Elsewhere(m)
  BY <1>1 DEF LockOK, Elsewhere
<1> QED BY <1>3, <1>4 DEF Waiting

\* Releasing a lock adds none.
LEMMA ReleaseWaits ==
  ASSUME LockOK, NEW m \in Match, NEW l \in LockObj, lockQ[m][l] # <<>>, Release(m, l)
  PROVE  Waiting(m)' \subseteq Waiting(m) /\ Elsewhere(m)
<1>1. ASSUME NEW k \in LockObj PROVE ToSet(lockQ'[m][k]) \subseteq ToSet(lockQ[m][k])
  <2>1. lockQ[m][k] \in Seq(Task)
    BY DEF LockOK
  <2>2. CASE k = l
    <3>1. lockQ'[m][k] = Tail(lockQ[m][k])
      BY <2>2 DEF Release, LockOK
    <3> QED BY <2>1, <2>2, <3>1, HeadTailProperties DEF ToSet
  <2>3. CASE k # l
    BY <2>3 DEF Release, LockOK
  <2> QED BY <2>2, <2>3
<1>2. Elsewhere(m)
  BY DEF Release, LockOK, Elsewhere
<1> QED BY <1>1, <1>2 DEF Waiting

LEMMA RemoveFirstSet ==
  ASSUME NEW S, NEW q \in Seq(S), NEW e
  PROVE  ToSet(RemoveFirst(q, e)) \subseteq ToSet(q)
<1> DEFINE r == RemoveFirst(q, e)
<1>1. r \in Seq(S) /\ \A j \in 1..Len(r) : \E k \in 1..Len(q) : r[j] = q[k]
  BY RemoveFirstType
<1>2. DOMAIN r = 1..Len(r) /\ DOMAIN q = 1..Len(q)
  BY <1>1, LenProperties
<1> HIDE DEF r
<1>3. ToSet(r) \subseteq ToSet(q)
  BY <1>1, <1>2 DEF ToSet
<1> QED BY <1>3 DEF r

LEMMA ReleaseAndCancelWaits ==
  ASSUME LockOK, NEW m \in Match, NEW l \in LockObj, lockQ[m][l] # <<>>,
         ReleaseAndCancelMonitor(m, l)
  PROVE  Waiting(m)' \subseteq Waiting(m) /\ Elsewhere(m)
<1> DEFINE q == [lockQ[m] EXCEPT ![l] = Tail(@)]
           r == [k \in LockObj |-> RemoveFirst(q[k], Monitor)]
<1>1. lockQ' = [lockQ EXCEPT ![m] = r]
  BY DEF ReleaseAndCancelMonitor
<1>2. q \in [LockObj -> Seq(Task)]
  BY HeadIsTask DEF LockOK
<1>3. ASSUME NEW k \in LockObj PROVE ToSet(lockQ'[m][k]) \subseteq ToSet(lockQ[m][k])
  <2>1. lockQ[m][k] \in Seq(Task) /\ q[k] \in Seq(Task)
    BY <1>2 DEF LockOK
  <2>2. ToSet(q[k]) \subseteq ToSet(lockQ[m][k])
    <3>1. CASE k = l
      <4>1. q[k] = Tail(lockQ[m][k])
        BY <3>1 DEF LockOK
      <4> QED BY <2>1, <3>1, <4>1, HeadTailProperties DEF ToSet
    <3>2. CASE k # l
      BY <3>2 DEF LockOK
    <3> QED BY <3>1, <3>2
  <2>3. lockQ'[m][k] = RemoveFirst(q[k], Monitor)
    BY <1>1 DEF LockOK
  <2> HIDE DEF q
  <2> HIDE DEF r
  <2>4. ToSet(RemoveFirst(q[k], Monitor)) \subseteq ToSet(q[k])
    BY <2>1, RemoveFirstSet
  <2> QED BY <2>2, <2>3, <2>4
<1>4. Elsewhere(m)
  BY <1>1 DEF LockOK, Elsewhere
<1> QED BY <1>3, <1>4 DEF Waiting

LEMMA StopWaits ==
  ASSUME LockOK, SvcOK, TaskOK, NEW m \in Match, NEW l \in LockObj, lockQ[m][l] # <<>>,
         NEW popLock, StopMonitoring(m, l, popLock)
  PROVE  /\ Waiting(m)' \subseteq Waiting(m) /\ Elsewhere(m)
         /\ \A n \in Match : n # m => UNCHANGED <<monitor[n], bothConfirmed[n]>>
         /\ bothConfirmed'[m] \subseteq bothConfirmed[m]
<1>1. CASE m \in monitored
  BY <1>1, ReleaseAndCancelWaits DEF StopMonitoring, ReleaseAndCancelMonitor, SvcOK, TaskOK
<1>2. CASE m \notin monitored
  BY <1>2, ReleaseWaits DEF StopMonitoring
<1> QED BY <1>1, <1>2

\* What a step on behalf of the existing match m may do.
Tame(m) ==
  /\ players[m] # <<>> /\ UNCHANGED players
  /\ Elsewhere(m)
  /\ \A p \in Player : <<"abort", p>> \in Waiting(m)' =>
                        <<"abort", p>> \in Waiting(m) \/ p \in PlayersOf(m)
  /\ \A n \in Match : n # m =>
       /\ checks'[n] = checks[n] /\ monitor'[n] = monitor[n] /\ upload'[n] = upload[n]
       /\ n \in processed' => n \in processed
       /\ bothConfirmed'[n] = bothConfirmed[n]
  /\ bothConfirmed'[m] \subseteq bothConfirmed[m] \cup PlayersOf(m)
  /\ \A n \in Match, p \in Player :
       view'[n][p] # "none" => view[n][p] # "none" \/ (n = m /\ p \in PlayersOf(m))
  /\ \A p \in Player : /\ chan'[p] \in {chan[p], None, m}
                       /\ playerState'[p] \in {playerState[p], "idle", "queueing"}

LEMMA TameKeeps ==
  ASSUME TypeOK, OnlyItsPlayers, NEW m \in Match, Tame(m)
  PROVE  OnlyItsPlayers'
<1> USE MatchLifecycleAssumption
<1>1. \A n \in Match : PlayersOf(n)' = PlayersOf(n)
  BY DEF Tame, PlayersOf
<1>2. \A n \in Match : n # m => Waiting(n)' = Waiting(n)
  BY DEF Tame, Elsewhere, Waiting
<1>3. BlankBeforeCreation'
  <2> SUFFICES ASSUME NEW n \in Match, players'[n] = <<>>
               PROVE  Blank(n)'
    BY DEF BlankBeforeCreation
  <2>1. n # m /\ Blank(n)
    BY DEF Tame, OnlyItsPlayers, BlankBeforeCreation
  <2>2. /\ Waiting(n)' = {} /\ checks'[n] = 0 /\ monitor'[n] = "none"
        /\ n \notin processed' /\ bothConfirmed'[n] = {}
    BY <1>2, <2>1 DEF Blank, Tame
  <2>3. ASSUME NEW p \in Player
        PROVE  /\ view'[n][p] = "none" /\ upload'[n][p].pc = "none"
               /\ chan'[p] # n /\ playerState'[p] # n
    BY <2>1 DEF Blank, Tame
  <2> QED BY <2>2, <2>3 DEF Blank
<1>4. ViewersPlay'
  BY <1>1 DEF OnlyItsPlayers, ViewersPlay, Tame
<1>5. AbortersPlay'
  BY <1>1, <1>2 DEF OnlyItsPlayers, AbortersPlay, Tame
<1>6. LockedPlayersPlay'
  BY <1>1 DEF OnlyItsPlayers, LockedPlayersPlay, Tame
<1> QED BY <1>3, <1>4, <1>5, <1>6 DEF OnlyItsPlayers

\* A match that something refers to exists.
LEMMA Exists ==
  ASSUME TypeOK, OnlyItsPlayers, NEW m \in Match, ~Blank(m)
  PROVE  players[m] # <<>>
BY DEF OnlyItsPlayers, BlankBeforeCreation

LEMMA HolderExists ==
  ASSUME TypeOK, OnlyItsPlayers, NEW m \in Match, NEW l \in LockObj, lockQ[m][l] # <<>>
  PROVE  players[m] # <<>>
BY HolderWaits, Exists DEF TypeOK, Blank

LEMMA OnlyItsPlayersQueue ==
  ASSUME TypeOK, OnlyItsPlayers, NEW p \in Player, JoinQueue(p) \/ LeaveQueue(p)
  PROVE  OnlyItsPlayers'
<1> USE MatchLifecycleAssumption
<1>1. /\ UNCHANGED <<players, lockQ, checks, monitor, processed, bothConfirmed, upload, chan>>
      /\ \A q \in Player : playerState'[q] \in {playerState[q], "idle", "queueing"}
      /\ \A n \in Match, q \in Player : view'[n][q] # "none" => view[n][q] # "none"
      /\ \A n \in Match, q \in Player : view[n][q] = "none" => view'[n][q] = "none"
  BY DEF JoinQueue, LeaveQueue, rowVars, svcVars, lockVars, taskVars, viewVars,
         CancelListeners, TypeOK, PlayerOK, ViewOK
<1>2. \A n \in Match : PlayersOf(n)' = PlayersOf(n) /\ Waiting(n)' = Waiting(n)
  BY <1>1 DEF PlayersOf, Waiting
<1>3. ASSUME NEW n \in Match, Blank(n) PROVE Blank(n)'
  BY <1>1, <1>2, <1>3 DEF Blank
<1> QED BY <1>1, <1>2, <1>3
     DEF OnlyItsPlayers, BlankBeforeCreation, ViewersPlay, AbortersPlay, LockedPlayersPlay

LEMMA OnlyItsPlayersCreate ==
  ASSUME TypeOK, OnlyItsPlayers, NEW m \in Match, NEW p \in Player, NEW q \in Player,
         CreateMatch(m, p, q)
  PROVE  OnlyItsPlayers'
<1> USE MatchLifecycleAssumption
<1>1. Blank(m)
  BY DEF CreateMatch, OnlyItsPlayers, BlankBeforeCreation
<1>2. /\ UNCHANGED <<lockQ, checks, monitor, processed, bothConfirmed, upload, chan>>
      /\ \A n \in Match : n # m => players'[n] = players[n] /\ view'[n] = view[n]
      /\ players'[m] = <<p, q>>
      /\ \A r \in Player : playerState'[r] = IF r \in {p, q} THEN m ELSE playerState[r]
      /\ \A r \in Player : view'[m][r] # "none" => r \in {p, q}
  BY DEF CreateMatch, svcVars, lockVars, taskVars, TypeOK, RowOK, PlayerOK, ViewOK
<1>3. /\ \A n \in Match : Waiting(n)' = Waiting(n)
      /\ \A n \in Match : n # m => PlayersOf(n)' = PlayersOf(n)
  BY <1>2 DEF Waiting, PlayersOf
<1>4. p \in PlayersOf(m)' /\ q \in PlayersOf(m)'
  <2>1. players'[m][1] = p /\ players'[m][2] = q /\ Len(players'[m]) = 2
    BY <1>2
  <2> QED BY <2>1 DEF PlayersOf
<1>5. ASSUME NEW n \in Match, players'[n] = <<>> PROVE Blank(n)'
  <2>1. n # m /\ Blank(n)
    BY <1>2, <1>5 DEF OnlyItsPlayers, BlankBeforeCreation
  <2> QED BY <1>2, <1>3, <2>1 DEF Blank
<1>6. ViewersPlay'
  BY <1>1, <1>2, <1>3, <1>4 DEF Blank, OnlyItsPlayers, ViewersPlay
<1>7. AbortersPlay'
  BY <1>1, <1>3 DEF Blank, OnlyItsPlayers, AbortersPlay
<1>8. LockedPlayersPlay'
  BY <1>1, <1>2, <1>3, <1>4 DEF Blank, OnlyItsPlayers, LockedPlayersPlay
<1> QED BY <1>5, <1>6, <1>7, <1>8 DEF OnlyItsPlayers, BlankBeforeCreation

\* Releasing players and cancelling listeners only takes away.
LEMMA ReleaseTakes ==
  ASSUME TypeOK, NEW ps, ReleasePlayers(ps), NEW p \in Player
  PROVE  chan'[p] \in {chan[p], None} /\ playerState'[p] \in {playerState[p], "idle"}
BY DEF ReleasePlayers, TypeOK, PlayerOK

LEMMA CancelTakes ==
  ASSUME TypeOK, NEW ps, CancelListeners(ps), NEW n \in Match, NEW p \in Player
  PROVE  view'[n][p] # "none" => view[n][p] # "none"
BY DEF CancelListeners, TypeOK, ViewOK

LEMMA TameButton ==
  ASSUME TypeOK, OnlyItsPlayers, NEW m \in Match, NEW p \in Player,
         NEW button \in {"confirm", "abort"}, Click(m, p, button)
  PROVE  Tame(m)
<1> USE MatchLifecycleAssumption DEF TypeOK
<1>1. view[m][p] # "none" /\ players[m] # <<>> /\ p \in PlayersOf(m)
  BY Exists DEF Click, Clickable, Blank, OnlyItsPlayers, ViewersPlay
<1>2. /\ Waiting(m)' \subseteq Waiting(m) \cup {<<button, p>>}
      /\ Elsewhere(m)
  BY GetLockWaits DEF Click, Task
<1> QED BY <1>1, <1>2 DEF Click, Tame, rowVars, playerVars, svcVars, taskVars

LEMMA TameUpload ==
  ASSUME TypeOK, OnlyItsPlayers, NEW m \in Match, NEW p \in Player,
         (\E v \in Outcome : StartUpload(m, p, v)) \/ UploadStep(m, p)
  PROVE  Tame(m)
<1> USE MatchLifecycleAssumption DEF TypeOK
<1>1. players[m] # <<>>
  <2>1. chan[p] = m \/ upload[m][p].pc # "none"
    BY DEF StartUpload, UploadStep, RecordReport, OpponentNotified
  <2> QED BY <2>1, Exists DEF Blank
<1>2. ASSUME NEW v \in Outcome, StartUpload(m, p, v) PROVE Tame(m)
  BY <1>1, <1>2
  DEF StartUpload, Tame, Elsewhere, Waiting, TaskOK, rowVars, playerVars, svcVars, lockVars,
      viewVars
<1>3. CASE RecordReport(m, p)
  <2>1. PICK kind \in {"record1", "record2"} : GetLock(m, <<kind, p>>)
    BY <1>3 DEF RecordReport
  <2>2. Waiting(m)' \subseteq Waiting(m) \cup {<<kind, p>>} /\ Elsewhere(m)
    BY <2>1, GetLockWaits DEF Task
  <2> QED BY <1>1, <1>3, <2>2
      DEF RecordReport, Tame, TaskOK, rowVars, playerVars, svcVars, viewVars
<1>4. CASE OpponentNotified(m, p)
  BY <1>1, <1>4
  DEF OpponentNotified, Tame, Elsewhere, Waiting, TaskOK, rowVars, playerVars, svcVars,
      lockVars, viewVars
<1> QED BY <1>2, <1>3, <1>4 DEF UploadStep

LEMMA TameView ==
  ASSUME TypeOK, OnlyItsPlayers, NEW m \in Match, NEW p \in Player, ViewStep(m, p)
  PROVE  Tame(m)
<1> USE MatchLifecycleAssumption DEF TypeOK
<1>1. view[m][p] # "none"
  BY DEF ViewStep, ShowMatch, ShowMatchFails, BuildFoundView, PublishFoundView, FoundViewFails
<1>2. players[m] # <<>> /\ p \in PlayersOf(m)
  BY <1>1, Exists DEF Blank, OnlyItsPlayers, ViewersPlay
<1>3. ASSUME NEW c, StartMonitoring(m, c), NEW n \in Match, n # m
      PROVE  monitor'[n] = monitor[n]
  BY <1>3 DEF StartMonitoring, TaskOK
<1>4. UNCHANGED <<players, lockQ, checks, upload, processed, playerState>>
  BY DEF ViewStep, ShowMatch, ShowMatchFails, BuildFoundView, PublishFoundView, FoundViewFails,
         rowVars, playerVars, svcVars, lockVars, taskVars
<1>5. \A n \in Match : n # m => monitor'[n] = monitor[n]
  BY <1>3 DEF ViewStep, ShowMatch, ShowMatchFails, BuildFoundView, PublishFoundView,
              FoundViewFails, taskVars
<1>6. \A n \in Match :
        bothConfirmed'[n] = bothConfirmed[n]
          \/ (n = m /\ bothConfirmed'[n] = bothConfirmed[n] \cup {p})
  BY DEF ViewStep, ShowMatch, ShowMatchFails, BuildFoundView, PublishFoundView, FoundViewFails,
         svcVars, SvcOK
<1>7. \A n \in Match, q \in Player : view'[n][q] = view[n][q] \/ (n = m /\ q = p)
  BY DEF ViewStep, ShowMatch, ShowMatchFails, BuildFoundView, PublishFoundView, FoundViewFails,
         ViewOK
<1>8. \A q \in Player : chan'[q] \in {chan[q], m}
  BY DEF ViewStep, ShowMatch, ShowMatchFails, BuildFoundView, PublishFoundView, FoundViewFails,
         playerVars, PlayerOK
<1>9. Elsewhere(m) /\ Waiting(m)' = Waiting(m)
  BY <1>4 DEF Elsewhere, Waiting
<1> QED
  <2>1. bothConfirmed'[m] \subseteq bothConfirmed[m] \cup PlayersOf(m)
    BY <1>2, <1>6
  <2>2. \A n \in Match, q \in Player :
          view'[n][q] # "none" => view[n][q] # "none" \/ (n = m /\ q \in PlayersOf(m))
    BY <1>2, <1>7
  <2>3. \A n \in Match : n # m => bothConfirmed'[n] = bothConfirmed[n]
    BY <1>6
  <2> QED BY <1>2, <1>4, <1>5, <1>8, <1>9, <2>1, <2>2, <2>3 DEF Tame

LEMMA TameSpawn ==
  ASSUME TypeOK, OnlyItsPlayers, NEW m \in Match, StartCheck(m) \/ MonitorWakes(m)
  PROVE  Tame(m)
<1> USE MatchLifecycleAssumption DEF TypeOK
<1>1. players[m] # <<>>
  BY Exists DEF Blank, StartCheck, MonitorWakes
<1>2. PICK task \in {Monitor, Check} : GetLock(m, task)
  BY DEF StartCheck, MonitorWakes
<1>3. Waiting(m)' \subseteq Waiting(m) \cup {task} /\ Elsewhere(m)
  BY <1>2, GetLockWaits DEF Task
<1>4. \A p \in Player : <<"abort", p>> # task
  BY DEF Monitor, Check
<1>5. /\ UNCHANGED <<players, upload, view, chan, playerState, processed, bothConfirmed>>
      /\ \A n \in Match : n # m => checks'[n] = checks[n] /\ monitor'[n] = monitor[n]
  BY DEF StartCheck, MonitorWakes, TaskOK, rowVars, playerVars, svcVars, viewVars
<1> QED BY <1>1, <1>3, <1>4, <1>5 DEF Tame

\* A holder that suspends leaves every task in its place.
LEMMA SuspendWaits ==
  ASSUME NEW m \in Match, NEW l \in LockObj, NEW pc, Suspend(m, l, pc)
  PROVE  Waiting(m)' \subseteq Waiting(m) /\ Elsewhere(m)
BY DEF Suspend, Waiting, Elsewhere

LEMMA TameHolder ==
  ASSUME TypeOK, OnlyItsPlayers, NEW m \in Match, NEW l \in LockObj,
         lockQ[m][l] # <<>>, HolderStep(m, l)
  PROVE  Tame(m)
<1> USE MatchLifecycleAssumption, HolderExists DEF TypeOK
<1> DEFINE Calm ==
      /\ UNCHANGED <<players, chan, playerState>>
      /\ \A n \in Match : n # m =>
           /\ checks'[n] = checks[n] /\ monitor'[n] = monitor[n] /\ upload'[n] = upload[n]
           /\ n \in processed' => n \in processed
           /\ bothConfirmed'[n] = bothConfirmed[n]
      /\ bothConfirmed'[m] \subseteq bothConfirmed[m]
      /\ UNCHANGED view
           Keeps == Waiting(m)' \subseteq Waiting(m) /\ Elsewhere(m)
<1>1. CASE ConfirmBegins(m, l)
  <2>1. Keeps
    BY <1>1, SuspendWaits DEF ConfirmBegins
  <2> QED BY <1>1, <2>1 DEF ConfirmBegins, Tame, rowVars, playerVars, taskVars, viewVars
<1>2. CASE ConfirmEndsAlone(m, l) \/ CheckIdle(m, l)
  <2>1. Keeps
    BY <1>2, ReleaseWaits DEF ConfirmEndsAlone, CheckIdle
  <2> QED BY <1>2, <2>1
      DEF ConfirmEndsAlone, CheckIdle, Tame, rowVars, playerVars, svcVars, taskVars, viewVars
<1>3. CASE ConfirmEndsBoth(m, l)
  <2>1. Keeps /\ \A n \in Match : n # m => monitor'[n] = monitor[n]
    BY <1>3, ReleaseWaits, ReleaseAndCancelWaits
    DEF ConfirmEndsBoth, ReleaseAndCancelMonitor, TaskOK
  <2>2. \A p \in bothConfirmed[m] : p \in PlayersOf(m)
    BY DEF OnlyItsPlayers, ViewersPlay, SvcOK
  <2>3. \A n \in Match, p \in Player :
          view'[n][p] # "none" => view[n][p] # "none" \/ (n = m /\ p \in PlayersOf(m))
    BY <1>3, <2>2 DEF ConfirmEndsBoth, ViewOK
  <2>4. /\ \A n \in Match : n # m => bothConfirmed'[n] = bothConfirmed[n]
        /\ bothConfirmed'[m] \subseteq bothConfirmed[m]
    BY <1>3 DEF ConfirmEndsBoth, SvcOK
  <2> QED BY <1>3, <2>1, <2>3, <2>4 DEF ConfirmEndsBoth, Tame, rowVars, playerVars
<1>4. CASE AbortMatch(m, l)
  <2>1. Keeps
    BY <1>4, ReleaseWaits DEF AbortMatch
  <2>2. \A n \in Match : n # m => checks'[n] = checks[n]
    BY <1>4 DEF AbortMatch, TaskOK
  <2> QED BY <1>4, <2>1, <2>2 DEF AbortMatch, Tame, playerVars, svcVars, viewVars
<1>5. ASSUME NEW i, NEW p, NEW after, RecordFor(m, l, i, p, after) PROVE Tame(m)
  <2>1. Keeps
    BY <1>5, ReleaseWaits DEF RecordFor
  <2>2. \A n \in Match : n # m => checks'[n] = checks[n] /\ upload'[n] = upload[n]
    BY <1>5 DEF RecordFor, TaskOK
  <2> QED BY <1>5, <2>1, <2>2 DEF RecordFor, Tame, playerVars, svcVars, viewVars
<1>6. CASE RecordFirst(m, l) \/ RecordSecond(m, l)
  BY <1>5, <1>6 DEF RecordFirst, RecordSecond
<1>7. ASSUME HandleAbort(m, l), UNCHANGED <<players, bothConfirmed, taskVars>> PROVE Tame(m)
  <2>1. Keeps
    BY <1>7, SuspendWaits DEF HandleAbort
  <2>2. \A p \in Player :
          chan'[p] \in {chan[p], None} /\ playerState'[p] \in {playerState[p], "idle"}
    BY <1>7, ReleaseTakes DEF HandleAbort
  <2>3. \A n \in Match, p \in Player : view'[n][p] # "none" => view[n][p] # "none"
    BY <1>7, CancelTakes DEF HandleAbort
  <2> QED BY <1>7, <2>1, <2>2, <2>3 DEF HandleAbort, Tame, taskVars
<1>8. CASE CheckAborts(m, l)
  BY <1>7, <1>8 DEF CheckAborts, rowVars
<1>9. CASE \/ CheckCompletes(m, l) \/ CheckConflicts(m, l) \/ RateSecond(m, l)
           \/ MonitorExpires(m, l)
  <2>1. Keeps
    BY <1>9, SuspendWaits DEF CheckCompletes, CheckConflicts, RateSecond, MonitorExpires
  <2>2. Calm
    BY <1>9 DEF CheckCompletes, CheckConflicts, RateSecond, MonitorExpires,
       rowVars, playerVars, svcVars, taskVars, viewVars
  <2> QED BY <2>1, <2>2 DEF Tame
<1>10. CASE RateFails(m, l) \/ EndAbort(m, l)
  <2>1. \E popLock \in BOOLEAN : StopMonitoring(m, l, popLock)
    BY <1>10 DEF RateFails, EndAbort
  <2>2. /\ Keeps
        /\ \A n \in Match : n # m =>
             monitor'[n] = monitor[n] /\ bothConfirmed'[n] = bothConfirmed[n]
        /\ bothConfirmed'[m] \subseteq bothConfirmed[m]
    BY <2>1, StopWaits
  <2>3. Calm
    BY <1>10, <2>2 DEF RateFails, EndAbort, rowVars, playerVars, viewVars
  <2> QED BY <2>2, <2>3 DEF Tame
<1>11. CASE EndComplete(m, l) \/ EndConflict(m, l)
  <2>1. \E popLock \in BOOLEAN : StopMonitoring(m, l, popLock)
    BY <1>11 DEF EndComplete, EndConflict
  <2>2. /\ Keeps
        /\ \A n \in Match : n # m =>
             monitor'[n] = monitor[n] /\ bothConfirmed'[n] = bothConfirmed[n]
        /\ bothConfirmed'[m] \subseteq bothConfirmed[m]
    BY <2>1, StopWaits
  <2>3. \A p \in Player :
          chan'[p] \in {chan[p], None} /\ playerState'[p] \in {playerState[p], "idle"}
    BY <1>11, ReleaseTakes DEF EndComplete, EndConflict
  <2>4. \A n \in Match, p \in Player : view'[n][p] # "none" => view[n][p] # "none"
    BY <1>11, CancelTakes DEF EndComplete, EndConflict
  <2>5. processed' \subseteq processed \cup {m} /\ UNCHANGED <<players, checks, upload>>
    BY <1>11 DEF EndComplete, EndConflict, rowVars
  <2> QED BY <2>2, <2>3, <2>4, <2>5 DEF Tame
<1>12. CASE Complete(m, l)
  <2>1. Keeps
    BY <1>12, SuspendWaits DEF Complete
  <2>2. \A p \in Player :
          chan'[p] \in {chan[p], None} /\ playerState'[p] \in {playerState[p], "idle"}
    BY <1>12, ReleaseTakes DEF Complete
  <2>3. \A n \in Match, p \in Player : view'[n][p] # "none" => view[n][p] # "none"
    BY <1>12, CancelTakes DEF Complete
  <2> QED BY <1>12, <2>1, <2>2, <2>3 DEF Complete, Tame, rowVars, taskVars
<1>13. CASE MonitorFindsResult(m, l)
  <2>1. Keeps /\ \A n \in Match : n # m => monitor'[n] = monitor[n]
    BY <1>13, ReleaseAndCancelWaits DEF MonitorFindsResult, ReleaseAndCancelMonitor, TaskOK
  <2> QED BY <1>13, <2>1
      DEF MonitorFindsResult, Tame, rowVars, playerVars, svcVars, viewVars
<1>14. CASE MonitorAborts(m, l)
  <2>1. CASE AlreadyProcessed(m)
    <3>1. Keeps /\ \A n \in Match : n # m => monitor'[n] = monitor[n]
      BY <1>14, <2>1, ReleaseAndCancelWaits
      DEF MonitorAborts, ReleaseAndCancelMonitor, TaskOK
    <3> QED BY <1>14, <2>1, <3>1 DEF MonitorAborts, Tame, playerVars
  <2>2. CASE ~AlreadyProcessed(m)
    <3>1. HandleAbort(m, l)
      BY <1>14, <2>2 DEF MonitorAborts
    <3>2. UNCHANGED <<players, bothConfirmed, checks, monitor, upload>>
      BY <1>14, <2>2 DEF MonitorAborts
    <3>3. Keeps
      BY <3>1, SuspendWaits DEF HandleAbort
    <3>4. \A p \in Player :
            chan'[p] \in {chan[p], None} /\ playerState'[p] \in {playerState[p], "idle"}
      BY <3>1, ReleaseTakes DEF HandleAbort
    <3>5. \A n \in Match, p \in Player : view'[n][p] # "none" => view[n][p] # "none"
      BY <3>1, CancelTakes DEF HandleAbort
    <3> QED BY <3>1, <3>2, <3>3, <3>4, <3>5 DEF HandleAbort, Tame
  <2> QED BY <2>1, <2>2
<1>15. ASSUME NEW c \in Callback, Deliver(m, l, c) PROVE Tame(m)
  <2>1. UNCHANGED <<lockQ, players, playerState, checks, monitor, upload, processed,
                    bothConfirmed>>
    BY <1>15 DEF Deliver, rowVars, svcVars, taskVars
  <2>2. \A p \in Player : chan'[p] \in {chan[p], None}
    BY <1>15 DEF Deliver, PlayerOK
  <2>3. \A n \in Match, p \in Player : view'[n][p] # "none" => view[n][p] # "none"
    BY <1>15 DEF Deliver, ViewOK
  <2> QED BY <2>1, <2>2, <2>3 DEF Tame, Elsewhere, Waiting
<1> QED BY <1>1, <1>2, <1>3, <1>4, <1>6, <1>8, <1>9, <1>10, <1>11, <1>12, <1>13, <1>14, <1>15
        DEF HolderStep

LEMMA HolderTame ==
  ASSUME TypeOK, OnlyItsPlayers, NEW m \in Match, NEW l \in LockObj, HolderStep(m, l)
  PROVE  Tame(m)
<1>1. lockQ[m][l] # <<>>
  BY DEF HolderStep, ConfirmBegins, ConfirmEndsAlone, ConfirmEndsBoth, AbortMatch, RecordFirst,
         RecordSecond, CheckIdle, CheckAborts, CheckCompletes, CheckConflicts, Checking,
         RateSecond, RateFails, Complete, EndAbort, EndComplete, EndConflict, MonitorExpires,
         MonitorFindsResult, MonitorAborts, Deliver, Told, At, Holds
<1> QED BY <1>1, TameHolder

LEMMA OnlyItsPlayersNext ==
  ASSUME TypeOK, OnlyItsPlayers, [Next]_vars
  PROVE  OnlyItsPlayers'
<1>1. CASE UNCHANGED vars
  <2>1. \A m \in Match : PlayersOf(m)' = PlayersOf(m) /\ Waiting(m)' = Waiting(m)
    BY <1>1 DEF vars, rowVars, lockVars, PlayersOf, Waiting
  <2>2. UNCHANGED <<players, checks, monitor, processed, bothConfirmed, view, upload, chan,
                    playerState>>
    BY <1>1 DEF vars, rowVars, playerVars, svcVars, taskVars, viewVars
  <2>3. \A m \in Match : Blank(m)' <=> Blank(m)
    BY <2>1, <2>2 DEF Blank
  <2> QED BY <2>1, <2>2, <2>3
      DEF OnlyItsPlayers, BlankBeforeCreation, ViewersPlay, AbortersPlay, LockedPlayersPlay
<1>2. CASE PlayerStep
  <2>1. CASE \E p \in Player : JoinQueue(p) \/ LeaveQueue(p)
    BY <2>1, OnlyItsPlayersQueue
  <2>2. CASE \E m \in Match, p, q \in Player : CreateMatch(m, p, q)
    BY <2>2, OnlyItsPlayersCreate
  <2>3. ASSUME NEW m \in Match, NEW p \in Player, ClickConfirm(m, p) \/ ClickAbort(m, p)
        PROVE  OnlyItsPlayers'
    BY <2>3, TameButton, TameKeeps DEF ClickConfirm, ClickAbort
  <2>4. ASSUME NEW m \in Match, NEW p \in Player, \E v \in Outcome : StartUpload(m, p, v)
        PROVE  OnlyItsPlayers'
    BY <2>4, TameUpload, TameKeeps
  <2> QED BY <1>2, <2>1, <2>2, <2>3, <2>4 DEF PlayerStep
<1>3. CASE \E m \in Match, p \in Player : ViewStep(m, p) \/ UploadStep(m, p)
  BY <1>3, TameView, TameUpload, TameKeeps
<1>4. CASE \E m \in Match, l \in LockObj : HolderStep(m, l)
  BY <1>4, HolderTame, TameKeeps
<1>5. CASE \E m \in Match : StartCheck(m) \/ MonitorWakes(m)
  BY <1>5, TameSpawn, TameKeeps
<1> QED BY <1>1, <1>2, <1>3, <1>4, <1>5 DEF Next

\* Whatever the interleaving, only the two players of a match see it, abort it or are
\* locked out of the queue by it, and nothing refers to a match before it is created:
\* the views, locks and channels of the code never cross matches.
THEOREM OnlyPlayersInvolved == Spec => []OnlyItsPlayers
<1>1. Init => OnlyItsPlayers
  <2> SUFFICES ASSUME Init PROVE OnlyItsPlayers
    OBVIOUS
  <2>1. \A m \in Match : Waiting(m) = {}
    BY DEF Init, Waiting, ToSet
  <2>2. \A m \in Match : Blank(m)
    BY <2>1, MatchLifecycleAssumption DEF Init, Blank
  <2> QED BY <2>1, <2>2
      DEF OnlyItsPlayers, BlankBeforeCreation, ViewersPlay, AbortersPlay, LockedPlayersPlay, Blank
<1>2. TypeOK /\ OnlyItsPlayers /\ [Next]_vars => OnlyItsPlayers'
  BY OnlyItsPlayersNext
<1> QED BY <1>1, <1>2, TypeCorrect, PTL DEF Spec

\* A step that processes a match frees its players, and no step locks a player into a
\* processed match.
LEMMA ProcessedFreesPlayersNext ==
  ASSUME TypeOK, OnlyItsPlayers, ProcessedFreesPlayers, [Next]_vars
  PROVE  ProcessedFreesPlayers'
<1> USE MatchLifecycleAssumption DEF TypeOK
<1> DEFINE Frees(m) ==
      /\ \A p \in Player : playerState'[p] \in {playerState[p], "idle", "queueing"}
      /\ processed' \subseteq processed \cup {m}
      /\ m \in processed' \ processed => \A p \in PlayersOf(m) : playerState'[p] = "idle"
<1>1. ASSUME NEW m \in Match, Frees(m) PROVE ProcessedFreesPlayers'
  BY <1>1 DEF OnlyItsPlayers, LockedPlayersPlay, ProcessedFreesPlayers, SvcOK, PlayerOK
<1>2. ASSUME NEW m \in Match, NEW p \in Player, NEW q \in Player, CreateMatch(m, p, q)
      PROVE  ProcessedFreesPlayers'
  <2>1. m \notin processed
    BY <1>2 DEF CreateMatch, OnlyItsPlayers, BlankBeforeCreation, Blank
  <2>2. processed' = processed /\ \A r \in Player : playerState'[r] \in {playerState[r], m}
    BY <1>2 DEF CreateMatch, svcVars, PlayerOK
  <2> QED BY <2>1, <2>2 DEF ProcessedFreesPlayers
<1>3. ASSUME NEW ps, ReleasePlayers(ps)
      PROVE  \A p \in Player : /\ playerState'[p] \in {playerState[p], "idle"}
                               /\ p \in ps => playerState'[p] = "idle"
  BY <1>3 DEF ReleasePlayers, PlayerOK
<1>4. ASSUME NEW m \in Match, NEW l \in LockObj, HolderStep(m, l) PROVE Frees(m)
  <2> \A p \in PlayersOf(m) : p \in PlayersOf(m)
    OBVIOUS
  <2>1. CASE HandleAbort(m, l) \/ Complete(m, l) \/ EndConflict(m, l)
    BY <2>1, <1>3, PlayersOfType DEF HandleAbort, Complete, EndConflict
  <2>2. CASE EndComplete(m, l)
    BY <2>2, <1>3 DEF EndComplete
  <2>3. CASE CheckAborts(m, l)
    BY <2>1, <2>3 DEF CheckAborts
  <2>4. CASE MonitorAborts(m, l)
    BY <2>1, <2>4 DEF MonitorAborts, playerVars
  <2>5. CASE UNCHANGED <<playerState, processed>>
    BY <2>5
  <2> QED
    BY <1>4, <2>1, <2>2, <2>3, <2>4, <2>5
    DEF HolderStep, ConfirmBegins, ConfirmEndsAlone, ConfirmEndsBoth, AbortMatch, RecordFirst,
        RecordSecond, RecordFor, CheckIdle, CheckCompletes, CheckConflicts, RateSecond,
        RateFails, EndAbort, MonitorExpires, MonitorFindsResult, Deliver, playerVars, svcVars
<1>5. ASSUME NEW m \in Match,
             \/ \E p \in Player : \/ ViewStep(m, p) \/ UploadStep(m, p)
                                  \/ ClickConfirm(m, p) \/ ClickAbort(m, p)
                                  \/ \E v \in Outcome : StartUpload(m, p, v)
             \/ StartCheck(m) \/ MonitorWakes(m)
      PROVE  UNCHANGED <<playerState, processed>>
  BY <1>5 DEF ViewStep, UploadStep, ShowMatch, ShowMatchFails, BuildFoundView,
     PublishFoundView, FoundViewFails, RecordReport, OpponentNotified, ClickConfirm, ClickAbort,
     Click, StartUpload, StartCheck, MonitorWakes, playerVars, svcVars
<1>6. ASSUME NEW p \in Player, JoinQueue(p) \/ LeaveQueue(p) PROVE ProcessedFreesPlayers'
  <2>1. /\ processed' = processed
        /\ \A r \in Player : playerState'[r] \in {playerState[r], "idle", "queueing"}
    BY <1>6 DEF JoinQueue, LeaveQueue, svcVars, PlayerOK
  <2> QED BY <2>1 DEF ProcessedFreesPlayers, SvcOK
<1>7. ASSUME UNCHANGED <<playerState, processed>> PROVE ProcessedFreesPlayers'
  BY <1>7 DEF ProcessedFreesPlayers
<1>8. UNCHANGED vars => UNCHANGED <<playerState, processed>>
  BY DEF vars, playerVars, svcVars
<1> QED BY <1>1, <1>2, <1>4, <1>5, <1>6, <1>7, <1>8 DEF Next, PlayerStep

\* Once the service has processed a match, none of its players is locked in it, for any
\* interleaving of reports, aborts, the timer, failed refreshes and late views.
THEOREM ProcessedFrees == Spec => []ProcessedFreesPlayers
<1>1. Init => ProcessedFreesPlayers
  BY DEF Init, ProcessedFreesPlayers
<1>2. TypeOK /\ OnlyItsPlayers /\ ProcessedFreesPlayers /\ [Next]_vars => ProcessedFreesPlayers'
  BY ProcessedFreesPlayersNext
<1> QED BY <1>1, <1>2, TypeCorrect, OnlyPlayersInvolved, PTL DEF Spec

\* No step charges a player an abort but the player's own first abort of an open match.
THEOREM AbortsCharged == Spec => AbortsAreCharged
<1> DEFINE Charged ==
      \A p \in Player : aborts'[p] # aborts[p] =>
        /\ aborts'[p] = aborts[p] - 1
        /\ \E m \in Match : /\ result[m] = None /\ result'[m] = -1
                            /\ \E i \in 1..2 : players[m][i] = p /\ report'[m][i] = -3
<1>1. ASSUME TypeOK, OnlyItsPlayers, NEW m \in Match, NEW l \in LockObj, AbortMatch(m, l)
      PROVE  Charged
  <2>1. CASE IsTerminal(m)
    BY <1>1, <2>1 DEF AbortMatch
  <2>2. CASE ~IsTerminal(m)
    <3> DEFINE q == Head(lockQ[m][l])[2]
    <3>1. q \in Player /\ <<"abort", q>> = Head(lockQ[m][l])
      <4>1. Head(lockQ[m][l]) \in Task /\ Head(lockQ[m][l])[1] = "abort"
        BY <1>1, HeadIsTask DEF AbortMatch, Holds, TypeOK
      <4> QED BY <4>1 DEF Task, Monitor, Check
    <3>2. <<"abort", q>> \in Waiting(m)
      BY <1>1, <3>1, HolderWaits DEF AbortMatch, Holds, TypeOK
    <3>3. q \in PlayersOf(m)
      BY <1>1, <3>1, <3>2 DEF OnlyItsPlayers, AbortersPlay
    <3>4. /\ result[m] = None /\ result'[m] = -1
          /\ report'[m] = IF players[m][1] = q THEN <<-3, -1>> ELSE <<-1, -3>>
          /\ aborts' = [aborts EXCEPT ![q] = IF @ > 0 THEN @ - 1 ELSE 0]
      BY <1>1, <2>2 DEF AbortMatch, IsTerminal, TypeOK, RowOK
    <3>5. \E i \in 1..2 : players[m][i] = q /\ report'[m][i] = -3
      <4>1. players[m] \in Player \X Player
        BY <1>1, <3>3 DEF PlayersOf, TypeOK, RowOK
      <4> HIDE DEF q
      <4>2. players[m][1] = q \/ players[m][2] = q
        BY <3>3, <4>1 DEF PlayersOf
      <4>3. CASE players[m][1] = q
        BY <3>4, <4>3
      <4>4. CASE players[m][1] # q
        BY <3>4, <4>2, <4>4
      <4> QED BY <4>3, <4>4
    <3>6. \A p \in Player : aborts'[p] # aborts[p] => p = q /\ aborts'[p] = aborts[p] - 1
      <4> HIDE DEF q
      <4> QED BY <1>1, <3>1, <3>4 DEF TypeOK, RowOK, MatchLifecycleAssumption
    <3> HIDE DEF q
    <3> QED BY <3>4, <3>5, <3>6
  <2> QED BY <2>1, <2>2
<1>2. ASSUME [Next]_vars, \A m \in Match, l \in LockObj : ~AbortMatch(m, l)
      PROVE  UNCHANGED aborts
  <2>1. ASSUME PlayerStep PROVE UNCHANGED aborts
    BY <2>1 DEF PlayerStep, JoinQueue, LeaveQueue, CreateMatch, ClickConfirm, ClickAbort,
       Click, StartUpload, rowVars
  <2>2. ASSUME NEW m \in Match, NEW p \in Player, ViewStep(m, p) \/ UploadStep(m, p)
        PROVE  UNCHANGED aborts
    BY <2>2 DEF ViewStep, UploadStep, ShowMatch, ShowMatchFails, BuildFoundView,
       PublishFoundView, FoundViewFails, RecordReport, OpponentNotified, rowVars
  <2>3. ASSUME NEW m \in Match, StartCheck(m) \/ MonitorWakes(m) PROVE UNCHANGED aborts
    BY <2>3 DEF StartCheck, MonitorWakes, rowVars
  <2>4. ASSUME NEW m \in Match, NEW l \in LockObj, HolderStep(m, l) PROVE UNCHANGED aborts
    BY <1>2, <2>4 DEF HolderStep, ConfirmBegins, ConfirmEndsAlone, ConfirmEndsBoth,
       RecordFirst, RecordSecond, RecordFor, CheckIdle, CheckAborts, CheckCompletes,
       CheckConflicts, RateSecond, RateFails, Complete, EndAbort, EndComplete, EndConflict,
       MonitorExpires, MonitorFindsResult, MonitorAborts, Deliver, rowVars
  <2>5. UNCHANGED vars => UNCHANGED aborts
    BY DEF vars, rowVars
  <2> QED BY <1>2, <2>1, <2>2, <2>3, <2>4, <2>5 DEF Next
<1>3. TypeOK /\ OnlyItsPlayers /\ [Next]_vars => Charged
  BY <1>1, <1>2
<1>4. TypeOK /\ OnlyItsPlayers /\ [Next]_vars => [Charged]_vars
  BY <1>3
<1> QED BY <1>4, TypeCorrect, OnlyPlayersInvolved, PTL DEF Spec, AbortsAreCharged

-----------------------------------------------------------------------------
(***************************************************************************)
(* How a match ends, for every number of players, matches, lock objects    *)
(* and every bound: one task ends it, it is rated once and as reported,    *)
(* and every view is told the same.  The locks are popped from their       *)
(* registry while tasks use them, so the proofs rest on what the service   *)
(* knows about the tasks that can still be in line for a popped one.       *)
(***************************************************************************)

-----------------------------------------------------------------------------
(* The lines of tasks *)

\* A monitor that is in line once is in line no more when it has been removed, and
\* whoever was first before it stays first.
LEMMA RemoveOnce ==
  ASSUME NEW S, NEW q \in Seq(S), NEW e, Once(q, e)
  PROVE  /\ RemoveFirst(q, e) \in Seq(S)
         /\ ToSet(RemoveFirst(q, e)) \subseteq ToSet(q) \ {e}
         /\ q # <<>> /\ Head(q) # e =>
              RemoveFirst(q, e) # <<>> /\ Head(RemoveFirst(q, e)) = Head(q)
         /\ q = <<>> => RemoveFirst(q, e) = <<>>
<1> DEFINE r == RemoveFirst(q, e)
<1>1. CASE \E i \in 1..Len(q) : q[i] = e
  <2>1. r \in Seq(S)
    BY <1>1, RemoveFirstAt
  <2>2. PICK i \in 1..Len(q) :
          /\ q[i] = e /\ Len(r) = Len(q) - 1
          /\ \A j \in 1..(Len(q) - 1) : r[j] = IF j < i THEN q[j] ELSE q[j + 1]
    BY <1>1, RemoveFirstAt
  <2> HIDE DEF r
  <2>3. \A j \in 1..Len(r) : r[j] # e
    <3> SUFFICES ASSUME NEW j \in 1..Len(r) PROVE r[j] # e
      OBVIOUS
    <3>1. j \in 1..(Len(q) - 1) /\ j \in 1..Len(q) /\ j + 1 \in 1..Len(q)
      BY <2>2
    <3>2. CASE j < i
      BY <2>2, <3>1, <3>2 DEF Once
    <3>3. CASE ~(j < i)
      <4>1. r[j] = q[j + 1] /\ j + 1 # i
        BY <2>2, <3>1, <3>3
      <4> QED BY <2>2, <3>1, <4>1 DEF Once
    <3> QED BY <3>2, <3>3
  <2>4. e \notin ToSet(r)
    BY <2>1, <2>3 DEF ToSet
  <2>5. ASSUME Head(q) # e PROVE r # <<>> /\ Head(r) = Head(q)
    <3>1. i # 1 /\ 1 < i /\ Len(q) > 1
      BY <2>2, <2>5
    <3>2. r[1] = q[1] /\ Len(r) > 0
      BY <2>2, <3>1
    <3> QED BY <2>1, <3>1, <3>2
  <2>6. q # <<>>
    BY <1>1
  <2>7. ToSet(r) \subseteq ToSet(q)
    BY RemoveFirstSet DEF r
  <2> QED BY <2>1, <2>4, <2>5, <2>6, <2>7 DEF r
<1>2. CASE ~ \E i \in 1..Len(q) : q[i] = e
  <2>1. r = q
    BY <1>2 DEF RemoveFirst
  <2>2. e \notin ToSet(q)
    BY <1>2 DEF ToSet
  <2> QED BY <2>1, <2>2
<1> QED BY <1>1, <1>2

\* A task that gets in line is the last of one line, that of the registered lock.
LEMMA GetLockLine ==
  ASSUME LockOK, NEW m \in Match, NEW task \in Task, GetLock(m, task)
  PROVE  /\ UNCHANGED <<cs, pending>>
         /\ \A n \in Match : n # m => lockQ'[n] = lockQ[n] /\ lockOf'[n] = lockOf[n]
         /\ \E l \in LockObj :
              /\ lockOf'[m] = l /\ (lockOf[m] # None => l = lockOf[m])
              /\ lockQ'[m] = [lockQ[m] EXCEPT ![l] = Append(@, task)]
              /\ InLine(m, l)' = InLine(m, l) \cup {task}
              /\ \A k \in LockObj : k # l => InLine(m, k)' = InLine(m, k)
<1> DEFINE o == IF lockOf[m] # None THEN lockOf[m] ELSE CHOOSE f \in FreeLocks(m) : TRUE
<1>1. /\ lockQ' = [lockQ EXCEPT ![m][o] = Append(@, task)]
      /\ lockOf' = [lockOf EXCEPT ![m] = o]
      /\ UNCHANGED <<cs, pending>>
  BY DEF GetLock
<1>0. o \in LockObj /\ (lockOf[m] # None => o = lockOf[m])
  BY DEF LockOK, GetLock, FreeLocks
<1> HIDE DEF o
<1>2. PICK l \in LockObj :
        /\ lockQ' = [lockQ EXCEPT ![m][l] = Append(@, task)]
        /\ lockOf' = [lockOf EXCEPT ![m] = l]
        /\ lockOf[m] # None => l = lockOf[m]
  BY <1>0, <1>1
<1>3. \A n \in Match : n # m => lockQ'[n] = lockQ[n] /\ lockOf'[n] = lockOf[n]
  BY <1>2 DEF LockOK
<1>4. lockQ'[m] = [lockQ[m] EXCEPT ![l] = Append(@, task)] /\ lockOf'[m] = l
  BY <1>2 DEF LockOK
<1>5. InLine(m, l)' = InLine(m, l) \cup {task}
  <2>1. lockQ[m][l] \in Seq(Task) /\ lockQ'[m][l] = Append(lockQ[m][l], task)
    BY <1>2, <1>4 DEF LockOK
  <2> DEFINE q == lockQ[m][l]
             r == lockQ'[m][l]
  <2>2. /\ DOMAIN r = 1..(Len(q) + 1) /\ DOMAIN q = 1..Len(q) /\ r[Len(q) + 1] = task
        /\ \A i \in 1..Len(q) : r[i] = q[i]
        /\ Len(q) \in Nat
    BY <2>1, AppendProperties
  <2> HIDE DEF q, r
  <2>3. \A i \in 1..(Len(q) + 1) : i \in 1..Len(q) \/ i = Len(q) + 1
    BY <2>2
  <2>4. 1..Len(q) \subseteq 1..(Len(q) + 1) /\ Len(q) + 1 \in 1..(Len(q) + 1)
    BY <2>2
  <2>5. {r[i] : i \in 1..(Len(q) + 1)} = {q[i] : i \in 1..Len(q)} \cup {task}
    <3>1. \A i \in 1..(Len(q) + 1) : r[i] \in {q[j] : j \in 1..Len(q)} \cup {task}
      BY <2>2, <2>3
    <3>2. \A i \in 1..Len(q) : q[i] \in {r[j] : j \in 1..(Len(q) + 1)}
      BY <2>2, <2>4
    <3>3. task \in {r[j] : j \in 1..(Len(q) + 1)}
      BY <2>2, <2>4
    <3> QED BY <3>1, <3>2, <3>3
  <2>6. ToSet(r) = ToSet(q) \cup {task}
    BY <2>2, <2>5 DEF ToSet
  <2> QED BY <2>6 DEF InLine, q, r
<1>6. \A k \in LockObj : k # l => InLine(m, k)' = InLine(m, k)
  <2> SUFFICES ASSUME NEW k \in LockObj, k # l PROVE lockQ'[m][k] = lockQ[m][k]
    BY DEF InLine
  <2> QED BY <1>4 DEF LockOK
<1> QED BY <1>1, <1>2, <1>3, <1>4, <1>5, <1>6

\* A released lock goes to the next task in line.
LEMMA ReleaseLine ==
  ASSUME LockOK, NEW m \in Match, NEW l \in LockObj, lockQ[m][l] # <<>>, Release(m, l)
  PROVE  /\ lockQ'[m] = [lockQ[m] EXCEPT ![l] = Tail(@)]
         /\ cs'[m] = [cs[m] EXCEPT ![l] = "enter"]
         /\ pending'[m] = [pending[m] EXCEPT ![l] = {}]
         /\ \A k \in LockObj : InLine(m, k)' \subseteq InLine(m, k)
         /\ \A n \in Match : n # m =>
              lockQ'[n] = lockQ[n] /\ cs'[n] = cs[n] /\ pending'[n] = pending[n]
<1>1. /\ lockQ'[m] = [lockQ[m] EXCEPT ![l] = Tail(@)]
      /\ cs'[m] = [cs[m] EXCEPT ![l] = "enter"]
      /\ pending'[m] = [pending[m] EXCEPT ![l] = {}]
      /\ \A n \in Match : n # m =>
           lockQ'[n] = lockQ[n] /\ cs'[n] = cs[n] /\ pending'[n] = pending[n]
  BY DEF Release, LockOK
<1>2. ASSUME NEW k \in LockObj PROVE InLine(m, k)' \subseteq InLine(m, k)
  <2>1. lockQ[m][k] \in Seq(Task)
    BY DEF LockOK
  <2>2. CASE k = l
    <3>1. lockQ'[m][k] = Tail(lockQ[m][k])
      BY <1>1, <2>2 DEF LockOK
    <3> QED BY <2>1, <2>2, <3>1, HeadTailProperties DEF InLine, ToSet
  <2>3. CASE k # l
    BY <1>1, <2>3 DEF LockOK, InLine
  <2> QED BY <2>2, <2>3
<1> QED BY <1>1, <1>2

LEMMA AppendOnce ==
  ASSUME NEW q \in Seq(Task), NEW e, NEW task \in Task, Once(q, e),
         task = e => e \notin ToSet(q)
  PROVE  /\ Once(Append(q, task), e) /\ Append(q, task) # <<>>
         /\ q # <<>> => Head(Append(q, task)) = Head(q)
<1> DEFINE r == Append(q, task)
<1>1. /\ Len(q) \in Nat /\ DOMAIN q = 1..Len(q)
      /\ Len(r) = Len(q) + 1 /\ r[Len(q) + 1] = task
      /\ \A i \in 1..Len(q) : r[i] = q[i]
      /\ r \in Seq(Task)
  BY AppendProperties
<1> HIDE DEF r
<1>2. \A i \in 1..Len(r) : i \in 1..Len(q) \/ i = Len(q) + 1
  BY <1>1
<1>3. task = e => \A i \in 1..Len(q) : q[i] # e
  BY <1>1 DEF ToSet
<1>4. Once(r, e)
  BY <1>1, <1>2, <1>3 DEF Once
<1>5. r # <<>>
  BY <1>1
<1>6. ASSUME q # <<>> PROVE Head(r) = Head(q)
  <2>1. 1 \in 1..Len(q)
    BY <1>1, <1>6, EmptySeq
  <2> QED BY <1>1, <1>5, <2>1
<1> QED BY <1>4, <1>5, <1>6 DEF r

LEMMA TailOnce ==
  ASSUME NEW S, NEW q \in Seq(S), NEW e, q # <<>>, Once(q, e)
  PROVE  Tail(q) \in Seq(S) /\ Once(Tail(q), e)
<1>1. /\ Tail(q) \in Seq(S) /\ Len(Tail(q)) = Len(q) - 1
      /\ \A i \in 1..Len(Tail(q)) : Tail(q)[i] = q[i + 1]
      /\ Len(q) \in Nat
  BY HeadTailProperties, LenProperties
<1>2. \A i \in 1..Len(Tail(q)) : i + 1 \in 1..Len(q)
  BY <1>1
<1>3. \A i, j \in 1..Len(Tail(q)) : i + 1 = j + 1 => i = j
  OBVIOUS
<1> QED BY <1>1, <1>2, <1>3 DEF Once

-----------------------------------------------------------------------------
(* Every holder awaits what it may await, and the monitor is in line once *)

Shape(m) == HolderShape(m) /\ OneMonitor(m)

\* A step that leaves the locks and the timer of a match alone.
LEMMA ShapeKept ==
  ASSUME NEW m \in Match, Shape(m),
         lockQ'[m] = lockQ[m], cs'[m] = cs[m], monitor'[m] = monitor[m],
         \A l \in LockObj : pending'[m][l] \subseteq pending[m][l]
  PROVE  Shape(m)'
BY DEF Shape, HolderShape, OneMonitor, InLine

\* A task gets in line; the monitor does when its sleep is over.
LEMMA ShapeLine ==
  ASSUME TypeOK, NEW m \in Match, NEW task \in Task, Shape(m), GetLock(m, task),
         monitor'[m] = IF task = Monitor THEN "run" ELSE monitor[m],
         task = Monitor => monitor[m] = "sleep"
  PROVE  Shape(m)'
<1>0. LockOK
  BY DEF TypeOK
<1>1. PICK l \in LockObj :
        /\ lockQ'[m] = [lockQ[m] EXCEPT ![l] = Append(@, task)]
        /\ InLine(m, l)' = InLine(m, l) \cup {task}
        /\ \A k \in LockObj : k # l => InLine(m, k)' = InLine(m, k)
        /\ UNCHANGED <<cs, pending>>
  <2>1. UNCHANGED <<cs, pending>>
    BY <1>0, GetLockLine
  <2>2. \E l \in LockObj :
          /\ lockQ'[m] = [lockQ[m] EXCEPT ![l] = Append(@, task)]
          /\ InLine(m, l)' = InLine(m, l) \cup {task}
          /\ \A k \in LockObj : k # l => InLine(m, k)' = InLine(m, k)
    BY <1>0, GetLockLine
  <2> QED BY <2>1, <2>2
<1> USE DEF TypeOK
<1>2. lockQ[m] \in [LockObj -> Seq(Task)]
  BY <1>0 DEF LockOK
<1>3. task = Monitor => \A k \in LockObj : Monitor \notin InLine(m, k)
  BY DEF Shape, OneMonitor
<1>4. \A k \in LockObj : k # l => lockQ'[m][k] = lockQ[m][k]
  BY <1>1, <1>2
<1>5. lockQ'[m][l] = Append(lockQ[m][l], task)
  BY <1>1, <1>2
<1>6. /\ Once(lockQ'[m][l], Monitor) /\ lockQ'[m][l] # <<>>
      /\ lockQ[m][l] # <<>> => Head(lockQ'[m][l]) = Head(lockQ[m][l])
  <2>1. Once(lockQ[m][l], Monitor) /\ (task = Monitor => Monitor \notin ToSet(lockQ[m][l]))
    BY <1>3 DEF Shape, OneMonitor, InLine
  <2> QED BY <1>2, <1>5, <2>1, AppendOnce
<1>7. HolderShape(m)'
  BY <1>1, <1>4, <1>6 DEF Shape, HolderShape
<1>8. OneMonitor(m)'
  <2> SUFFICES ASSUME NEW k \in LockObj
               PROVE  /\ Monitor \in InLine(m, k)' => monitor'[m] = "run"
                      /\ Once(lockQ'[m][k], Monitor)
    BY DEF OneMonitor
  <2>1. Monitor \in InLine(m, k)' => monitor'[m] = "run"
    BY <1>1 DEF Shape, OneMonitor
  <2>2. Once(lockQ'[m][k], Monitor)
    BY <1>4, <1>6 DEF Shape, OneMonitor
  <2> QED BY <2>1, <2>2
<1> QED BY <1>7, <1>8 DEF Shape

\* The holder releases its lock.
LEMMA ShapeRelease ==
  ASSUME TypeOK, NEW m \in Match, NEW l \in LockObj, lockQ[m][l] # <<>>, Shape(m),
         Release(m, l), monitor'[m] = monitor[m]
  PROVE  Shape(m)'
<1> USE DEF TypeOK
<1>1. /\ lockQ'[m] = [lockQ[m] EXCEPT ![l] = Tail(@)]
      /\ cs'[m] = [cs[m] EXCEPT ![l] = "enter"]
      /\ pending'[m] = [pending[m] EXCEPT ![l] = {}]
      /\ \A k \in LockObj : InLine(m, k)' \subseteq InLine(m, k)
  BY ReleaseLine
<1>2. lockQ[m] \in [LockObj -> Seq(Task)]
  BY DEF LockOK
<1>3. /\ \A k \in LockObj : k # l => /\ lockQ'[m][k] = lockQ[m][k] /\ cs'[m][k] = cs[m][k]
                                    /\ pending'[m][k] = pending[m][k]
      /\ cs'[m][l] = "enter" /\ pending'[m][l] = {} /\ lockQ'[m][l] = Tail(lockQ[m][l])
  BY <1>1, <1>2 DEF LockOK
<1>4. HolderShape(m)'
  BY <1>3 DEF Shape, HolderShape
<1>5. Once(lockQ'[m][l], Monitor)
  BY <1>2, <1>3, TailOnce DEF Shape, OneMonitor
<1>6. OneMonitor(m)'
  BY <1>1, <1>3, <1>5 DEF Shape, OneMonitor
<1> QED BY <1>4, <1>6 DEF Shape

\* The holder releases its lock and the monitor is cancelled, wherever it is.
LEMMA CancelLine ==
  ASSUME TypeOK, NEW m \in Match, NEW l \in LockObj, lockQ[m][l] # <<>>, Shape(m),
         ReleaseAndCancelMonitor(m, l)
  PROVE  /\ \A k \in LockObj : InLine(m, k)' \subseteq InLine(m, k) \ {Monitor}
         /\ \A k \in LockObj : cs'[m][k] \in {cs[m][k], "enter"}
         /\ \A k \in LockObj : k # l /\ Monitor \notin InLine(m, k) => cs'[m][k] = cs[m][k]
         /\ cs'[m][l] = "enter"
         /\ lockOf'[m] = None /\ monitor'[m] = "none"
         /\ Shape(m)'
         /\ \A n \in Match : n # m =>
              /\ lockQ'[n] = lockQ[n] /\ cs'[n] = cs[n] /\ pending'[n] = pending[n]
              /\ lockOf'[n] = lockOf[n] /\ monitor'[n] = monitor[n]
<1> USE DEF TypeOK
<1> DEFINE q(k) == IF k = l THEN Tail(lockQ[m][k]) ELSE lockQ[m][k]
           gone(k) == k = l \/ (q(k) # <<>> /\ Head(q(k)) = Monitor)
<1>1. /\ lockQ' = [lockQ EXCEPT ![m] = [k \in LockObj |-> RemoveFirst(q(k), Monitor)]]
      /\ cs' = [cs EXCEPT ![m] = [k \in LockObj |-> IF gone(k) THEN "enter" ELSE cs[m][k]]]
      /\ pending' = [pending EXCEPT ![m] =
                       [k \in LockObj |-> IF gone(k) THEN {} ELSE pending[m][k]]]
      /\ monitor' = [monitor EXCEPT ![m] = "none"]
      /\ lockOf' = [lockOf EXCEPT ![m] = None]
  <2> DEFINE p == [lockQ[m] EXCEPT ![l] = Tail(@)]
             off(k) == k = l \/ (p[k] # <<>> /\ Head(p[k]) = Monitor)
  <2>1. \A k \in LockObj : p[k] = q(k)
    BY DEF LockOK
  <2>2. /\ lockQ' = [lockQ EXCEPT ![m] = [k \in LockObj |-> RemoveFirst(p[k], Monitor)]]
        /\ cs' = [cs EXCEPT ![m] = [k \in LockObj |-> IF off(k) THEN "enter" ELSE cs[m][k]]]
        /\ pending' = [pending EXCEPT ![m] =
                         [k \in LockObj |-> IF off(k) THEN {} ELSE pending[m][k]]]
        /\ monitor' = [monitor EXCEPT ![m] = "none"]
        /\ lockOf' = [lockOf EXCEPT ![m] = None]
    BY DEF ReleaseAndCancelMonitor
  <2> HIDE DEF p, q
  <2>3. [k \in LockObj |-> RemoveFirst(p[k], Monitor)]
          = [k \in LockObj |-> RemoveFirst(q(k), Monitor)]
    BY <2>1
  <2>4. \A k \in LockObj : off(k) = gone(k)
    BY <2>1
  <2> HIDE DEF off, gone
  <2>5. [k \in LockObj |-> IF off(k) THEN "enter" ELSE cs[m][k]]
          = [k \in LockObj |-> IF gone(k) THEN "enter" ELSE cs[m][k]]
    BY <2>4
  <2>6. [k \in LockObj |-> IF off(k) THEN {} ELSE pending[m][k]]
          = [k \in LockObj |-> IF gone(k) THEN {} ELSE pending[m][k]]
    BY <2>4
  <2> QED BY <2>2, <2>3, <2>5, <2>6
<1>2. ASSUME NEW k \in LockObj
      PROVE  q(k) \in Seq(Task) /\ Once(q(k), Monitor) /\ ToSet(q(k)) \subseteq InLine(m, k)
  <2>1. lockQ[m][k] \in Seq(Task) /\ Once(lockQ[m][k], Monitor)
    BY DEF LockOK, Shape, OneMonitor
  <2>2. CASE k = l
    <3>1. Tail(lockQ[m][k]) \in Seq(Task) /\ Once(Tail(lockQ[m][k]), Monitor)
      BY <2>1, <2>2, TailOnce
    <3>2. ToSet(Tail(lockQ[m][k])) \subseteq ToSet(lockQ[m][k])
      BY <2>1, <2>2, HeadTailProperties DEF ToSet
    <3> QED BY <2>2, <3>1, <3>2 DEF InLine
  <2>3. CASE k # l
    BY <2>1, <2>3 DEF InLine
  <2> QED BY <2>2, <2>3
<1>3. \A k \in LockObj : k # l => q(k) = lockQ[m][k]
  OBVIOUS
<1> HIDE DEF q
<1>4. ASSUME NEW k \in LockObj
      PROVE  /\ lockQ'[m][k] = RemoveFirst(q(k), Monitor)
             /\ cs'[m][k] = IF gone(k) THEN "enter" ELSE cs[m][k]
             /\ pending'[m][k] = IF gone(k) THEN {} ELSE pending[m][k]
  <2> HIDE DEF gone
  <2> QED BY <1>1 DEF LockOK
<1>5. ASSUME NEW k \in LockObj
      PROVE  /\ lockQ'[m][k] \in Seq(Task)
             /\ ToSet(lockQ'[m][k]) \subseteq ToSet(q(k)) \ {Monitor}
             /\ q(k) # <<>> /\ Head(q(k)) # Monitor =>
                  lockQ'[m][k] # <<>> /\ Head(lockQ'[m][k]) = Head(q(k))
             /\ q(k) = <<>> => lockQ'[m][k] = <<>>
  BY <1>2, <1>4, RemoveOnce
<1>6. \A k \in LockObj : InLine(m, k)' \subseteq InLine(m, k) \ {Monitor}
  BY <1>2, <1>5 DEF InLine
<1>7. \A k \in LockObj : k # l /\ Monitor \notin InLine(m, k) => cs'[m][k] = cs[m][k]
  <2> SUFFICES ASSUME NEW k \in LockObj, k # l, Monitor \notin InLine(m, k)
               PROVE  ~gone(k)
    BY <1>4
  <2>1. q(k) # <<>> => Head(q(k)) \in ToSet(q(k))
    <3>1. q(k) \in Seq(Task)
      BY <1>2
    <3> QED BY <3>1, LenProperties, EmptySeq DEF ToSet
  <2> QED BY <1>2, <2>1
<1>8. OneMonitor(m)'
  <2> SUFFICES ASSUME NEW k \in LockObj
               PROVE  Monitor \notin ToSet(lockQ'[m][k]) /\ Once(lockQ'[m][k], Monitor)
    BY DEF OneMonitor, InLine
  <2>1. lockQ'[m][k] \in Seq(Task) /\ Monitor \notin ToSet(lockQ'[m][k])
    BY <1>5
  <2>2. \A i \in 1..Len(lockQ'[m][k]) : lockQ'[m][k][i] # Monitor
    BY <2>1, LenProperties DEF ToSet
  <2> QED BY <2>1, <2>2 DEF Once
<1>9. HolderShape(m)'
  <2> SUFFICES ASSUME NEW k \in LockObj
               PROVE  /\ lockQ'[m][k] = <<>> => cs'[m][k] = "enter"
                      /\ pending'[m][k] # {} =>
                           cs'[m][k] \in {"timeout", "complete", "abort", "conflict"}
                      /\ cs'[m][k] = "timeout" =>
                           lockQ'[m][k] # <<>> /\ Head(lockQ'[m][k]) = Monitor
    BY DEF HolderShape
  <2>1. CASE gone(k)
    BY <1>4, <2>1
  <2>2. CASE ~gone(k)
    <3>1. /\ k # l /\ q(k) = lockQ[m][k] /\ (q(k) # <<>> => Head(q(k)) # Monitor)
          /\ cs'[m][k] = cs[m][k] /\ pending'[m][k] = pending[m][k]
      BY <1>3, <1>4, <2>2
    <3> HIDE DEF gone
    <3> QED BY <1>5, <3>1 DEF Shape, HolderShape
  <2> QED BY <2>1, <2>2
<1>10. \A n \in Match : n # m =>
         /\ lockQ'[n] = lockQ[n] /\ cs'[n] = cs[n] /\ pending'[n] = pending[n]
         /\ lockOf'[n] = lockOf[n] /\ monitor'[n] = monitor[n]
  <2> HIDE DEF gone
  <2> QED BY <1>1 DEF LockOK, TaskOK
<1>11. lockOf'[m] = None /\ monitor'[m] = "none" /\ cs'[m][l] = "enter"
  <2>1. lockOf'[m] = None /\ monitor'[m] = "none"
    <3> HIDE DEF gone
    <3> QED BY <1>1 DEF LockOK, TaskOK
  <2> QED BY <1>4, <2>1
<1>12. \A k \in LockObj : cs'[m][k] \in {cs[m][k], "enter"}
  BY <1>4
<1> QED BY <1>6, <1>7, <1>8, <1>9, <1>10, <1>11, <1>12 DEF Shape

\* A handler that stops to monitor the match.
LEMMA StopLine ==
  ASSUME TypeOK, MonitorIsMonitored, NEW m \in Match, NEW l \in LockObj, NEW popLock,
         lockQ[m][l] # <<>>, Shape(m), StopMonitoring(m, l, popLock)
  PROVE  /\ \A k \in LockObj : InLine(m, k)' \subseteq InLine(m, k)
         /\ \A k \in LockObj : cs'[m][k] \in {cs[m][k], "enter"}
         /\ cs'[m][l] = "enter"
         /\ m \notin monitored' /\ monitor'[m] = "none"
         /\ Shape(m)'
         /\ \A n \in Match : n # m =>
              /\ lockQ'[n] = lockQ[n] /\ cs'[n] = cs[n] /\ pending'[n] = pending[n]
              /\ lockOf'[n] = lockOf[n] /\ monitor'[n] = monitor[n]
              /\ n \in monitored' <=> n \in monitored
<1>1. monitored' = monitored \ {m}
  BY DEF StopMonitoring
<1>2. CASE m \in monitored
  <2>1. ReleaseAndCancelMonitor(m, l)
    BY <1>2 DEF StopMonitoring
  <2> QED BY <1>1, <2>1, CancelLine
<1>3. CASE m \notin monitored
  <2>1. /\ Release(m, l) /\ monitor' = monitor
        /\ lockOf' \in {lockOf, [lockOf EXCEPT ![m] = None]}
    BY <1>3 DEF StopMonitoring
  <2>2. monitor[m] = "none"
    BY <1>3 DEF MonitorIsMonitored
  <2>3. Shape(m)'
    BY <2>1, ShapeRelease
  <2>4. /\ cs'[m] = [cs[m] EXCEPT ![l] = "enter"]
        /\ \A k \in LockObj : InLine(m, k)' \subseteq InLine(m, k)
        /\ \A n \in Match : n # m =>
             lockQ'[n] = lockQ[n] /\ cs'[n] = cs[n] /\ pending'[n] = pending[n]
    BY <2>1, ReleaseLine DEF TypeOK
  <2>5. \A k \in LockObj : cs'[m][k] = IF k = l THEN "enter" ELSE cs[m][k]
    BY <2>4 DEF TypeOK, LockOK
  <2>6. \A n \in Match : n # m => lockOf'[n] = lockOf[n]
    BY <2>1 DEF TypeOK, LockOK
  <2> QED BY <1>1, <2>1, <2>2, <2>3, <2>4, <2>5, <2>6
<1> QED BY <1>2, <1>3

\* The holder is suspended at pc.
LEMMA SuspendLine ==
  ASSUME TypeOK, NEW m \in Match, NEW l \in LockObj, NEW pc, Suspend(m, l, pc)
  PROVE  /\ UNCHANGED <<lockQ, lockOf>>
         /\ \A k \in LockObj : cs'[m][k] = IF k = l THEN pc ELSE cs[m][k]
         /\ \A n \in Match : n # m => cs'[n] = cs[n]
BY DEF Suspend, TypeOK, LockOK

\* What a step on behalf of match m leaves alone: everything of the other matches but
\* the views that are deactivated and the channels that are released.
Spares(n) ==
  /\ lockQ'[n] = lockQ[n] /\ cs'[n] = cs[n] /\ pending'[n] = pending[n]
  /\ lockOf'[n] = lockOf[n] /\ monitor'[n] = monitor[n]
  /\ players'[n] = players[n] /\ report'[n] = report[n] /\ result'[n] = result[n]
  /\ mmr'[n] = mmr[n] /\ checks'[n] = checks[n] /\ upload'[n] = upload[n]
  /\ told'[n] = told[n]
  /\ n \in processed' <=> n \in processed
  /\ n \in monitored' <=> n \in monitored
  /\ failures' >= failures
  /\ \A p \in Player :
       /\ view'[n][p] = view[n][p] \/ (view[n][p] = "offered" /\ view'[n][p] = "lost")
       /\ chan'[p] = n => chan[p] = n
Apart(m) == \A n \in Match : n # m => Spares(n)

\* Deactivated views and released channels.
LEMMA SparedViews ==
  ASSUME TypeOK, NEW ps, ReleasePlayers(ps), CancelListeners(ps),
         NEW n \in Match, NEW p \in Player
  PROVE  /\ view'[n][p] = view[n][p] \/ (view[n][p] = "offered" /\ view'[n][p] = "lost")
         /\ chan'[p] = n => chan[p] = n
BY MatchLifecycleAssumption DEF ReleasePlayers, CancelListeners, TypeOK, PlayerOK, ViewOK

\* Steps outside the critical sections.
OutsideStep(m) ==
  \/ \E p \in Player : \/ ViewStep(m, p) \/ UploadStep(m, p)
                       \/ \E button \in {"confirm", "abort"} : Click(m, p, button)
                       \/ \E v \in Outcome : StartUpload(m, p, v)
  \/ StartCheck(m) \/ MonitorWakes(m)

LEMMA ApartOutside ==
  ASSUME TypeOK, NEW m \in Match, OutsideStep(m)
  PROVE  Apart(m)
<1> USE MatchLifecycleAssumption DEF TypeOK
<1>1. ASSUME NEW task \in Task, GetLock(m, task), NEW n \in Match, n # m
      PROVE  /\ lockQ'[n] = lockQ[n] /\ cs'[n] = cs[n] /\ pending'[n] = pending[n]
             /\ lockOf'[n] = lockOf[n]
  BY <1>1, GetLockLine
<1>2. ASSUME NEW p \in Player, NEW button \in {"confirm", "abort"}, Click(m, p, button)
      PROVE  Apart(m)
  <2>1. <<button, p>> \in Task
    BY DEF Task
  <2> QED BY <1>1, <1>2, <2>1
      DEF Click, Apart, Spares, rowVars, playerVars, svcVars, taskVars, TaskOK
<1>3. ASSUME NEW p \in Player, NEW v \in Outcome, StartUpload(m, p, v) PROVE Apart(m)
  BY <1>3 DEF StartUpload, Apart, Spares, rowVars, playerVars, svcVars, lockVars, viewVars, TaskOK
<1>4. ASSUME NEW p \in Player, UploadStep(m, p) PROVE Apart(m)
  <2>1. CASE RecordReport(m, p)
    <3>1. PICK task \in Task : GetLock(m, task)
      BY <2>1 DEF RecordReport, Task
    <3> QED BY <1>1, <2>1, <3>1
        DEF RecordReport, Apart, Spares, rowVars, playerVars, svcVars, viewVars, TaskOK
  <2>2. CASE OpponentNotified(m, p)
    BY <2>2
    DEF OpponentNotified, Apart, Spares, rowVars, playerVars, svcVars, lockVars, viewVars, TaskOK
  <2> QED BY <1>4, <2>1, <2>2 DEF UploadStep
<1>5. CASE StartCheck(m) \/ MonitorWakes(m)
  <2>1. PICK task \in Task : GetLock(m, task)
    BY <1>5 DEF StartCheck, MonitorWakes, Task
  <2> QED BY <1>1, <1>5, <2>1
      DEF StartCheck, MonitorWakes, Apart, Spares, rowVars, playerVars, svcVars, viewVars, TaskOK
<1>6. ASSUME NEW p \in Player, ViewStep(m, p) PROVE Apart(m)
  <2>1. ASSUME NEW c, StartMonitoring(m, c)
        PROVE  /\ monitored' = monitored \cup {m}
               /\ \A n \in Match : n # m => monitor'[n] = monitor[n]
    BY <2>1 DEF StartMonitoring, TaskOK
  <2>2. /\ monitored \subseteq monitored' /\ monitored' \subseteq monitored \cup {m}
        /\ \A n \in Match : n # m => monitor'[n] = monitor[n]
    BY <1>6, <2>1 DEF ViewStep, ShowMatch, ShowMatchFails, BuildFoundView, PublishFoundView,
       FoundViewFails, svcVars, taskVars
  <2>3. \A n \in Match, q \in Player : n # m => view'[n][q] = view[n][q] /\ (chan'[q] = n => chan[q] = n)
    BY <1>6 DEF ViewStep, ShowMatch, ShowMatchFails, BuildFoundView, PublishFoundView,
       FoundViewFails, playerVars, ViewOK, PlayerOK
  <2>4. UNCHANGED <<lockQ, cs, pending, lockOf, players, report, result, mmr, checks, upload, told,
                    processed, failures>>
    BY <1>6 DEF ViewStep, ShowMatch, ShowMatchFails, BuildFoundView, PublishFoundView,
       FoundViewFails, rowVars, lockVars, svcVars, taskVars
  <2> QED BY <2>2, <2>3, <2>4 DEF Apart, Spares, TaskOK
<1> QED BY <1>2, <1>3, <1>4, <1>5, <1>6 DEF OutsideStep

LEMMA ApartHolder ==
  ASSUME TypeOK, MonitorIsMonitored, NEW m \in Match, NEW l \in LockObj, lockQ[m][l] # <<>>,
         Shape(m), HolderStep(m, l)
  PROVE  Apart(m)
<1> USE MatchLifecycleAssumption DEF TypeOK, TaskOK
<1>1. CASE \/ ConfirmBegins(m, l) \/ MonitorExpires(m, l) \/ CheckCompletes(m, l)
           \/ CheckConflicts(m, l) \/ RateSecond(m, l)
  <2>1. PICK pc : Suspend(m, l, pc)
    BY <1>1 DEF ConfirmBegins, MonitorExpires, CheckCompletes, CheckConflicts, RateSecond
  <2>2. \A n \in Match : n # m => /\ lockQ'[n] = lockQ[n] /\ cs'[n] = cs[n]
                                  /\ lockOf'[n] = lockOf[n]
    BY <2>1, SuspendLine
  <2>3. \A n \in Match : n # m => /\ pending'[n] = pending[n] /\ result'[n] = result[n]
                                  /\ mmr'[n] = mmr[n]
    BY <1>1 DEF ConfirmBegins, MonitorExpires, CheckCompletes, CheckConflicts, RateSecond,
       TakeCallbacks, rowVars, RowOK, LockOK
  <2>4. UNCHANGED <<monitor, players, report, checks, upload, told, processed, monitored,
                    failures, view, chan>>
    BY <1>1 DEF ConfirmBegins, MonitorExpires, CheckCompletes, CheckConflicts, RateSecond,
       rowVars, playerVars, svcVars, taskVars, viewVars
  <2> QED BY <2>2, <2>3, <2>4 DEF Apart, Spares
<1>2. CASE \/ ConfirmEndsAlone(m, l) \/ CheckIdle(m, l) \/ AbortMatch(m, l)
           \/ RecordFirst(m, l) \/ RecordSecond(m, l)
  <2>1. Release(m, l) /\ lockOf' = lockOf
    BY <1>2 DEF ConfirmEndsAlone, CheckIdle, AbortMatch, RecordFirst, RecordSecond, RecordFor
  <2>2. \A n \in Match : n # m =>
          lockQ'[n] = lockQ[n] /\ cs'[n] = cs[n] /\ pending'[n] = pending[n]
    BY <2>1, ReleaseLine
  <2>3. \A n \in Match : n # m => /\ report'[n] = report[n] /\ result'[n] = result[n]
                                  /\ checks'[n] = checks[n] /\ upload'[n] = upload[n]
    BY <1>2 DEF ConfirmEndsAlone, CheckIdle, AbortMatch, RecordFirst, RecordSecond, RecordFor,
       rowVars, taskVars, RowOK
  <2>4. UNCHANGED <<monitor, players, mmr, told, processed, monitored, failures, view, chan>>
    BY <1>2 DEF ConfirmEndsAlone, CheckIdle, AbortMatch, RecordFirst, RecordSecond, RecordFor,
       rowVars, playerVars, svcVars, taskVars, viewVars
  <2> QED BY <2>1, <2>2, <2>3, <2>4 DEF Apart, Spares
<1>3. CASE ConfirmEndsBoth(m, l) \/ MonitorFindsResult(m, l)
  <2>1. \/ Release(m, l) /\ UNCHANGED <<lockOf, monitor>>
        \/ ReleaseAndCancelMonitor(m, l)
    BY <1>3 DEF ConfirmEndsBoth, MonitorFindsResult
  <2>2. \A n \in Match : n # m =>
          /\ lockQ'[n] = lockQ[n] /\ cs'[n] = cs[n] /\ pending'[n] = pending[n]
          /\ lockOf'[n] = lockOf[n] /\ monitor'[n] = monitor[n]
    <3>1. CASE Release(m, l) /\ UNCHANGED <<lockOf, monitor>>
      BY <3>1, ReleaseLine
    <3>2. CASE ReleaseAndCancelMonitor(m, l)
      BY <3>2, CancelLine
    <3> QED BY <2>1, <3>1, <3>2
  <2>3. \A n \in Match : n # m => view'[n] = view[n]
    BY <1>3 DEF ConfirmEndsBoth, MonitorFindsResult, viewVars, ViewOK
  <2>4. UNCHANGED <<players, report, result, mmr, checks, upload, told, processed, monitored,
                    failures, chan>>
    BY <1>3 DEF ConfirmEndsBoth, MonitorFindsResult, rowVars, playerVars, svcVars, viewVars
  <2> QED BY <2>2, <2>3, <2>4 DEF Apart, Spares
<1>4. ASSUME HandleAbort(m, l) \/ Complete(m, l) PROVE
        /\ \A n \in Match : n # m =>
             /\ lockQ'[n] = lockQ[n] /\ cs'[n] = cs[n] /\ pending'[n] = pending[n]
             /\ lockOf'[n] = lockOf[n]
             /\ n \in processed' <=> n \in processed
        /\ \A n \in Match, p \in Player :
             /\ view'[n][p] = view[n][p] \/ (view[n][p] = "offered" /\ view'[n][p] = "lost")
             /\ chan'[p] = n => chan[p] = n
  <2>1. PICK pc : Suspend(m, l, pc)
    BY <1>4 DEF HandleAbort, Complete
  <2>2. \A n \in Match : n # m => pending'[n] = pending[n]
    BY <1>4 DEF HandleAbort, Complete, TakeCallbacks, LockOK
  <2>3. \A n \in Match, p \in Player :
             /\ view'[n][p] = view[n][p] \/ (view[n][p] = "offered" /\ view'[n][p] = "lost")
             /\ chan'[p] = n => chan[p] = n
    BY <1>4, SparedViews DEF HandleAbort, Complete
  <2>4. processed' = processed \cup {m}
    BY <1>4 DEF HandleAbort, Complete
  <2> QED BY <2>1, <2>2, <2>3, <2>4, SuspendLine
<1>5. CASE CheckAborts(m, l)
  <2>1. HandleAbort(m, l)
    BY <1>5 DEF CheckAborts
  <2>2. UNCHANGED <<monitor, players, report, result, mmr, checks, upload, told, monitored,
                    failures>>
    BY <1>5 DEF CheckAborts, rowVars, taskVars
  <2> QED BY <1>4, <2>1, <2>2 DEF Apart, Spares
<1>6. CASE Complete(m, l)
  <2>2. UNCHANGED <<monitor, players, report, result, mmr, checks, upload, told, monitored,
                    failures>>
    BY <1>6 DEF Complete, rowVars, taskVars
  <2> QED BY <1>4, <1>6, <2>2 DEF Apart, Spares
<1>7. CASE RateFails(m, l) \/ EndAbort(m, l)
  <2>1. PICK popLock : StopMonitoring(m, l, popLock)
    BY <1>7 DEF RateFails, EndAbort
  <2>2. UNCHANGED <<players, report, result, mmr, checks, upload, told, processed, view, chan>>
    BY <1>7 DEF RateFails, EndAbort, rowVars, playerVars, viewVars
  <2>3. failures' >= failures
    <3>1. failures' \in {failures, failures + 1}
      BY <1>7 DEF RateFails, EndAbort
    <3>2. failures \in Int
      OBVIOUS
    <3> QED BY <3>1, <3>2
  <2> QED BY <2>1, <2>2, <2>3, StopLine DEF Apart, Spares
<1>8. CASE EndComplete(m, l) \/ EndConflict(m, l)
  <2>1. PICK popLock : StopMonitoring(m, l, popLock)
    BY <1>8 DEF EndComplete, EndConflict
  <2>2. /\ UNCHANGED <<players, report, result, mmr, checks, upload, told, failures>>
        /\ \A n \in Match : n # m => (n \in processed' <=> n \in processed)
    BY <1>8 DEF EndComplete, EndConflict, rowVars
  <2>3. \A n \in Match, p \in Player :
          /\ view'[n][p] = view[n][p] \/ (view[n][p] = "offered" /\ view'[n][p] = "lost")
          /\ chan'[p] = n => chan[p] = n
    BY <1>8, SparedViews DEF EndComplete, EndConflict
  <2> QED BY <2>1, <2>2, <2>3, StopLine DEF Apart, Spares
<1>9. CASE MonitorAborts(m, l)
  <2>1. /\ \A n \in Match : n # m => report'[n] = report[n] /\ result'[n] = result[n]
        /\ UNCHANGED <<players, mmr, checks, upload, told, monitored, failures>>
    BY <1>9 DEF MonitorAborts, RowOK
  <2>2. CASE AlreadyProcessed(m)
    <3>1. ReleaseAndCancelMonitor(m, l) /\ UNCHANGED <<view, chan, processed>>
      BY <1>9, <2>2 DEF MonitorAborts, playerVars
    <3> QED BY <2>1, <3>1, CancelLine DEF Apart, Spares
  <2>3. CASE ~AlreadyProcessed(m)
    <3>1. HandleAbort(m, l) /\ UNCHANGED monitor
      BY <1>9, <2>3 DEF MonitorAborts
    <3> QED BY <1>4, <2>1, <3>1 DEF Apart, Spares
  <2> QED BY <2>2, <2>3
<1>10. ASSUME NEW c \in Callback, Deliver(m, l, c) PROVE Apart(m)
  <2>1. \A n \in Match : n # m =>
          pending'[n] = pending[n] /\ told'[n] = told[n] /\ view'[n] = view[n]
    BY <1>10 DEF Deliver, LockOK, ViewOK
  <2>2. \A n \in Match, p \in Player : chan'[p] = n => chan[p] = n
    BY <1>10 DEF Deliver, PlayerOK
  <2>3. UNCHANGED <<lockQ, cs, lockOf, monitor, players, report, result, mmr, checks, upload,
                    processed, monitored, failures>>
    BY <1>10 DEF Deliver, rowVars, svcVars, taskVars
  <2> QED BY <2>1, <2>2, <2>3 DEF Apart, Spares
<1> QED BY <1>1, <1>2, <1>3, <1>5, <1>6, <1>7, <1>8, <1>9, <1>10 DEF HolderStep

\* Players who queue touch no match, the creation of a match only that match.
LEMMA ApartQueue ==
  ASSUME TypeOK, NEW p \in Player, JoinQueue(p) \/ LeaveQueue(p), NEW n \in Match
  PROVE  Spares(n)
<1> USE MatchLifecycleAssumption DEF TypeOK
<1>1. UNCHANGED <<rowVars, svcVars, lockVars, taskVars, told, chan>>
  BY DEF JoinQueue, LeaveQueue, viewVars
<1>2. \A q \in Player :
        view'[n][q] = view[n][q] \/ (view[n][q] = "offered" /\ view'[n][q] = "lost")
  BY DEF JoinQueue, LeaveQueue, viewVars, CancelListeners, ViewOK
<1> QED BY <1>1, <1>2 DEF Spares, rowVars, svcVars, lockVars, taskVars, TaskOK

LEMMA ApartCreate ==
  ASSUME TypeOK, NEW m \in Match, NEW p \in Player, NEW q \in Player, CreateMatch(m, p, q)
  PROVE  /\ Apart(m)
         /\ UNCHANGED <<report, result, mmr, aborts, svcVars, lockVars, taskVars, chan, told>>
         /\ \A r \in Player : view'[m][r] \in {"none", "offered"}
         /\ players[m] = <<>> /\ players'[m] = <<p, q>> /\ p # q
<1> USE DEF TypeOK
<1>1. /\ UNCHANGED <<report, result, mmr, aborts, svcVars, lockVars, taskVars, chan, told>>
      /\ players[m] = <<>> /\ players'[m] = <<p, q>> /\ p # q
      /\ \A n \in Match : n # m => players'[n] = players[n] /\ view'[n] = view[n]
      /\ \A r \in Player : view'[m][r] \in {"none", "offered"}
  BY DEF CreateMatch, RowOK, ViewOK
<1>2. Apart(m)
  BY <1>1 DEF Apart, Spares, svcVars, lockVars, taskVars, TaskOK
<1> QED BY <1>1, <1>2

\* Of a step, the match it acts on, and what it does there.
LEMMA ShapeSuspend ==
  ASSUME TypeOK, NEW m \in Match, NEW l \in LockObj, NEW pc, lockQ[m][l] # <<>>, Shape(m),
         Suspend(m, l, pc), monitor'[m] = monitor[m],
         \A k \in LockObj : k # l => pending'[m][k] = pending[m][k],
         pending'[m][l] # {} => pc \in {"timeout", "complete", "abort", "conflict"},
         pc = "timeout" => Head(lockQ[m][l]) = Monitor
  PROVE  Shape(m)'
<1>1. /\ UNCHANGED lockQ
      /\ \A k \in LockObj : cs'[m][k] = IF k = l THEN pc ELSE cs[m][k]
  BY SuspendLine
<1>2. HolderShape(m)'
  BY <1>1 DEF Shape, HolderShape
<1>3. OneMonitor(m)'
  BY <1>1 DEF Shape, OneMonitor, InLine
<1> QED BY <1>2, <1>3 DEF Shape

LEMMA ShapeHolder ==
  ASSUME TypeOK, MonitorIsMonitored, NEW m \in Match, NEW l \in LockObj, lockQ[m][l] # <<>>,
         Shape(m), HolderStep(m, l)
  PROVE  Shape(m)'
<1> USE DEF TypeOK
<1>0. \A pc : pc \notin {"timeout", "complete", "abort", "conflict"} /\ cs[m][l] = pc =>
             pending[m][l] = {}
  BY DEF Shape, HolderShape
<1>1. CASE \/ ConfirmBegins(m, l) \/ CheckCompletes(m, l) \/ RateSecond(m, l)
  <2>1. PICK pc \in {"fetch", "mmr1", "mmr2"} : Suspend(m, l, pc)
    BY <1>1 DEF ConfirmBegins, CheckCompletes, RateSecond
  <2>2. UNCHANGED <<pending, monitor>> /\ pending[m][l] = {}
    BY <1>0, <1>1 DEF ConfirmBegins, CheckCompletes, RateSecond, Checking, At, taskVars
  <2> QED BY <2>1, <2>2, ShapeSuspend
<1>2. CASE MonitorExpires(m, l)
  <2>1. Head(lockQ[m][l]) = Monitor
    <3>1. Head(lockQ[m][l]) \in Task /\ Head(lockQ[m][l])[1] = "monitor"
      BY <1>2, HeadIsTask DEF MonitorExpires, Holds
    <3> QED BY <3>1 DEF Task, Monitor, Check
  <2>2. /\ Suspend(m, l, "timeout") /\ monitor' = monitor
        /\ \A k \in LockObj : k # l => pending'[m][k] = pending[m][k]
    BY <1>2 DEF MonitorExpires, taskVars, LockOK
  <2> QED BY <2>1, <2>2, ShapeSuspend
<1>3. ASSUME TakeCallbacks(m, l)
      PROVE  \A k \in LockObj : k # l => pending'[m][k] = pending[m][k]
  BY <1>3 DEF TakeCallbacks, LockOK
<1>4. CASE CheckConflicts(m, l) \/ Complete(m, l) \/ CheckAborts(m, l)
  <2>1. PICK pc \in {"conflict", "complete", "abort"} : Suspend(m, l, pc)
    BY <1>4 DEF CheckConflicts, Complete, CheckAborts, HandleAbort
  <2>2. UNCHANGED monitor /\ TakeCallbacks(m, l)
    BY <1>4 DEF CheckConflicts, Complete, CheckAborts, HandleAbort, taskVars
  <2> QED BY <1>3, <2>1, <2>2, ShapeSuspend
<1>5. CASE \/ ConfirmEndsAlone(m, l) \/ CheckIdle(m, l) \/ AbortMatch(m, l)
           \/ RecordFirst(m, l) \/ RecordSecond(m, l)
  <2>1. Release(m, l) /\ UNCHANGED monitor
    BY <1>5 DEF ConfirmEndsAlone, CheckIdle, AbortMatch, RecordFirst, RecordSecond, RecordFor,
       taskVars
  <2> QED BY <2>1, ShapeRelease
<1>6. CASE ConfirmEndsBoth(m, l) \/ MonitorFindsResult(m, l)
  <2>1. CASE Release(m, l) /\ UNCHANGED monitor
    BY <2>1, ShapeRelease
  <2>2. CASE ReleaseAndCancelMonitor(m, l)
    BY <2>2, CancelLine
  <2> QED BY <1>6, <2>1, <2>2 DEF ConfirmEndsBoth, MonitorFindsResult
<1>7. CASE RateFails(m, l) \/ EndAbort(m, l) \/ EndComplete(m, l) \/ EndConflict(m, l)
  <2>1. PICK popLock : StopMonitoring(m, l, popLock)
    BY <1>7 DEF RateFails, EndAbort, EndComplete, EndConflict
  <2> QED BY <2>1, StopLine
<1>8. CASE MonitorAborts(m, l)
  <2>1. CASE ReleaseAndCancelMonitor(m, l)
    BY <2>1, CancelLine
  <2>2. CASE HandleAbort(m, l) /\ UNCHANGED monitor
    <3>1. Suspend(m, l, "abort") /\ TakeCallbacks(m, l)
      BY <2>2 DEF HandleAbort
    <3> QED BY <1>3, <2>2, <3>1, ShapeSuspend
  <2> QED BY <1>8, <2>1, <2>2 DEF MonitorAborts
<1>9. ASSUME NEW c \in Callback, Deliver(m, l, c) PROVE Shape(m)'
  <2>1. UNCHANGED <<lockQ, cs, monitor>>
    BY <1>9 DEF Deliver, taskVars
  <2>2. \A k \in LockObj : pending'[m][k] \subseteq pending[m][k]
    BY <1>9 DEF Deliver, LockOK
  <2> QED BY <2>1, <2>2, ShapeKept
<1> QED BY <1>1, <1>2, <1>4, <1>5, <1>6, <1>7, <1>8, <1>9 DEF HolderStep

LEMMA ShapeOutside ==
  ASSUME TypeOK, NEW m \in Match, Shape(m), MonitorIsMonitored,
         OutsideStep(m)
  PROVE  Shape(m)'
<1> USE DEF TypeOK
<1>1. CASE MonitorWakes(m)
  <2>1. GetLock(m, Monitor) /\ monitor[m] = "sleep" /\ monitor'[m] = "run" /\ Monitor \in Task
    BY <1>1 DEF MonitorWakes, Task, TaskOK
  <2> QED BY <2>1, ShapeLine
<1>2. CASE \/ StartCheck(m)
           \/ \E p \in Player : \/ RecordReport(m, p)
                                \/ \E button \in {"confirm", "abort"} : Click(m, p, button)
  <2>1. PICK task \in Task \ {Monitor} : GetLock(m, task) /\ UNCHANGED monitor
    BY <1>2 DEF StartCheck, RecordReport, Click, Task, Monitor, Check, taskVars
  <2> QED BY <2>1, ShapeLine
<1>3. CASE \E p \in Player : \/ OpponentNotified(m, p) \/ \E v \in Outcome : StartUpload(m, p, v)
                            \/ ShowMatchFails(m, p) \/ PublishFoundView(m, p)
                            \/ FoundViewFails(m, p)
  <2>1. UNCHANGED <<lockVars, monitor>>
    BY <1>3 DEF OpponentNotified, StartUpload, ShowMatchFails, PublishFoundView, FoundViewFails,
       taskVars
  <2> QED BY <2>1, ShapeKept DEF lockVars
<1>4. ASSUME NEW p \in Player, ShowMatch(m, p) \/ BuildFoundView(m, p) PROVE Shape(m)'
  <2>1. UNCHANGED lockVars /\ \E c : StartMonitoring(m, c)
    BY <1>4 DEF ShowMatch, BuildFoundView
  <2>2. CASE m \in monitored
    BY <2>1, <2>2, ShapeKept DEF StartMonitoring, lockVars
  <2>3. CASE m \notin monitored
    <3>1. monitor[m] = "none"
      BY <2>3 DEF MonitorIsMonitored
    <3>2. \A k \in LockObj : Monitor \notin InLine(m, k)
      BY <3>1 DEF Shape, OneMonitor
    <3> QED BY <2>1, <3>2 DEF Shape, HolderShape, OneMonitor, InLine, lockVars
  <2> QED BY <2>2, <2>3
<1> QED BY <1>1, <1>2, <1>3, <1>4 DEF OutsideStep, ViewStep, UploadStep

\* Every step spares all the matches, or all but the one it acts on.
LEMMA StepOf ==
  ASSUME TypeOK, MonitorIsMonitored, \A n \in Match : Shape(n), [Next]_vars
  PROVE  \/ \A n \in Match : Spares(n)
         \/ \E m \in Match : /\ Apart(m)
                             /\ \/ \E p, q \in Player : CreateMatch(m, p, q)
                                \/ OutsideStep(m)
                                \/ \E l \in LockObj : lockQ[m][l] # <<>> /\ HolderStep(m, l)
<1>1. CASE UNCHANGED vars
  <2>1. \A n \in Match : Spares(n)
    BY <1>1 DEF vars, rowVars, playerVars, svcVars, lockVars, taskVars, viewVars, Spares,
       TypeOK, TaskOK
  <2> QED BY <2>1
<1>2. ASSUME NEW p \in Player, JoinQueue(p) \/ LeaveQueue(p)
      PROVE  \A n \in Match : Spares(n)
  BY <1>2, ApartQueue
<1>3. ASSUME NEW m \in Match, OutsideStep(m)
      PROVE  Apart(m)
  BY <1>3, ApartOutside
<1>4. ASSUME NEW m \in Match, NEW l \in LockObj, HolderStep(m, l)
      PROVE  Apart(m) /\ lockQ[m][l] # <<>>
  <2>1. lockQ[m][l] # <<>>
    BY <1>4
    DEF HolderStep, ConfirmBegins, ConfirmEndsAlone, ConfirmEndsBoth, AbortMatch, RecordFirst,
        RecordSecond, CheckIdle, CheckAborts, CheckCompletes, CheckConflicts, Checking,
        RateSecond, RateFails, Complete, EndAbort, EndComplete, EndConflict, MonitorExpires,
        MonitorFindsResult, MonitorAborts, Deliver, Told, At, Holds
  <2> QED BY <1>4, <2>1, ApartHolder
<1>5. CASE Next
  <2>1. CASE PlayerStep
    <3>1. CASE \E p \in Player : JoinQueue(p) \/ LeaveQueue(p)
      BY <1>2, <3>1
    <3>2. CASE \E m \in Match, p, q \in Player : CreateMatch(m, p, q)
      BY <3>2, ApartCreate
    <3>3. CASE \E m \in Match, p \in Player :
                 \/ ClickConfirm(m, p) \/ ClickAbort(m, p)
                 \/ \E v \in Outcome : StartUpload(m, p, v)
      <4>1. \E m \in Match : OutsideStep(m)
        BY <3>3 DEF ClickConfirm, ClickAbort, OutsideStep
      <4> QED BY <1>3, <4>1
    <3> QED BY <2>1, <3>1, <3>2, <3>3 DEF PlayerStep
  <2>2. CASE \E m \in Match, p \in Player : ViewStep(m, p) \/ UploadStep(m, p)
    BY <1>3, <2>2 DEF OutsideStep
  <2>3. CASE \E m \in Match, l \in LockObj : HolderStep(m, l)
    BY <1>4, <2>3
  <2>4. CASE \E m \in Match : StartCheck(m) \/ MonitorWakes(m)
    BY <1>3, <2>4 DEF OutsideStep
  <2> QED BY <1>5, <2>1, <2>2, <2>3, <2>4 DEF Next
<1> QED BY <1>1, <1>5

\* Of a lock, the holder awaits only what its state awaits; the timer's task is in line
\* once and only while it runs, although it is cancelled wherever it happens to be.
Shaped == \A m \in Match : Shape(m)

\* Whichever task holds a lock of a match is at one of the awaits of its section, and the
\* timer of the match waits for one lock at most, once.
THEOREM HoldersInShape == Spec => []Shaped
<1>1. Init => Shaped
  <2> SUFFICES ASSUME Init, NEW m \in Match PROVE Shape(m)
    BY DEF Shaped
  <2>1. HolderShape(m)
    BY DEF Init, HolderShape
  <2>2. OneMonitor(m)
    BY DEF Init, OneMonitor, InLine, ToSet, Once
  <2> QED BY <2>1, <2>2 DEF Shape
<1>2. ASSUME TypeOK, MonitorIsMonitored, Shaped, [Next]_vars PROVE Shaped'
  <2>1. ASSUME NEW n \in Match, Spares(n) PROVE Shape(n)'
    BY <1>2, <2>1, ShapeKept DEF Spares, Shaped
  <2>2. ASSUME NEW m \in Match, NEW p \in Player, NEW q \in Player, CreateMatch(m, p, q)
        PROVE  Shape(m)'
    <3>1. UNCHANGED <<lockVars, taskVars>>
      BY <1>2, <2>2, ApartCreate
    <3> QED BY <1>2, <3>1, ShapeKept DEF lockVars, taskVars, Shaped
  <2>3. CASE \A n \in Match : Spares(n)
    BY <2>1, <2>3 DEF Shaped
  <2>4. ASSUME NEW m \in Match, Apart(m), Shape(m)' PROVE Shaped'
    BY <2>1, <2>4 DEF Apart, Shaped
  <2> QED BY <1>2, <2>2, <2>3, <2>4, StepOf, ShapeOutside, ShapeHolder DEF Shaped
<1> QED BY <1>1, <1>2, TypeCorrect, MonitorBelongs, PTL DEF Spec

-----------------------------------------------------------------------------
(* The row says -1 in a report only together with the result of an abort *)

Coded == \A m \in Match : ReportCodes(m)

LEMMA CodedHolder ==
  ASSUME TypeOK, RowStep, NEW m \in Match, NEW l \in LockObj, lockQ[m][l] # <<>>,
         ReportCodes(m), HolderStep(m, l)
  PROVE  ReportCodes(m)'
<1> USE MatchLifecycleAssumption DEF TypeOK
<1>1. result[m] = -1 => result'[m] = -1
  BY DEF RowStep
<1>2. CASE report'[m] = report[m]
  BY <1>1, <1>2 DEF ReportCodes
<1>3. CASE AbortMatch(m, l)
  <2>1. CASE IsTerminal(m)
    BY <1>2, <1>3, <2>1 DEF AbortMatch
  <2>2. CASE ~IsTerminal(m)
    BY <1>3, <2>2 DEF AbortMatch, ReportCodes, RowOK
  <2> QED BY <2>1, <2>2
<1>4. ASSUME NEW i \in 1..2, NEW p \in Player, NEW after, RecordFor(m, l, i, p, after)
      PROVE  ReportCodes(m)'
  <2>1. upload[m][p].value \in Outcome \cup {None}
    BY DEF TaskOK, Upload
  <2>2. upload[m][p].value # -1
    BY <2>1
  <2>3. \A j \in 1..2 : report'[m][j] \in {report[m][j], upload[m][p].value}
    BY <1>4 DEF RecordFor, RowOK
  <2> QED BY <1>1, <2>2, <2>3 DEF ReportCodes
<1>5. CASE RecordFirst(m, l)
  BY <1>4, <1>5, HolderIsPlayer DEF RecordFirst
<1>6. CASE RecordSecond(m, l)
  BY <1>4, <1>6, HolderIsPlayer DEF RecordSecond
<1>7. CASE MonitorAborts(m, l)
  <2>1. report'[m] = <<UnconfirmedCode(m, players[m][1]), UnconfirmedCode(m, players[m][2])>>
    BY <1>7 DEF MonitorAborts, RowOK
  <2>2. \A p : UnconfirmedCode(m, p) # -1
    BY DEF UnconfirmedCode
  <2> QED BY <2>1, <2>2 DEF ReportCodes
<1> QED
  BY <1>2, <1>3, <1>5, <1>6, <1>7
  DEF HolderStep, ConfirmBegins, ConfirmEndsAlone, ConfirmEndsBoth, CheckIdle, CheckAborts,
      CheckCompletes, CheckConflicts, RateSecond, RateFails, Complete, EndAbort, EndComplete,
      EndConflict, MonitorExpires, MonitorFindsResult, Deliver, rowVars

LEMMA CodedNext ==
  ASSUME TypeOK, MonitorIsMonitored, Shaped, Coded, [Next]_vars
  PROVE  Coded'
<1>1. RowStep
  BY RowStepHolds
<1>2. ASSUME NEW n \in Match, report'[n] = report[n] PROVE ReportCodes(n)'
  BY <1>1, <1>2, MatchLifecycleAssumption DEF Coded, ReportCodes, RowStep
<1>3. ASSUME NEW m \in Match, OutsideStep(m) PROVE report'[m] = report[m]
  BY <1>3 DEF OutsideStep, ViewStep, UploadStep, ShowMatch, ShowMatchFails, BuildFoundView,
     PublishFoundView, FoundViewFails, RecordReport, OpponentNotified, Click, StartUpload,
     StartCheck, MonitorWakes, rowVars
<1>4. ASSUME NEW m \in Match, Apart(m), ReportCodes(m)' PROVE Coded'
  BY <1>2, <1>4 DEF Apart, Spares, Coded
<1>5. CASE \A n \in Match : Spares(n)
  BY <1>2, <1>5 DEF Spares, Coded
<1>6. ASSUME NEW m \in Match, NEW p \in Player, NEW q \in Player, CreateMatch(m, p, q)
      PROVE  report'[m] = report[m]
  BY <1>6 DEF CreateMatch
<1> QED BY <1>1, <1>2, <1>3, <1>4, <1>5, <1>6, StepOf, CodedHolder DEF Shaped, Coded

-----------------------------------------------------------------------------
(* The locks do their duty *)

LEMMA WaitingInLine ==
  ASSUME NEW m \in Match, NEW t
  PROVE  t \in Waiting(m) <=> \E l \in LockObj : t \in InLine(m, l)
BY DEF Waiting, InLine

LEMMA WaitingInLineNext ==
  ASSUME NEW m \in Match, NEW t
  PROVE  t \in Waiting(m)' <=> \E l \in LockObj : t \in InLine(m, l)'
BY DEF Waiting, InLine

\* What is left of the invariant when the two sides of a step agree on what the match
\* has come to: no step gives back a result or forgets a failed refresh.
LEMMA StillOpen ==
  ASSUME TypeOK, NEW m \in Match, failures' >= failures,
         result'[m] = result[m] \/ result[m] \notin Outcome,
         m \in processed => m \in processed'
  PROVE  (Sound(m)' => Sound(m)) /\ (Open(m)' => Open(m))
BY DEF Sound, Open, TypeOK, TaskOK

\* A step that only takes tasks out of line or has a holder fetch or wait.
LEMMA GuardedQuiet ==
  ASSUME TypeOK, NEW m \in Match, Guarded(m), failures' >= failures, result'[m] = result[m],
         m \in processed' <=> m \in processed, m \in monitored' <=> m \in monitored,
         monitor'[m] = monitor[m], lockOf'[m] = lockOf[m],
         checks'[m] = checks[m], upload'[m] = upload[m],
         \A k \in LockObj : /\ InLine(m, k)' \subseteq InLine(m, k)
                            /\ cs'[m][k] \in {cs[m][k], "enter", "fetch", "timeout"},
         \A p \in Player :
           /\ chan'[p] = m => chan[p] = m
           /\ \/ view'[m][p] \in {view[m][p], "none", "offered", "lost"}
              \/ view'[m][p] \in {"closed", "expired"} /\ Waiting(m) # {}
  PROVE  Guarded(m)'
<1>1. (Sound(m)' => Sound(m)) /\ (Open(m)' => Open(m))
  BY StillOpen
<1>2. \A t : t \in Waiting(m)' => t \in Waiting(m)
  BY WaitingInLine, WaitingInLineNext
<1>3. Unwatched(m)'
  BY <1>1, <1>2 DEF Guarded, Unwatched
<1>4. Unrevealed(m)'
  BY <1>1, <1>2 DEF Guarded, Unrevealed
<1>5. ChecksInLine(m)'
  BY <1>1 DEF Guarded, ChecksInLine
<1>6. HandlerWatches(m)'
  BY <1>1 DEF Guarded, HandlerWatches
<1>7. HandlerResult(m)'
  BY DEF Guarded, HandlerResult
<1>8. Alone(m)'
  BY <1>1 DEF Guarded, Alone, HandlerPc
<1> QED BY <1>3, <1>4, <1>5, <1>6, <1>7, <1>8 DEF Guarded

\* A step that, while the match is open, can only happen once it is revealed: the views
\* and the uploads of the players are free to do anything then.
LEMMA GuardedReveal ==
  ASSUME TypeOK, NEW m \in Match, Guarded(m), failures' >= failures, result'[m] = result[m],
         m \in processed' <=> m \in processed,
         \A k \in LockObj : /\ InLine(m, k)' \subseteq InLine(m, k)
                            /\ cs'[m][k] \in {cs[m][k], "enter"},
         lockOf'[m] = lockOf[m],
         Open(m) => m \in monitored' /\ monitor'[m] = "none"
  PROVE  Guarded(m)'
<1>1. (Sound(m)' => Sound(m)) /\ (Open(m)' => Open(m)) /\ (m \notin processed /\ Sound(m) => Open(m))
  BY StillOpen DEF Open
<1>3. Unwatched(m)' /\ Unrevealed(m)'
  BY <1>1 DEF Unwatched, Unrevealed
<1>5. ChecksInLine(m)'
  BY <1>1 DEF Guarded, ChecksInLine
<1>6. HandlerWatches(m)'
  BY <1>1 DEF Guarded, HandlerWatches
<1>7. HandlerResult(m)'
  BY DEF Guarded, HandlerResult
<1>8. Alone(m)'
  BY <1>1 DEF Guarded, Alone, HandlerPc
<1> QED BY <1>3, <1>5, <1>6, <1>7, <1>8 DEF Guarded

\* A task gets in line.
LEMMA GuardedLine ==
  ASSUME TypeOK, NEW m \in Match, NEW task \in Task, Guarded(m), GetLock(m, task),
         failures' = failures, result'[m] = result[m],
         m \in processed' <=> m \in processed, m \in monitored' <=> m \in monitored,
         monitor'[m] = "none" <=> monitor[m] = "none",
         Open(m) => m \in monitored,
         task[1] \in {"record1", "record2"} \/ upload'[m] # upload[m] =>
           (Open(m) => monitor[m] = "none"),
         checks'[m] > 0 \/ task = Check => checks[m] > 0,
         \A p \in Player : chan'[p] = chan[p] /\ view'[m][p] = view[m][p]
  PROVE  Guarded(m)'
<1> USE DEF TypeOK
<1>0. PICK l \in LockObj :
        /\ lockOf'[m] = l /\ (lockOf[m] # None => l = lockOf[m])
        /\ InLine(m, l)' = InLine(m, l) \cup {task}
        /\ \A k \in LockObj : k # l => InLine(m, k)' = InLine(m, k)
        /\ UNCHANGED cs
  BY GetLockLine
<1>1. (Sound(m)' <=> Sound(m)) /\ (Open(m)' <=> Open(m))
  BY DEF Sound, Open
<1>2. \A t : t \in Waiting(m)' => t \in Waiting(m) \/ t = task
  BY <1>0, WaitingInLine, WaitingInLineNext
<1>3. Unwatched(m)'
  BY <1>1 DEF Unwatched
<1>4. Unrevealed(m)'
  <2>1. \A p : <<"record1", p>>[1] = "record1" /\ <<"record2", p>>[1] = "record2"
    OBVIOUS
  <2> SUFFICES ASSUME Open(m), monitor[m] # "none"
               PROVE  /\ result'[m] \notin Outcome
                      /\ checks'[m] > 0 \/ Check \in Waiting(m)' => result'[m] = -1
                      /\ \A p \in Player :
                           /\ view'[m][p] \notin {"building", "found", "live"}
                           /\ upload'[m][p].pc = "none" /\ chan'[p] # m
                           /\ <<"record1", p>> \notin Waiting(m)'
                           /\ <<"record2", p>> \notin Waiting(m)'
    BY <1>1 DEF Unrevealed
  <2>2. task[1] \notin {"record1", "record2"} /\ upload'[m] = upload[m]
    OBVIOUS
  <2> QED BY <1>2, <2>1, <2>2 DEF Guarded, Unrevealed
<1>5. ChecksInLine(m)'
  <2>1. \A k \in LockObj : k # None
    BY MatchLifecycleAssumption
  <2> QED BY <1>0, <1>1, <2>1 DEF Guarded, ChecksInLine
<1>6. HandlerWatches(m)'
  <2>1. \A k \in LockObj : k # None
    BY MatchLifecycleAssumption
  <2> QED BY <1>0, <1>1, <2>1 DEF Guarded, HandlerWatches
<1>7. HandlerResult(m)'
  BY <1>0 DEF Guarded, HandlerResult
<1>8. Alone(m)'
  BY <1>0, <1>1 DEF Guarded, Alone
<1> QED BY <1>3, <1>4, <1>5, <1>6, <1>7, <1>8 DEF Guarded

\* The first view of a match starts its monitoring.
LEMMA GuardedShow ==
  ASSUME TypeOK, MonitorIsMonitored, NEW m \in Match, NEW p \in Player, Guarded(m),
         ShowMatch(m, p)
  PROVE  Guarded(m)'
<1> USE DEF TypeOK
<1>1. /\ UNCHANGED <<rowVars, lockVars, chan, processed, checks, upload, failures>>
      /\ \A q \in Player : view'[m][q] = IF q = p THEN "notification" ELSE view[m][q]
      /\ monitored' = monitored \cup {m}
      /\ monitor'[m] = IF m \in monitored THEN monitor[m] ELSE "sleep"
  BY DEF ShowMatch, StartMonitoring, ViewOK, TaskOK
<1>2. /\ \A k \in LockObj : InLine(m, k)' = InLine(m, k) /\ cs' = cs
      /\ Waiting(m)' = Waiting(m) /\ result' = result /\ lockOf' = lockOf
  BY <1>1 DEF lockVars, rowVars, InLine, Waiting
<1>3. (Sound(m)' <=> Sound(m)) /\ (Open(m)' <=> Open(m))
  BY <1>1, <1>2 DEF Sound, Open
<1>4. Unwatched(m)'
  BY <1>1 DEF Unwatched
<1>5. Unrevealed(m)'
  BY <1>1, <1>2, <1>3 DEF Guarded, Unrevealed
<1>6. ChecksInLine(m)'
  BY <1>2, <1>3 DEF Guarded, ChecksInLine
<1>7. HandlerWatches(m)'
  BY <1>1, <1>2, <1>3 DEF Guarded, HandlerWatches
<1>8. HandlerResult(m)' /\ Alone(m)'
  BY <1>1, <1>2, <1>3 DEF Guarded, HandlerResult, Alone
<1> QED BY <1>4, <1>5, <1>6, <1>7, <1>8 DEF Guarded

\* Of an open match that has a view of a kind or an upload, who can act on it.
LEMMA OpenRevealed ==
  ASSUME NEW m \in Match, Guarded(m), Open(m), NEW p \in Player,
         \/ view[m][p] \in {"building", "found", "live"} \/ chan[p] = m
         \/ upload[m][p].pc # "none"
         \/ <<"record1", p>> \in Waiting(m) \/ <<"record2", p>> \in Waiting(m)
  PROVE  m \in monitored /\ monitor[m] = "none"
BY DEF Guarded, Unrevealed

LEMMA OpenWatched ==
  ASSUME NEW m \in Match, Guarded(m), Open(m),
         \/ \E p \in Player : view[m][p] \notin {"none", "offered", "lost"}
         \/ Waiting(m) # {} \/ checks[m] # 0
  PROVE  m \in monitored
BY DEF Guarded, Unwatched

LEMMA GuardedOutside ==
  ASSUME TypeOK, MonitorIsMonitored, NEW m \in Match, Guarded(m), OutsideStep(m)
  PROVE  Guarded(m)'
<1> USE DEF TypeOK
<1>0. UNCHANGED <<lockVars, rowVars>> =>
        /\ \A k \in LockObj : InLine(m, k)' = InLine(m, k) /\ cs' = cs
        /\ lockOf' = lockOf /\ result' = result
  BY DEF lockVars, rowVars, InLine
<1>1. ASSUME NEW p \in Player, NEW button \in {"confirm", "abort"}, Click(m, p, button)
      PROVE  Guarded(m)'
  <2>1. /\ <<button, p>> \in Task /\ GetLock(m, <<button, p>>) /\ <<button, p>> # Check
        /\ <<button, p>>[1] \notin {"record1", "record2"}
    BY <1>1 DEF Click, Task, Check
  <2>2. Open(m) => m \in monitored
    BY <1>1, OpenWatched DEF Click, Clickable
  <2>3. UNCHANGED <<failures, result, processed, monitored, monitor, upload, checks, chan, view>>
    BY <1>1 DEF Click, rowVars, playerVars, svcVars, taskVars
  <2> QED BY <2>1, <2>2, <2>3, GuardedLine
<1>2. ASSUME NEW p \in Player, RecordReport(m, p) PROVE Guarded(m)'
  <2>1. PICK kind \in {"record1", "record2"} : GetLock(m, <<kind, p>>)
    BY <1>2 DEF RecordReport
  <2>2. <<kind, p>> \in Task /\ <<kind, p>> # Check
    BY DEF Task, Check
  <2>3. Open(m) => m \in monitored /\ monitor[m] = "none"
    BY <1>2, OpenRevealed DEF RecordReport
  <2>4. UNCHANGED <<failures, result, processed, monitored, monitor, checks, chan, view>>
    BY <1>2 DEF RecordReport, rowVars, playerVars, svcVars, viewVars
  <2> QED BY <2>1, <2>2, <2>3, <2>4, GuardedLine
<1>3. CASE StartCheck(m) \/ MonitorWakes(m)
  <2>1. PICK task \in {Check, Monitor} :
          /\ GetLock(m, task) /\ (task = Check => checks[m] > 0)
          /\ task = Check => monitor' = monitor
          /\ task = Monitor => monitor[m] = "sleep" /\ monitor'[m] = "run"
          /\ checks'[m] > 0 => checks[m] > 0
    <3>1. CASE StartCheck(m)
      BY <3>1 DEF StartCheck, Check, Monitor
    <3>2. CASE MonitorWakes(m)
      BY <3>2 DEF MonitorWakes, Check, Monitor, TaskOK
    <3> QED BY <1>3, <3>1, <3>2
  <2>2. task \in Task /\ task[1] \notin {"record1", "record2"}
    BY DEF Task, Check, Monitor
  <2>3. Open(m) => m \in monitored
    BY <1>3, OpenWatched DEF StartCheck, MonitorWakes, MonitorIsMonitored
  <2>4. UNCHANGED <<failures, result, processed, monitored, upload, chan, view>>
    BY <1>3 DEF StartCheck, MonitorWakes, rowVars, playerVars, svcVars, viewVars
  <2> QED BY <2>1, <2>2, <2>3, <2>4, GuardedLine
<1>4. ASSUME NEW p \in Player, ShowMatchFails(m, p) \/ FoundViewFails(m, p)
      PROVE  Guarded(m)'
  <2>1. /\ UNCHANGED <<rowVars, svcVars, lockVars, taskVars, chan>>
        /\ \A q \in Player : view'[m][q] \in {view[m][q], "lost"}
    BY <1>4 DEF ShowMatchFails, FoundViewFails, playerVars, ViewOK
  <2>2. failures' >= failures
    BY <2>1 DEF taskVars, TaskOK
  <2> QED BY <1>0, <2>1, <2>2, GuardedQuiet DEF svcVars, taskVars
<1>5. ASSUME NEW p \in Player,
             \/ OpponentNotified(m, p) \/ PublishFoundView(m, p) \/ BuildFoundView(m, p)
             \/ \E v \in Outcome : StartUpload(m, p, v)
      PROVE  Guarded(m)'
  <2>1. Open(m) => m \in monitored /\ monitor[m] = "none"
    BY <1>5, OpenRevealed DEF OpponentNotified, PublishFoundView, BuildFoundView, StartUpload
  <2>2. UNCHANGED <<rowVars, lockVars, processed, failures>>
    BY <1>5 DEF OpponentNotified, PublishFoundView, BuildFoundView, StartUpload, svcVars, taskVars
  <2>3. m \in monitored => m \in monitored' /\ monitor'[m] = monitor[m]
    BY <1>5 DEF OpponentNotified, PublishFoundView, BuildFoundView, StartUpload, svcVars,
       taskVars, StartMonitoring
  <2>4. failures' >= failures
    BY <2>2 DEF TaskOK
  <2> QED BY <1>0, <2>1, <2>2, <2>3, <2>4, GuardedReveal
<1> QED BY <1>1, <1>2, <1>3, <1>4, <1>5, GuardedShow DEF OutsideStep, ViewStep, UploadStep

\* A holder that releases its lock and stops the abort timer of an open match.  Nobody
\* was revealed yet, so that nothing but checks of an abort can be in line.
LEMMA GuardedCancel ==
  ASSUME TypeOK, MonitorIsMonitored, NEW m \in Match, Guarded(m), monitor[m] # "none",
         failures' = failures,
         result'[m] = result[m] \/ (result[m] = None /\ result'[m] = -1),
         m \in processed' <=> m \in processed, m \in monitored' <=> m \in monitored,
         monitor'[m] = "none",
         \A k \in LockObj : /\ InLine(m, k)' \subseteq InLine(m, k)
                            /\ cs'[m][k] \in {cs[m][k], "enter"}
  PROVE  Guarded(m)'
<1> USE MatchLifecycleAssumption DEF TypeOK
<1>0. None \notin Outcome /\ -1 \notin Outcome
  OBVIOUS
<1>1. m \in monitored'
  BY DEF MonitorIsMonitored
<1>2. (Sound(m)' => Sound(m)) /\ (Open(m)' => Open(m))
  BY <1>0 DEF Sound, Open
<1>3. Unwatched(m)' /\ Unrevealed(m)'
  BY <1>1 DEF Unwatched, Unrevealed
<1>4. Sound(m) => \A k \in LockObj : cs[m][k] \notin {"mmr1", "mmr2", "conflict"}
  BY DEF Guarded, HandlerWatches
<1>5. ChecksInLine(m)'
  <2> SUFFICES ASSUME Open(m)', NEW k \in LockObj, Check \in InLine(m, k)',
                      result'[m] # -1 \/ \E j \in LockObj : cs'[m][j] = "conflict"
               PROVE  FALSE
    BY DEF ChecksInLine
  <2>1. Check \in Waiting(m)
    BY WaitingInLine
  <2>2. result[m] = -1
    BY <1>2, <2>1 DEF Guarded, Unrevealed
  <2>3. PICK j \in LockObj : cs'[m][j] = "conflict"
    BY <2>2
  <2>4. cs[m][j] = "conflict"
    BY <2>3
  <2> QED BY <1>2, <1>4, <2>4 DEF Open
<1>6. HandlerWatches(m)'
  <2> SUFFICES ASSUME Sound(m)', NEW k \in LockObj, cs'[m][k] \in {"mmr1", "mmr2", "conflict"}
               PROVE  FALSE
    BY DEF HandlerWatches
  <2>1. cs[m][k] \in {"mmr1", "mmr2", "conflict"}
    OBVIOUS
  <2> QED BY <1>2, <1>4, <2>1
<1>7. HandlerResult(m)'
  BY <1>0 DEF Guarded, HandlerResult
<1>8. Alone(m)'
  BY <1>2 DEF Guarded, Alone, HandlerPc
<1> QED BY <1>3, <1>5, <1>6, <1>7, <1>8 DEF Guarded

\* A check that runs while the match is open is the only task to end it: another handler
\* and the check would hold the same lock, the registered one.
LEMMA CheckAlone ==
  ASSUME TypeOK, NEW m \in Match, NEW l \in LockObj, Guarded(m), Open(m), Checking(m, l)
  PROVE  /\ \A k \in LockObj : cs[m][k] \notin HandlerPc
         /\ result[m] # -1 => m \in monitored /\ monitor[m] = "none" /\ l = lockOf[m]
<1> USE MatchLifecycleAssumption DEF TypeOK
<1>1. Check \in InLine(m, l) /\ Check \in Waiting(m)
  <2>1. Head(lockQ[m][l]) = Check
    <3>1. Head(lockQ[m][l]) \in Task /\ Head(lockQ[m][l])[1] = "check"
      BY HeadIsTask DEF Checking, Holds
    <3> QED BY <3>1 DEF Task, Monitor, Check
  <2>2. lockQ[m][l] \in Seq(Task) /\ lockQ[m][l] # <<>>
    BY DEF Checking, Holds, LockOK
  <2>3. Head(lockQ[m][l]) \in ToSet(lockQ[m][l])
    BY <2>2, LenProperties, EmptySeq DEF ToSet
  <2> QED BY <2>1, <2>3, WaitingInLine DEF InLine
<1>2. ASSUME NEW k \in LockObj, cs[m][k] \in HandlerPc PROVE FALSE
  <2>1. cs[m][k] \in {"mmr1", "mmr2", "conflict"}
    BY <1>2 DEF Guarded, HandlerResult, Open, HandlerPc
  <2>2. k = lockOf[m]
    BY <2>1 DEF Guarded, HandlerWatches, Open
  <2>3. result[m] # -1 \/ cs[m][k] = "conflict"
    BY <2>1 DEF Guarded, HandlerResult
  <2>4. l = lockOf[m]
    BY <1>1, <2>3 DEF Guarded, ChecksInLine
  <2> QED BY <1>2, <2>2, <2>4 DEF Checking, HandlerPc
<1>3. ASSUME result[m] # -1 PROVE m \in monitored /\ monitor[m] = "none" /\ l = lockOf[m]
  BY <1>1, <1>3 DEF Guarded, Unrevealed, ChecksInLine
<1> QED BY <1>2, <1>3

\* The match is taken up as aborted by the only task that ends it.
LEMMA GuardedAbort ==
  ASSUME TypeOK, NEW m \in Match, NEW l \in LockObj, Guarded(m), HandleAbort(m, l),
         result'[m] \notin Outcome,
         \A k \in LockObj : cs[m][k] \notin HandlerPc
  PROVE  Guarded(m)'
<1>1. m \in processed' /\ \A k \in LockObj : cs'[m][k] = IF k = l THEN "abort" ELSE cs[m][k]
  BY SuspendLine DEF HandleAbort
<1>2. ~Open(m)'
  BY <1>1 DEF Open
<1>3. Unwatched(m)' /\ Unrevealed(m)' /\ ChecksInLine(m)'
  BY <1>2 DEF Unwatched, Unrevealed, ChecksInLine
<1>4. HandlerWatches(m)' /\ HandlerResult(m)' /\ Alone(m)'
  BY <1>1 DEF HandlerWatches, HandlerResult, Alone, HandlerPc
<1> QED BY <1>3, <1>4 DEF Guarded

\* The only handler of the match leaves its critical section, the match being over.
LEMMA GuardedEnd ==
  ASSUME TypeOK, MonitorIsMonitored, NEW m \in Match, NEW l \in LockObj, NEW popLock,
         lockQ[m][l] # <<>>, Shape(m), Guarded(m), StopMonitoring(m, l, popLock),
         cs[m][l] \in HandlerPc, result' = result, processed \subseteq processed',
         (failures' = failures /\ m \in processed') \/ (failures' > 0 /\ result[m] \in Outcome)
  PROVE  Guarded(m)'
<1>1. cs'[m][l] = "enter" /\ \A k \in LockObj : cs'[m][k] \in {cs[m][k], "enter"}
  BY StopLine
<1>2. ~Open(m)' /\ (Sound(m)' => Sound(m))
  BY DEF Open, Sound
<1>3. Unwatched(m)' /\ Unrevealed(m)' /\ ChecksInLine(m)'
  BY <1>2 DEF Unwatched, Unrevealed, ChecksInLine
<1>4. Sound(m)' => \A k \in LockObj : cs'[m][k] \notin HandlerPc
  BY <1>1, <1>2 DEF Guarded, Alone, HandlerPc
<1>5. HandlerWatches(m)' /\ Alone(m)'
  BY <1>4 DEF HandlerWatches, Alone, HandlerPc
<1>6. HandlerResult(m)'
  BY <1>1 DEF Guarded, HandlerResult
<1> QED BY <1>3, <1>5, <1>6 DEF Guarded

LEMMA GuardedCheck ==
  ASSUME TypeOK, ResultIsReported, NEW m \in Match, NEW l \in LockObj, Guarded(m),
         ReportCodes(m),
         CheckAborts(m, l) \/ CheckCompletes(m, l) \/ CheckConflicts(m, l)
  PROVE  Guarded(m)'
<1> USE MatchLifecycleAssumption DEF TypeOK
<1>0. Checking(m, l) /\ m \notin processed
  BY DEF CheckAborts, CheckCompletes, CheckConflicts, AlreadyProcessed
<1>1. CASE CheckAborts(m, l)
  <2>1. result[m] \notin Outcome
    BY <1>1 DEF CheckAborts, IsAborted, ResultIsReported, RowOK
  <2>2. \A k \in LockObj : cs[m][k] \notin HandlerPc
    BY <1>0, <2>1, CheckAlone DEF Open, Sound
  <2>3. HandleAbort(m, l) /\ result'[m] = result[m]
    BY <1>1 DEF CheckAborts, rowVars
  <2> QED BY <2>1, <2>2, <2>3, GuardedAbort
<1>2. CASE CheckCompletes(m, l)
  <2>1. result[m] # -1 /\ Suspend(m, l, "mmr1") /\ UNCHANGED <<svcVars, taskVars>>
    BY <1>2 DEF CheckCompletes, IsAborted
  <2>2. result'[m] \in Outcome
    <3>1. PICK v \in Report : report[m] = <<v, v>>
      BY <1>2 DEF CheckCompletes, Agree, RowOK
    <3>2. v # None /\ v \notin {-3, -4}
      BY <1>2, <3>1 DEF CheckCompletes, BothReported, IsAborted
    <3>3. v # -1
      BY <2>1, <3>1 DEF ReportCodes
    <3>4. result'[m] = v
      BY <1>2, <3>1 DEF CheckCompletes, RowOK
    <3> QED BY <3>2, <3>3, <3>4 DEF Report
  <2>3. /\ \A k \in LockObj : cs'[m][k] = IF k = l THEN "mmr1" ELSE cs[m][k]
        /\ \A k \in LockObj : InLine(m, k)' = InLine(m, k)
        /\ UNCHANGED <<lockOf, processed, monitored, monitor, failures>>
    BY <2>1, SuspendLine DEF InLine, svcVars, taskVars
  <2>4. Sound(m)' => Open(m)
    BY <1>0, <2>2, <2>3 DEF Sound, Open
  <2>5. Open(m) => /\ \A k \in LockObj : cs[m][k] \notin HandlerPc
                   /\ m \in monitored /\ monitor[m] = "none" /\ l = lockOf[m]
    BY <1>0, <2>1, CheckAlone
  <2>6. Unwatched(m)' /\ Unrevealed(m)'
    BY <2>3, <2>4, <2>5 DEF Unwatched, Unrevealed, Open
  <2>7. ChecksInLine(m)'
    BY <2>1, <2>3, <2>4 DEF Guarded, ChecksInLine, Open
  <2>8. HandlerWatches(m)' /\ Alone(m)'
    BY <1>0, <2>3, <2>4, <2>5 DEF HandlerWatches, Alone, HandlerPc
  <2>9. HandlerResult(m)'
    <3>1. \A k \in LockObj : cs[m][k] \notin {"abort", "complete", "conflict"}
      BY <1>0, <2>5 DEF Guarded, HandlerResult, Open, Sound, HandlerPc
    <3> QED BY <2>2, <2>3, <3>1 DEF HandlerResult
  <2> QED BY <2>6, <2>7, <2>8, <2>9 DEF Guarded
<1>3. CASE CheckConflicts(m, l)
  <2>1. result[m] \notin Outcome /\ result[m] # -1
    BY <1>3 DEF CheckConflicts, Agree, IsAborted, ResultIsReported
  <2>2. /\ Suspend(m, l, "conflict")
        /\ UNCHANGED <<result, lockOf, processed, monitored, monitor, failures>>
    BY <1>3 DEF CheckConflicts, Suspend, rowVars, taskVars
  <2>3. /\ \A k \in LockObj : cs'[m][k] = IF k = l THEN "conflict" ELSE cs[m][k]
        /\ \A k \in LockObj : InLine(m, k)' = InLine(m, k)
    BY <2>2, SuspendLine DEF InLine
  <2>4. Open(m)
    BY <1>0, <2>1 DEF Open, Sound
  <2>5. /\ \A k \in LockObj : cs[m][k] \notin HandlerPc
        /\ m \in monitored /\ monitor[m] = "none" /\ l = lockOf[m]
    BY <1>0, <2>1, <2>4, CheckAlone
  <2>6. Unwatched(m)' /\ Unrevealed(m)'
    BY <2>2, <2>5 DEF Unwatched, Unrevealed
  <2>7. ChecksInLine(m)'
    BY <2>1, <2>2, <2>3, <2>4 DEF Guarded, ChecksInLine
  <2>8. HandlerWatches(m)' /\ Alone(m)' /\ HandlerResult(m)'
    BY <1>0, <2>1, <2>2, <2>3, <2>5 DEF HandlerWatches, Alone, HandlerResult, HandlerPc
  <2> QED BY <2>6, <2>7, <2>8 DEF Guarded
<1> QED BY <1>1, <1>2, <1>3

LEMMA GuardedRate ==
  ASSUME TypeOK, MonitorIsMonitored, NEW m \in Match, NEW l \in LockObj, Shape(m), Guarded(m),
         RateSecond(m, l) \/ RateFails(m, l) \/ Complete(m, l)
  PROVE  Guarded(m)'
<1> USE DEF TypeOK
<1>1. CASE RateSecond(m, l)
  <2>1. cs[m][l] = "mmr1" /\ Suspend(m, l, "mmr2")
    BY <1>1 DEF RateSecond, At
  <2>2. UNCHANGED <<svcVars, taskVars, viewVars, chan, result>>
    BY <1>1 DEF RateSecond, playerVars
  <2>3. /\ \A k \in LockObj : cs'[m][k] = IF k = l THEN "mmr2" ELSE cs[m][k]
        /\ \A k \in LockObj : InLine(m, k)' = InLine(m, k)
        /\ Waiting(m)' = Waiting(m) /\ lockOf' = lockOf
    BY <2>1, SuspendLine DEF InLine, Waiting
  <2>4. (Sound(m)' <=> Sound(m)) /\ (Open(m)' <=> Open(m))
    BY <2>2 DEF Sound, Open, svcVars, taskVars
  <2>5. Unwatched(m)'
    BY <2>2, <2>3, <2>4 DEF Guarded, Unwatched, svcVars, taskVars, viewVars
  <2>6. Unrevealed(m)'
    BY <2>2, <2>3, <2>4 DEF Guarded, Unrevealed, svcVars, taskVars, viewVars
  <2>7. ChecksInLine(m)'
    BY <2>2, <2>3, <2>4 DEF Guarded, ChecksInLine
  <2>8. HandlerWatches(m)' /\ HandlerResult(m)' /\ Alone(m)'
    BY <2>1, <2>2, <2>3, <2>4
    DEF Guarded, HandlerWatches, HandlerResult, Alone, HandlerPc, svcVars, taskVars
  <2> QED BY <2>5, <2>6, <2>7, <2>8 DEF Guarded
<1>2. CASE RateFails(m, l)
  <2>1. /\ lockQ[m][l] # <<>> /\ cs[m][l] \in {"mmr1", "mmr2"}
        /\ StopMonitoring(m, l, FALSE) /\ result' = result /\ processed' = processed
        /\ failures' = failures + 1
    BY <1>2 DEF RateFails, At, rowVars
  <2>2. result[m] \in Outcome /\ failures' > 0
    BY <2>1 DEF Guarded, HandlerResult, TaskOK
  <2> QED BY <2>1, <2>2, GuardedEnd DEF HandlerPc
<1>3. CASE Complete(m, l)
  <2>1. /\ cs[m][l] = "mmr2" /\ Suspend(m, l, "complete") /\ m \in processed'
        /\ UNCHANGED <<result, failures>>
    BY <1>3 DEF Complete, At, rowVars, taskVars
  <2>2. \A k \in LockObj : cs'[m][k] = IF k = l THEN "complete" ELSE cs[m][k]
    BY <2>1, SuspendLine
  <2>3. Unwatched(m)' /\ Unrevealed(m)' /\ ChecksInLine(m)'
    BY <2>1 DEF Open, Unwatched, Unrevealed, ChecksInLine
  <2>4. Sound(m)' <=> Sound(m)
    BY <2>1 DEF Sound
  <2>5. Sound(m) => \A k \in LockObj : k # l => cs[m][k] \notin HandlerPc
    BY <2>1 DEF Guarded, Alone, HandlerPc
  <2>6. HandlerWatches(m)' /\ Alone(m)'
    BY <2>2, <2>4, <2>5 DEF HandlerWatches, Alone, HandlerPc
  <2>7. HandlerResult(m)'
    BY <2>1, <2>2 DEF Guarded, HandlerResult
  <2> QED BY <2>3, <2>6, <2>7 DEF Guarded
<1> QED BY <1>1, <1>2, <1>3

\* The tasks of players and what leaves the match as it is.
LEMMA GuardedButton ==
  ASSUME TypeOK, MonitorIsMonitored, NEW m \in Match, NEW l \in LockObj, lockQ[m][l] # <<>>,
         Shape(m), Guarded(m),
         \/ ConfirmBegins(m, l) \/ ConfirmEndsAlone(m, l) \/ ConfirmEndsBoth(m, l)
         \/ AbortMatch(m, l) \/ RecordFirst(m, l) \/ RecordSecond(m, l) \/ CheckIdle(m, l)
  PROVE  Guarded(m)'
<1> USE MatchLifecycleAssumption DEF TypeOK
<1>0. Head(lockQ[m][l]) \in Waiting(m)
  BY HolderWaits
<1>1. ASSUME Release(m, l)
      PROVE  \A k \in LockObj : /\ InLine(m, k)' \subseteq InLine(m, k)
                                /\ cs'[m][k] \in {cs[m][k], "enter"}
  <2>1. cs'[m] = [cs[m] EXCEPT ![l] = "enter"] /\ cs[m] \in [LockObj -> HolderPc]
    BY <1>1, ReleaseLine DEF LockOK
  <2> QED BY <1>1, <2>1, ReleaseLine
<1>2. failures' = failures => failures' >= failures
  BY DEF TaskOK
<1>3. CASE ConfirmBegins(m, l)
  <2>1. /\ Suspend(m, l, "fetch")
        /\ UNCHANGED <<failures, result, processed, monitored, monitor, checks, upload, chan, view>>
    BY <1>3 DEF ConfirmBegins, rowVars, playerVars, taskVars, viewVars
  <2> QED BY <1>2, <2>1, SuspendLine, GuardedQuiet DEF InLine
<1>4. CASE ConfirmEndsAlone(m, l) \/ CheckIdle(m, l)
  <2>1. /\ Release(m, l) /\ UNCHANGED lockOf
        /\ UNCHANGED <<failures, result, processed, monitored, monitor, checks, upload, chan, view>>
    BY <1>4 DEF ConfirmEndsAlone, CheckIdle, rowVars, playerVars, taskVars, viewVars, svcVars
  <2> QED BY <1>1, <1>2, <2>1, GuardedQuiet
<1>5. CASE ConfirmEndsBoth(m, l)
  <2>1. UNCHANGED <<failures, result, processed, monitored>>
    BY <1>5 DEF ConfirmEndsBoth, rowVars
  <2>2. CASE monitor[m] = "none"
    <3>1. Release(m, l) /\ UNCHANGED <<lockOf, monitor>>
      BY <1>5, <2>2 DEF ConfirmEndsBoth
    <3>2. Open(m) => m \in monitored
      BY <1>0, OpenWatched
    <3> QED BY <1>1, <1>2, <2>1, <2>2, <3>1, <3>2, GuardedReveal
  <2>3. CASE monitor[m] # "none"
    <3>1. ReleaseAndCancelMonitor(m, l)
      BY <1>5, <2>3 DEF ConfirmEndsBoth
    <3> QED BY <2>1, <2>3, <3>1, CancelLine, GuardedCancel
  <2> QED BY <2>2, <2>3
<1>6. CASE AbortMatch(m, l)
  <2>1. /\ Release(m, l) /\ UNCHANGED lockOf
        /\ UNCHANGED <<failures, processed, monitored, monitor, upload, chan, view>>
    BY <1>6 DEF AbortMatch, playerVars, svcVars, viewVars
  <2>2. CASE IsTerminal(m)
    <3>1. UNCHANGED <<result, checks>>
      BY <1>6, <2>2 DEF AbortMatch
    <3> QED BY <1>1, <1>2, <2>1, <3>1, GuardedQuiet
  <2>3. CASE ~IsTerminal(m)
    <3>1. result[m] = None /\ result'[m] = -1
      BY <1>6, <2>3 DEF AbortMatch, IsTerminal, RowOK
    <3>2. None \notin Outcome /\ -1 \notin Outcome
      OBVIOUS
    <3>3. Sound(m) /\ Sound(m)' /\ (Open(m)' <=> Open(m))
      BY <2>1, <3>1, <3>2 DEF Sound, Open
    <3>4. \A t : t \in Waiting(m)' => t \in Waiting(m)
      BY <1>1, <2>1, WaitingInLine, WaitingInLineNext
    <3>5. Unwatched(m)'
      BY <1>0, <2>1, <3>3, OpenWatched DEF Unwatched
    <3>6. Unrevealed(m)'
      BY <2>1, <3>1, <3>2, <3>3, <3>4 DEF Guarded, Unrevealed
    <3>7. ChecksInLine(m)'
      BY <1>1, <2>1, <3>1, <3>3 DEF Guarded, ChecksInLine
    <3>8. HandlerWatches(m)' /\ HandlerResult(m)' /\ Alone(m)'
      BY <1>1, <2>1, <3>1, <3>2, <3>3
      DEF Guarded, HandlerWatches, HandlerResult, Alone, HandlerPc
    <3> QED BY <3>5, <3>6, <3>7, <3>8 DEF Guarded
  <2> QED BY <2>2, <2>3
<1>7. CASE RecordFirst(m, l) \/ RecordSecond(m, l)
  <2>1. PICK kind \in {"record1", "record2"} :
          Holds(m, l, kind) /\ \E i \in 1..2 : \E p, after : RecordFor(m, l, i, p, after)
    BY <1>7 DEF RecordFirst, RecordSecond
  <2>2. /\ Release(m, l) /\ UNCHANGED lockOf
        /\ UNCHANGED <<failures, result, processed, monitored, monitor>>
    BY <2>1 DEF RecordFor, svcVars
  <2>3. \E p \in Player : Head(lockQ[m][l]) = <<kind, p>>
    <3>1. Head(lockQ[m][l]) \in Task /\ Head(lockQ[m][l])[1] = kind
      BY <2>1, HeadIsTask DEF Holds
    <3> QED BY <3>1 DEF Task, Monitor, Check
  <2>4. Open(m) => m \in monitored /\ monitor[m] = "none"
    BY <1>0, <2>3, OpenRevealed
  <2> QED BY <1>1, <1>2, <2>2, <2>4, GuardedReveal
<1> QED BY <1>3, <1>4, <1>5, <1>6, <1>7

LEMMA GuardedTimer ==
  ASSUME TypeOK, MonitorIsMonitored, NEW m \in Match, NEW l \in LockObj, lockQ[m][l] # <<>>,
         Shape(m), Guarded(m),
         MonitorExpires(m, l) \/ MonitorFindsResult(m, l) \/ MonitorAborts(m, l)
  PROVE  Guarded(m)'
<1> USE MatchLifecycleAssumption DEF TypeOK
<1>1. CASE MonitorExpires(m, l)
  <2>1. /\ Suspend(m, l, "timeout")
        /\ UNCHANGED <<failures, result, processed, monitored, monitor, checks, upload, chan, view>>
    BY <1>1 DEF MonitorExpires, rowVars, playerVars, svcVars, taskVars, viewVars
  <2>2. failures' >= failures
    BY <2>1 DEF TaskOK
  <2> QED BY <2>1, <2>2, SuspendLine, GuardedQuiet DEF InLine
<1>2. CASE MonitorFindsResult(m, l) \/ MonitorAborts(m, l)
  <2>1. cs[m][l] = "timeout" /\ Head(lockQ[m][l]) = Monitor
    BY <1>2 DEF MonitorFindsResult, MonitorAborts, Told, At, Shape, HolderShape
  <2>2. Monitor \in InLine(m, l)
    <3>1. lockQ[m][l] \in Seq(Task)
      BY DEF LockOK
    <3> QED BY <2>1, <3>1, LenProperties, EmptySeq DEF InLine, ToSet
  <2>3. monitor[m] = "run"
    BY <2>2 DEF Shape, OneMonitor
  <2>4. CASE MonitorFindsResult(m, l) \/ (MonitorAborts(m, l) /\ m \in processed)
    <3>1. ReleaseAndCancelMonitor(m, l) /\ UNCHANGED <<failures, processed, monitored>>
      BY <2>4 DEF MonitorFindsResult, MonitorAborts, AlreadyProcessed, svcVars
    <3>2. result'[m] = result[m] \/ (result[m] = None /\ result'[m] = -1)
      BY <1>2 DEF MonitorFindsResult, MonitorAborts, rowVars, RowOK
    <3> QED BY <2>3, <3>1, <3>2, CancelLine, GuardedCancel
  <2>5. CASE MonitorAborts(m, l) /\ m \notin processed
    <3>1. /\ result[m] = None /\ result'[m] = -1 /\ HandleAbort(m, l)
      BY <2>5 DEF MonitorAborts, AlreadyProcessed, RowOK
    <3>2. None \notin Outcome /\ -1 \notin Outcome
      OBVIOUS
    <3>3. Sound(m)
      BY <3>1, <3>2 DEF Sound
    <3>4. \A k \in LockObj : cs[m][k] \notin HandlerPc
      BY <2>3, <2>5, <3>1, <3>2, <3>3 DEF Guarded, HandlerWatches, HandlerResult, HandlerPc
    <3> QED BY <3>1, <3>2, <3>4, GuardedAbort
  <2> QED BY <1>2, <2>4, <2>5
<1> QED BY <1>1, <1>2

LEMMA GuardedTelling ==
  ASSUME TypeOK, MonitorIsMonitored, NEW m \in Match, NEW l \in LockObj, lockQ[m][l] # <<>>,
         Shape(m), Guarded(m),
         \/ EndAbort(m, l) \/ EndComplete(m, l) \/ EndConflict(m, l)
         \/ \E c \in Callback : Deliver(m, l, c)
  PROVE  Guarded(m)'
<1> USE MatchLifecycleAssumption DEF TypeOK
<1>1. CASE EndAbort(m, l) \/ EndComplete(m, l) \/ EndConflict(m, l)
  <2>1. PICK popLock : StopMonitoring(m, l, popLock)
    BY <1>1 DEF EndAbort, EndComplete, EndConflict
  <2>2. /\ cs[m][l] \in {"abort", "complete", "conflict"} /\ result' = result
        /\ processed \subseteq processed' /\ failures' = failures
    BY <1>1 DEF EndAbort, EndComplete, EndConflict, Told, At, rowVars
  <2>3. m \in processed'
    <3>1. CASE EndConflict(m, l)
      BY <3>1 DEF EndConflict
    <3>2. CASE EndAbort(m, l) \/ EndComplete(m, l)
      <4>1. cs[m][l] \in {"abort", "complete"}
        BY <3>2 DEF EndAbort, EndComplete, Told, At
      <4> QED BY <2>2, <4>1 DEF Guarded, HandlerResult
    <3> QED BY <1>1, <3>1, <3>2
  <2>4. cs[m][l] \in HandlerPc
    BY <2>2 DEF HandlerPc
  <2>5. (failures' = failures /\ m \in processed') \/ (failures' > 0 /\ result[m] \in Outcome)
    BY <2>2, <2>3
  <2> QED BY <2>1, <2>2, <2>4, <2>5, GuardedEnd
<1>2. ASSUME NEW c \in Callback, Deliver(m, l, c) PROVE Guarded(m)'
  <2>1. UNCHANGED <<failures, result, processed, monitored, monitor, checks, upload,
                    lockOf, lockQ, cs>>
    BY <1>2 DEF Deliver, rowVars, svcVars, taskVars
  <2>2. \A p \in Player : /\ chan'[p] = m => chan[p] = m
                          /\ view'[m][p] \in {view[m][p], "closed", "expired"}
    <3>1. PICK r \in Player : c[2] = r
      BY DEF Callback
    <3>2. chan' \in {chan, [chan EXCEPT ![r] = None]}
      BY <1>2, <3>1 DEF Deliver
    <3>3. \E v \in {view[m][r], "closed", "expired"} : view' = [view EXCEPT ![m][r] = v]
      BY <1>2, <3>1 DEF Deliver, ViewOK
    <3>4. PICK v \in {view[m][r], "closed", "expired"} : view' = [view EXCEPT ![m][r] = v]
      BY <3>3
    <3>5. \A p \in Player : view'[m][p] = IF p = r THEN v ELSE view[m][p]
      BY <3>4 DEF ViewOK
    <3>6. \A p \in Player : chan'[p] \in {chan[p], None} /\ m # None
      BY <3>2 DEF PlayerOK
    <3> QED BY <3>4, <3>5, <3>6
  <2>3. Waiting(m) # {}
    BY HolderWaits
  <2>4. failures' >= failures
    BY <2>1 DEF TaskOK
  <2> QED BY <2>1, <2>2, <2>3, <2>4, GuardedQuiet DEF InLine
<1> QED BY <1>1, <1>2

LEMMA GuardedHolder ==
  ASSUME TypeOK, MonitorIsMonitored, ResultIsReported, NEW m \in Match, NEW l \in LockObj,
         lockQ[m][l] # <<>>, Shape(m), ReportCodes(m), Guarded(m), HolderStep(m, l)
  PROVE  Guarded(m)'
<1>1. CASE \/ ConfirmBegins(m, l) \/ ConfirmEndsAlone(m, l) \/ ConfirmEndsBoth(m, l)
           \/ AbortMatch(m, l) \/ RecordFirst(m, l) \/ RecordSecond(m, l) \/ CheckIdle(m, l)
  BY <1>1, GuardedButton
<1>2. CASE CheckAborts(m, l) \/ CheckCompletes(m, l) \/ CheckConflicts(m, l)
  BY <1>2, GuardedCheck
<1>3. CASE RateSecond(m, l) \/ RateFails(m, l) \/ Complete(m, l)
  BY <1>3, GuardedRate
<1>4. CASE MonitorExpires(m, l) \/ MonitorFindsResult(m, l) \/ MonitorAborts(m, l)
  BY <1>4, GuardedTimer
<1>5. CASE \/ EndAbort(m, l) \/ EndComplete(m, l) \/ EndConflict(m, l)
           \/ \E c \in Callback : Deliver(m, l, c)
  BY <1>5, GuardedTelling
<1> QED BY <1>1, <1>2, <1>3, <1>4, <1>5 DEF HolderStep

\* A match that a step spares, or that was just created, stays guarded.
LEMMA GuardedSpared ==
  ASSUME TypeOK, NEW n \in Match, Guarded(n),
         \/ Spares(n)
         \/ \E p, q \in Player : CreateMatch(n, p, q)
  PROVE  Guarded(n)'
<1>1. CASE Spares(n)
  BY <1>1, GuardedQuiet DEF Spares, InLine
<1>2. ASSUME NEW p \in Player, NEW q \in Player, CreateMatch(n, p, q) PROVE Guarded(n)'
  <2>1. /\ UNCHANGED <<result, svcVars, lockVars, taskVars, chan>>
        /\ \A r \in Player : view'[n][r] \in {"none", "offered"}
    BY <1>2, ApartCreate
  <2>2. failures' >= failures
    BY <2>1 DEF taskVars, TypeOK, TaskOK
  <2> QED BY <2>1, <2>2, GuardedQuiet DEF svcVars, lockVars, taskVars, InLine
<1> QED BY <1>1, <1>2

-----------------------------------------------------------------------------
(* One task ends a match *)

AllGuarded == \A m \in Match : Guarded(m)

LEMMA GuardedNext ==
  ASSUME TypeOK, MonitorIsMonitored, ResultIsReported, Shaped, Coded, AllGuarded, [Next]_vars
  PROVE  AllGuarded'
<1>1. CASE \A n \in Match : Spares(n)
  BY <1>1, GuardedSpared DEF AllGuarded
<1>2. ASSUME NEW m \in Match, Apart(m), Guarded(m)' PROVE AllGuarded'
  BY <1>2, GuardedSpared DEF Apart, AllGuarded
<1>3. ASSUME NEW m \in Match, \E p, q \in Player : CreateMatch(m, p, q) PROVE Guarded(m)'
  BY <1>3, GuardedSpared DEF AllGuarded
<1>4. ASSUME NEW m \in Match, OutsideStep(m) PROVE Guarded(m)'
  BY <1>4, GuardedOutside DEF AllGuarded
<1>5. ASSUME NEW m \in Match, NEW l \in LockObj, lockQ[m][l] # <<>>, HolderStep(m, l)
      PROVE  Guarded(m)'
  BY <1>5, GuardedHolder DEF AllGuarded, Shaped, Coded
<1> QED BY <1>1, <1>2, <1>3, <1>4, <1>5, StepOf DEF Shaped

\* Code -1 stands in a report only when the match was aborted: a completion that reads
\* two such codes is stopped by the result, not by luck.
THEOREM AbortIsCoded == Spec => []Coded
<1>1. Init => Coded
  BY MatchLifecycleAssumption DEF Init, Coded, ReportCodes
<1> QED BY <1>1, CodedNext, TypeCorrect, MonitorBelongs, HoldersInShape, PTL DEF Spec

\* The registered lock guards the end of every match whose rating was not interrupted,
\* although it is popped while tasks hold it and wait for it.
THEOREM LocksDoTheirDuty == Spec => []AllGuarded
<1>1. Init => AllGuarded
  <2> SUFFICES ASSUME Init, NEW m \in Match PROVE Guarded(m)
    BY DEF AllGuarded
  <2> USE MatchLifecycleAssumption
  <2>1. \A l \in LockObj : InLine(m, l) = {}
    BY DEF Init, InLine, ToSet
  <2>2. Waiting(m) = {}
    BY <2>1 DEF Waiting, InLine
  <2>3. None \notin Outcome
    OBVIOUS
  <2> QED BY <2>1, <2>2, <2>3
      DEF Init, Guarded, Unwatched, Unrevealed, ChecksInLine, HandlerWatches, HandlerResult,
          Alone, HandlerPc
<1> QED BY <1>1, GuardedNext, TypeCorrect, MonitorBelongs, ResultReported, HoldersInShape,
           AbortIsCoded, PTL DEF Spec

\* At most one task at a time carries out the end of a match, unless a ranking refresh
\* raised and left the match rated but not processed.
THEOREM OneEnds == Spec => []OneHandler
<1>1. ASSUME TypeOK, AllGuarded PROVE OneHandler
  <2> SUFFICES ASSUME NEW m \in Match, NEW k \in LockObj, NEW l \in LockObj,
                      Handling(m, k), Handling(m, l),
                      ~(result[m] \in Outcome /\ failures > 0)
               PROVE  k = l
    BY DEF OneHandler
  <2>1. Sound(m)
    BY <1>1 DEF Sound, TypeOK, TaskOK
  <2> QED BY <1>1, <2>1 DEF AllGuarded, Guarded, Alone, Handling, HandlerPc
<1> QED BY <1>1, TypeCorrect, LocksDoTheirDuty, PTL

-----------------------------------------------------------------------------
(* Every view is told the same *)

\* A step that tells nobody anything, ends no conflict that was told and starts none.
LEMMA ToldQuiet ==
  ASSUME NEW m \in Match, ToldOutcome(m), told'[m] = told[m],
         \/ told[m] = {}
         \/ /\ result'[m] \in Outcome <=> result[m] \in Outcome
            /\ m \in processed => m \in processed'
            /\ \A l \in LockObj :
                 /\ cs'[m][l] \in {"abort", "conflict"} => cs'[m][l] = cs[m][l]
                 /\ cs[m][l] = "conflict" => cs'[m][l] = "conflict" \/ m \in processed'
  PROVE  ToldOutcome(m)'
<1>1. CASE told[m] = {}
  BY <1>1 DEF ToldOutcome
<1>2. CASE told[m] # {}
  <2> SUFFICES ASSUME NEW t \in told[m]
               PROVE  /\ t[2] \in {"complete", "abort", "conflict"}
                      /\ t[2] = "complete" => m \in processed' /\ result'[m] \in Outcome
                      /\ t[2] # "complete" => result'[m] \notin Outcome
                      /\ m \in processed' \/ \E l \in LockObj : cs'[m][l] = "conflict"
                      /\ \A u \in told[m] : u[2] = t[2]
                      /\ \A l \in LockObj : cs'[m][l] \in {"abort", "conflict"} => t[2] = cs'[m][l]
    BY DEF ToldOutcome
  <2> QED BY <1>2 DEF ToldOutcome
<1> QED BY <1>1, <1>2

\* Of a match that is not processed, and has nobody to tell a conflict, nothing was told.
LEMMA Untold ==
  ASSUME NEW m \in Match, ToldOutcome(m), m \notin processed,
         \A l \in LockObj : cs[m][l] # "conflict"
  PROVE  told[m] = {}
BY DEF ToldOutcome

\* A conflict is told only while no abort timer and no rating is under way.
LEMMA ConflictWatches ==
  ASSUME NEW m \in Match, Guarded(m), NEW l \in LockObj, cs[m][l] = "conflict"
  PROVE  monitor[m] = "none" /\ result[m] \notin Outcome /\ m \notin processed
<1>1. result[m] \notin Outcome
  BY DEF Guarded, HandlerResult
<1> QED BY <1>1 DEF Guarded, HandlerWatches, Sound

LEMMA ToldOutside ==
  ASSUME TypeOK, NEW m \in Match, ToldOutcome(m), OutsideStep(m)
  PROVE  ToldOutcome(m)'
<1>1. UNCHANGED <<told, cs, result, processed>>
  BY DEF OutsideStep, ViewStep, UploadStep, ShowMatch, ShowMatchFails, BuildFoundView,
     PublishFoundView, FoundViewFails, RecordReport, OpponentNotified, Click, StartUpload,
     StartCheck, MonitorWakes, GetLock, rowVars, playerVars, svcVars, lockVars, taskVars, viewVars
<1> QED BY <1>1, ToldQuiet

\* One awaited callback returns: what it was told is what its holder is telling, and what
\* all the others were told.
LEMMA ToldDeliver ==
  ASSUME TypeOK, NEW m \in Match, NEW l \in LockObj, NEW c \in Callback, Shape(m), Guarded(m),
         ToldOutcome(m), Deliver(m, l, c)
  PROVE  ToldOutcome(m)'
<1> USE DEF TypeOK
<1> DEFINE status == cs[m][l]
<1>1. UNCHANGED <<cs, result, processed>>
  BY DEF Deliver, rowVars, svcVars
<1>2. status \in {"timeout", "complete", "abort", "conflict"}
  BY DEF Deliver, Shape, HolderShape
<1>3. CASE told'[m] = told[m]
  BY <1>1, <1>3, ToldQuiet
<1>4. CASE told'[m] = told[m] \cup {<<c, status>>} /\ status # "timeout"
  <2>1. \A t \in told[m] : t[2] = status
    BY <1>2, <1>4 DEF ToldOutcome, Guarded, HandlerResult
  <2>2. /\ status = "complete" => m \in processed /\ result[m] \in Outcome
        /\ status # "complete" => result[m] \notin Outcome
        /\ m \in processed \/ status = "conflict"
    BY <1>2, <1>4 DEF Guarded, HandlerResult
  <2>3. \A k \in LockObj : cs[m][k] \in {"abort", "conflict"} => status = cs[m][k]
    <3> SUFFICES ASSUME NEW k \in LockObj, cs[m][k] \in {"abort", "conflict"}
                 PROVE  status = cs[m][k]
      OBVIOUS
    <3>1. result[m] \notin Outcome
      BY DEF Guarded, HandlerResult
    <3>2. status \in HandlerPc /\ cs[m][k] \in HandlerPc
      BY <1>2, <1>4 DEF HandlerPc
    <3> QED BY <3>1, <3>2 DEF Guarded, Alone, Sound
  <2>4. <<c, status>>[2] = status
    OBVIOUS
  <2> HIDE DEF status
  <2>5. \A t \in told'[m] : t[2] = status
    BY <1>4, <2>1, <2>4
  <2> SUFFICES ASSUME NEW t \in told'[m]
               PROVE  /\ t[2] \in {"complete", "abort", "conflict"}
                      /\ t[2] = "complete" => m \in processed' /\ result'[m] \in Outcome
                      /\ t[2] # "complete" => result'[m] \notin Outcome
                      /\ m \in processed' \/ \E k \in LockObj : cs'[m][k] = "conflict"
                      /\ \A u \in told'[m] : u[2] = t[2]
                      /\ \A k \in LockObj : cs'[m][k] \in {"abort", "conflict"} => t[2] = cs'[m][k]
    BY DEF ToldOutcome
  <2>6. t[2] = status
    BY <2>5
  <2>7. status = "conflict" => \E k \in LockObj : cs'[m][k] = "conflict"
    BY <1>1 DEF status
  <2> QED BY <1>1, <1>2, <1>4, <2>2, <2>3, <2>5, <2>6, <2>7
<1>5. told' \in {told, [told EXCEPT ![m] = @ \cup {<<c, status>>}]}
       /\ (status = "timeout" => told' = told)
  BY DEF Deliver
<1> QED BY <1>3, <1>4, <1>5 DEF ViewOK

LEMMA ToldHolder ==
  ASSUME TypeOK, MonitorIsMonitored, ResultIsReported, NEW m \in Match, NEW l \in LockObj,
         lockQ[m][l] # <<>>, Shape(m), Guarded(m), ToldOutcome(m), HolderStep(m, l)
  PROVE  ToldOutcome(m)'
<1> USE MatchLifecycleAssumption DEF TypeOK
<1>0. None \notin Outcome /\ -1 \notin Outcome
  OBVIOUS
<1>1. ASSUME NEW c \in Callback, Deliver(m, l, c) PROVE ToldOutcome(m)'
  BY <1>1, ToldDeliver
<1>2. CASE \/ ConfirmBegins(m, l) \/ RateSecond(m, l) \/ Complete(m, l) \/ MonitorExpires(m, l)
  <2>1. PICK pc \in {"fetch", "mmr2", "complete", "timeout"} : Suspend(m, l, pc)
    BY <1>2 DEF ConfirmBegins, RateSecond, Complete, MonitorExpires
  <2>2. cs[m][l] # "conflict"
    BY <1>2 DEF ConfirmBegins, RateSecond, Complete, MonitorExpires, At
  <2>3. UNCHANGED <<told, result>> /\ processed \subseteq processed'
    BY <1>2 DEF ConfirmBegins, RateSecond, Complete, MonitorExpires, rowVars, svcVars, viewVars
  <2> QED BY <2>1, <2>2, <2>3, SuspendLine, ToldQuiet
<1>3. CASE \/ ConfirmEndsAlone(m, l) \/ AbortMatch(m, l) \/ RecordFirst(m, l)
           \/ RecordSecond(m, l) \/ CheckIdle(m, l)
           \/ ConfirmEndsBoth(m, l) /\ Release(m, l)
  <2>1. Release(m, l) /\ cs[m][l] # "conflict"
    BY <1>3 DEF ConfirmEndsAlone, AbortMatch, RecordFirst, RecordSecond, RecordFor, CheckIdle,
       Checking, ConfirmEndsBoth
  <2>2. UNCHANGED <<told, processed>>
    BY <1>3 DEF ConfirmEndsAlone, AbortMatch, RecordFirst, RecordSecond, RecordFor, CheckIdle,
       ConfirmEndsBoth, svcVars, viewVars
  <2>3. result'[m] \in Outcome <=> result[m] \in Outcome
    BY <1>0, <1>3 DEF ConfirmEndsAlone, AbortMatch, RecordFirst, RecordSecond, RecordFor,
       CheckIdle, ConfirmEndsBoth, rowVars, RowOK, IsTerminal
  <2>4. \A k \in LockObj : cs'[m][k] = IF k = l THEN "enter" ELSE cs[m][k]
    <3>1. cs'[m] = [cs[m] EXCEPT ![l] = "enter"] /\ cs[m] \in [LockObj -> HolderPc]
      BY <2>1, ReleaseLine DEF LockOK
    <3> QED BY <3>1
  <2> QED BY <2>1, <2>2, <2>3, <2>4, ToldQuiet
<1>4. ASSUME monitor[m] # "none", ReleaseAndCancelMonitor(m, l), UNCHANGED <<told, processed>>,
             result'[m] \in Outcome <=> result[m] \in Outcome
      PROVE  ToldOutcome(m)'
  <2>1. \A k \in LockObj : cs[m][k] # "conflict"
    BY <1>4, ConflictWatches
  <2>2. \A k \in LockObj : cs'[m][k] \in {cs[m][k], "enter"}
    BY <1>4, CancelLine
  <2> QED BY <1>4, <2>1, <2>2, ToldQuiet
<1>5. CASE ConfirmEndsBoth(m, l) /\ ~Release(m, l)
  <2>1. /\ monitor[m] # "none" /\ ReleaseAndCancelMonitor(m, l)
        /\ UNCHANGED <<told, processed, result>>
    BY <1>5 DEF ConfirmEndsBoth, rowVars
  <2> QED BY <1>4, <2>1
<1>6. ASSUME told[m] = {}, told' = told PROVE ToldOutcome(m)'
  BY <1>6, ToldQuiet
<1>7. CASE MonitorFindsResult(m, l) \/ MonitorAborts(m, l)
  <2>1. monitor[m] # "none"
    <3>1. Head(lockQ[m][l]) = Monitor
      BY <1>7 DEF MonitorFindsResult, MonitorAborts, Told, At, Shape, HolderShape
    <3>2. lockQ[m][l] \in Seq(Task)
      BY DEF LockOK
    <3>3. Monitor \in InLine(m, l)
      BY <3>1, <3>2, LenProperties, EmptySeq DEF InLine, ToSet
    <3> QED BY <3>3 DEF Shape, OneMonitor
  <2>2. told' = told /\ (result'[m] \in Outcome <=> result[m] \in Outcome)
    BY <1>0, <1>7 DEF MonitorFindsResult, MonitorAborts, rowVars, viewVars, RowOK
  <2>3. CASE ReleaseAndCancelMonitor(m, l) /\ UNCHANGED processed
    BY <1>4, <2>1, <2>2, <2>3
  <2>4. CASE MonitorAborts(m, l) /\ m \notin processed
    <3>1. \A k \in LockObj : cs[m][k] # "conflict"
      BY <2>1, ConflictWatches
    <3> QED BY <1>6, <2>2, <2>4, <3>1, Untold
  <2> QED BY <1>7, <2>3, <2>4 DEF MonitorFindsResult, MonitorAborts, AlreadyProcessed, svcVars
<1>8. CASE CheckAborts(m, l) \/ CheckCompletes(m, l) \/ CheckConflicts(m, l)
  <2>1. told' = told /\ m \notin processed /\ Checking(m, l)
    BY <1>8 DEF CheckAborts, CheckCompletes, CheckConflicts, AlreadyProcessed, viewVars
  <2>2. ASSUME NEW k \in LockObj, cs[m][k] = "conflict" PROVE FALSE
    <3>1. Open(m)
      BY <2>1, <2>2, ConflictWatches DEF Open, Sound
    <3> QED BY <2>1, <2>2, <3>1, CheckAlone DEF HandlerPc
  <2> QED BY <1>6, <2>1, <2>2, Untold
<1>9. CASE RateFails(m, l) \/ EndAbort(m, l) \/ EndComplete(m, l) \/ EndConflict(m, l)
  <2>1. /\ \E popLock : StopMonitoring(m, l, popLock)
        /\ UNCHANGED <<told, result>> /\ processed \subseteq processed'
        /\ cs[m][l] \in {"mmr1", "mmr2", "abort", "complete", "conflict"}
    BY <1>9 DEF RateFails, EndAbort, EndComplete, EndConflict, Told, At, rowVars, viewVars
  <2>2. \A k \in LockObj : cs'[m][k] \in {cs[m][k], "enter"}
    BY <2>1, StopLine
  <2>3. \A k \in LockObj : cs[m][k] = "conflict" => m \in processed'
    <3> SUFFICES ASSUME NEW k \in LockObj, cs[m][k] = "conflict" PROVE m \in processed'
      OBVIOUS
    <3>1. Sound(m) /\ m \notin processed
      BY ConflictWatches DEF Sound
    <3>2. k = l
      BY <2>1, <3>1 DEF Guarded, Alone, HandlerPc
    <3> QED BY <1>9, <3>2 DEF RateFails, EndAbort, EndComplete, EndConflict, Told, At
  <2> QED BY <2>1, <2>2, <2>3, ToldQuiet
<1> QED BY <1>1, <1>2, <1>3, <1>5, <1>7, <1>8, <1>9 DEF HolderStep

AllTold == \A m \in Match : ToldOutcome(m)

LEMMA ToldNext ==
  ASSUME TypeOK, MonitorIsMonitored, ResultIsReported, Shaped, AllGuarded, AllTold, [Next]_vars
  PROVE  AllTold'
<1>1. ASSUME NEW n \in Match, Spares(n) PROVE ToldOutcome(n)'
  BY <1>1, ToldQuiet DEF Spares, AllTold
<1>2. CASE \A n \in Match : Spares(n)
  BY <1>1, <1>2 DEF AllTold
<1>3. ASSUME NEW m \in Match, Apart(m), ToldOutcome(m)' PROVE AllTold'
  BY <1>1, <1>3 DEF Apart, AllTold
<1>4. ASSUME NEW m \in Match, NEW p \in Player, NEW q \in Player, CreateMatch(m, p, q)
      PROVE  ToldOutcome(m)'
  <2>1. UNCHANGED <<result, svcVars, lockVars, told>>
    BY <1>4, ApartCreate
  <2> QED BY <2>1, ToldQuiet DEF svcVars, lockVars, AllTold
<1>5. ASSUME NEW m \in Match, OutsideStep(m) PROVE ToldOutcome(m)'
  BY <1>5, ToldOutside DEF AllTold
<1>6. ASSUME NEW m \in Match, NEW l \in LockObj, lockQ[m][l] # <<>>, HolderStep(m, l)
      PROVE  ToldOutcome(m)'
  BY <1>6, ToldHolder DEF AllTold, AllGuarded, Shaped
<1> QED BY <1>2, <1>3, <1>4, <1>5, <1>6, StepOf DEF Shaped

\* What a view was told, or is about to be told, about the end of a match is what the row
\* of the match says.
THEOREM NoticesFit == Spec => []AllTold
<1>1. Init => AllTold
  BY DEF Init, AllTold, ToldOutcome
<1> QED BY <1>1, ToldNext, TypeCorrect, MonitorBelongs, ResultReported, HoldersInShape,
           LocksDoTheirDuty, PTL DEF Spec

\* All the terminal notices about a match say the same thing, also after a ranking refresh
\* raised and while several tasks that are in line for popped locks still run.
THEOREM OneTold == Spec => []OneOutcomeTold
<1>1. ASSUME AllTold PROVE OneOutcomeTold
  <2> SUFFICES ASSUME NEW m \in Match PROVE Cardinality({t[2] : t \in told[m]}) <= 1
    BY DEF OneOutcomeTold
  <2>1. CASE told[m] = {}
    <3>1. {t[2] : t \in told[m]} = {}
      BY <2>1
    <3> QED BY <3>1, FS_EmptySet
  <2>2. CASE told[m] # {}
    <3>1. PICK u \in told[m] : TRUE
      BY <2>2
    <3>2. \A t \in told[m] : t[2] = u[2]
      BY <1>1, <3>1 DEF AllTold, ToldOutcome
    <3> DEFINE kinds == {t[2] : t \in told[m]}
    <3>3. kinds = {u[2]}
      BY <3>2
    <3>4. Cardinality(kinds) = 1
      BY <3>3, FS_Singleton
    <3> HIDE DEF kinds
    <3>5. Cardinality(kinds) <= 1
      BY <3>4
    <3> QED BY <3>5 DEF kinds
  <2> QED BY <2>1, <2>2
<1> QED BY <1>1, NoticesFit, PTL

-----------------------------------------------------------------------------
(* A match is rated once, and as reported *)

\* A step that rates nobody and takes no task from its rating.
LEMMA RatedQuiet ==
  ASSUME TypeOK, NEW m \in Match, Rated(m), failures' >= failures, failures' \in Nat,
         players'[m] = players[m], mmr'[m] = mmr[m],
         result'[m] \in Outcome <=> result[m] \in Outcome,
         m \in processed => m \in processed',
         \A l \in LockObj :
           /\ cs'[m][l] = "mmr1" => cs[m][l] = "mmr1"
           /\ failures = 0 /\ cs[m][l] \in {"mmr1", "mmr2"} =>
                cs'[m][l] = cs[m][l] \/ m \in processed'
  PROVE  Rated(m)'
<1>1. failures' = 0 => failures = 0
  BY DEF TypeOK, TaskOK
<1>2. PlayersOf(m)' = PlayersOf(m)
  BY DEF PlayersOf
<1> QED BY <1>1, <1>2 DEF Rated

\* A match has two players when a task holds one of its locks.
LEMMA TwoPlayers ==
  ASSUME TypeOK, OnlyItsPlayers, NEW m \in Match, NEW l \in LockObj, lockQ[m][l] # <<>>
  PROVE  \E p, q \in Player : players[m] = <<p, q>> /\ PlayersOf(m) = {p, q}
<1>1. players[m] # <<>>
  BY HolderExists
<1>2. PICK p \in Player, q \in Player : players[m] = <<p, q>>
  BY <1>1 DEF TypeOK, RowOK
<1>3. PlayersOf(m) = {p, q}
  <2>1. 1..Len(<<p, q>>) = {1, 2}
    OBVIOUS
  <2> QED BY <1>2, <2>1 DEF PlayersOf
<1> QED BY <1>2, <1>3

LEMMA RatedRates ==
  ASSUME TypeOK, ResultIsReported, OnlyItsPlayers, NEW m \in Match, NEW l \in LockObj,
         lockQ[m][l] # <<>>, Guarded(m), Guarded(m)', Rated(m),
         CheckCompletes(m, l) \/ RateSecond(m, l)
  PROVE  Rated(m)'
<1> USE DEF TypeOK
<1>1. PICK p \in Player, q \in Player : players[m] = <<p, q>> /\ PlayersOf(m) = {p, q}
  BY TwoPlayers
<1>2. p # q
  BY <1>1 DEF Rated
<1>3. /\ UNCHANGED <<players, failures, processed>> /\ PlayersOf(m)' = PlayersOf(m)
  BY DEF CheckCompletes, RateSecond, svcVars, taskVars, PlayersOf
<1>4. failures = 0 => Sound(m)
  BY DEF Sound
<1>5. \A r \in Player : mmr[m][r] \in Nat
  BY DEF RowOK
<1>6. CASE CheckCompletes(m, l)
  <2>1. Checking(m, l) /\ m \notin processed /\ Suspend(m, l, "mmr1")
    BY <1>6 DEF CheckCompletes, AlreadyProcessed
  <2>2. \A k \in LockObj : cs'[m][k] = IF k = l THEN "mmr1" ELSE cs[m][k]
    BY <2>1, SuspendLine
  <2>3. \A r \in Player : mmr'[m][r] = IF r = p THEN mmr[m][r] + 1 ELSE mmr[m][r]
    BY <1>1, <1>6 DEF CheckCompletes, RowOK
  <2>4. result'[m] \in Outcome
    BY <2>2 DEF Guarded, HandlerResult
  <2>5. ASSUME failures = 0 PROVE \A r \in Player : mmr[m][r] = 0
    <3>1. Open(m)
      BY <1>4, <2>1, <2>5 DEF Open
    <3>2. \A k \in LockObj : cs[m][k] \notin {"mmr1", "mmr2"}
      BY <2>1, <3>1, CheckAlone DEF HandlerPc
    <3>3. result[m] \notin Outcome
      BY <2>1, <2>5, <3>2 DEF Rated
    <3> QED BY <1>5, <3>3 DEF Rated
  <2>6. \A r \in Player : mmr'[m][r] > 0 => r \in PlayersOf(m)' /\ result'[m] \in Outcome
    BY <1>1, <1>3, <2>3, <2>4 DEF Rated
  <2>7. failures' = 0 => /\ \A r \in Player : mmr'[m][r] <= 1
                         /\ mmr'[m][q] = 0
    BY <1>2, <1>3, <2>3, <2>5
  <2> QED BY <1>1, <1>2, <1>3, <2>2, <2>6, <2>7 DEF Rated
<1>7. CASE RateSecond(m, l)
  <2>1. cs[m][l] = "mmr1" /\ Suspend(m, l, "mmr2") /\ result' = result
    BY <1>7 DEF RateSecond, At
  <2>2. \A k \in LockObj : cs'[m][k] = IF k = l THEN "mmr2" ELSE cs[m][k]
    BY <2>1, SuspendLine
  <2>3. \A r \in Player : mmr'[m][r] = IF r = q THEN mmr[m][r] + 1 ELSE mmr[m][r]
    BY <1>1, <1>7 DEF RateSecond, RowOK
  <2>4. result[m] \in Outcome
    BY <2>1 DEF Guarded, HandlerResult
  <2>5. failures = 0 => \A k \in LockObj : cs'[m][k] # "mmr1"
    BY <1>4, <2>1, <2>2 DEF Guarded, Alone, HandlerPc
  <2>6. \A r \in Player : mmr'[m][r] > 0 => r \in PlayersOf(m)' /\ result'[m] \in Outcome
    BY <1>1, <1>3, <2>1, <2>3, <2>4 DEF Rated
  <2>7. failures' = 0 => \A r \in Player : mmr'[m][r] <= 1
    BY <1>1, <1>3, <2>1, <2>3 DEF Rated
  <2> QED BY <1>1, <1>2, <1>3, <2>2, <2>5, <2>6, <2>7 DEF Rated
<1> QED BY <1>6, <1>7

LEMMA RatedHolder ==
  ASSUME TypeOK, TypeOK', MonitorIsMonitored, ResultIsReported, OnlyItsPlayers, NEW m \in Match,
         NEW l \in LockObj, lockQ[m][l] # <<>>, Shape(m), Guarded(m), Guarded(m)', Rated(m),
         HolderStep(m, l)
  PROVE  Rated(m)'
<1> USE MatchLifecycleAssumption DEF TypeOK
<1>0. None \notin Outcome /\ -1 \notin Outcome /\ failures \in Nat /\ failures' \in Nat
  BY DEF TaskOK
<1>1. failures = 0 =>
        \A k \in LockObj : cs[m][k] \in {"mmr1", "mmr2"} =>
          m \notin processed /\ m \in monitored /\ monitor[m] = "none"
  BY DEF Guarded, HandlerWatches, Sound
<1>2. CASE CheckCompletes(m, l) \/ RateSecond(m, l)
  BY <1>2, RatedRates
<1>3. CASE \/ ConfirmBegins(m, l) \/ MonitorExpires(m, l) \/ CheckAborts(m, l)
           \/ CheckConflicts(m, l) \/ Complete(m, l)
           \/ MonitorAborts(m, l) /\ m \notin processed
  <2>1. PICK pc \in {"fetch", "timeout", "abort", "conflict", "complete"} : Suspend(m, l, pc)
    BY <1>3 DEF ConfirmBegins, MonitorExpires, CheckAborts, CheckConflicts, Complete,
       MonitorAborts, HandleAbort, AlreadyProcessed
  <2>2. cs[m][l] \in {"mmr1", "mmr2"} => m \in processed'
    BY <1>3 DEF ConfirmBegins, MonitorExpires, CheckAborts, CheckConflicts, Complete,
       MonitorAborts, Checking, Told, At
  <2>3. UNCHANGED <<players, mmr, failures>> /\ processed \subseteq processed'
    BY <1>3 DEF ConfirmBegins, MonitorExpires, CheckAborts, CheckConflicts, Complete,
       MonitorAborts, HandleAbort, AlreadyProcessed, rowVars, svcVars, taskVars
  <2>4. result'[m] \in Outcome <=> result[m] \in Outcome
    BY <1>0, <1>3 DEF ConfirmBegins, MonitorExpires, CheckAborts, CheckConflicts, Complete,
       MonitorAborts, rowVars, RowOK
  <2>5. \A k \in LockObj : cs'[m][k] = IF k = l THEN pc ELSE cs[m][k]
    BY <2>1, SuspendLine
  <2> QED BY <1>0, <2>2, <2>3, <2>4, <2>5, RatedQuiet
<1>4. CASE \/ ConfirmEndsAlone(m, l) \/ AbortMatch(m, l) \/ RecordFirst(m, l)
           \/ RecordSecond(m, l) \/ CheckIdle(m, l)
           \/ ConfirmEndsBoth(m, l) /\ Release(m, l)
  <2>1. Release(m, l) /\ cs[m][l] \notin {"mmr1", "mmr2"}
    BY <1>4 DEF ConfirmEndsAlone, AbortMatch, RecordFirst, RecordSecond, RecordFor, CheckIdle,
       Checking, ConfirmEndsBoth
  <2>2. UNCHANGED <<players, mmr, failures, processed>>
    BY <1>4 DEF ConfirmEndsAlone, AbortMatch, RecordFirst, RecordSecond, RecordFor, CheckIdle,
       ConfirmEndsBoth, rowVars, svcVars, taskVars
  <2>3. result'[m] \in Outcome <=> result[m] \in Outcome
    BY <1>0, <1>4 DEF ConfirmEndsAlone, AbortMatch, RecordFirst, RecordSecond, RecordFor,
       CheckIdle, ConfirmEndsBoth, rowVars, RowOK, IsTerminal
  <2>4. \A k \in LockObj : cs'[m][k] = IF k = l THEN "enter" ELSE cs[m][k]
    <3>1. cs'[m] = [cs[m] EXCEPT ![l] = "enter"] /\ cs[m] \in [LockObj -> HolderPc]
      BY <2>1, ReleaseLine DEF LockOK
    <3> QED BY <3>1
  <2> QED BY <1>0, <2>1, <2>2, <2>3, <2>4, RatedQuiet
<1>5. CASE \/ ConfirmEndsBoth(m, l) /\ ~Release(m, l)
           \/ MonitorFindsResult(m, l)
           \/ MonitorAborts(m, l) /\ m \in processed
  <2>1. ReleaseAndCancelMonitor(m, l)
    BY <1>5 DEF ConfirmEndsBoth, MonitorFindsResult, MonitorAborts, AlreadyProcessed
  <2>2. UNCHANGED <<players, mmr, failures, processed>>
    BY <1>5 DEF ConfirmEndsBoth, MonitorFindsResult, MonitorAborts, AlreadyProcessed, rowVars,
       svcVars
  <2>3. result'[m] \in Outcome <=> result[m] \in Outcome
    BY <1>0, <1>5 DEF ConfirmEndsBoth, MonitorFindsResult, MonitorAborts, rowVars, RowOK
  <2>4. monitor[m] # "none"
    <3>1. CASE ConfirmEndsBoth(m, l) /\ ~Release(m, l)
      BY <3>1 DEF ConfirmEndsBoth
    <3>2. CASE MonitorFindsResult(m, l) \/ MonitorAborts(m, l)
      <4>1. Head(lockQ[m][l]) = Monitor
        BY <3>2 DEF MonitorFindsResult, MonitorAborts, Told, At, Shape, HolderShape
      <4>2. lockQ[m][l] \in Seq(Task)
        BY DEF LockOK
      <4>3. Monitor \in InLine(m, l)
        BY <4>1, <4>2, LenProperties, EmptySeq DEF InLine, ToSet
      <4> QED BY <4>3 DEF Shape, OneMonitor
    <3> QED BY <1>5, <3>1, <3>2
  <2>5. \A k \in LockObj : cs'[m][k] \in {cs[m][k], "enter"}
    BY <2>1, CancelLine
  <2> QED BY <1>0, <1>1, <2>2, <2>3, <2>4, <2>5, RatedQuiet
<1>6. CASE EndAbort(m, l) \/ EndComplete(m, l) \/ EndConflict(m, l)
  <2>1. /\ \E popLock : StopMonitoring(m, l, popLock)
        /\ UNCHANGED <<players, mmr, failures, result>> /\ processed \subseteq processed'
        /\ cs[m][l] \in {"abort", "complete", "conflict"}
    BY <1>6 DEF EndAbort, EndComplete, EndConflict, Told, At, rowVars
  <2>2. \A k \in LockObj : cs'[m][k] \in {cs[m][k], "enter"}
    BY <2>1, StopLine
  <2>3. failures = 0 => \A k \in LockObj : cs[m][k] \notin {"mmr1", "mmr2"}
    BY <2>1 DEF Guarded, Alone, Sound, HandlerPc
  <2> QED BY <1>0, <2>1, <2>2, <2>3, RatedQuiet
<1>7. CASE RateFails(m, l)
  <2>1. /\ UNCHANGED <<players, mmr, result, processed>> /\ failures' = failures + 1
        /\ PlayersOf(m)' = PlayersOf(m)
    BY <1>7 DEF RateFails, rowVars, PlayersOf
  <2>2. failures' # 0
    BY <1>0, <2>1
  <2> QED BY <2>1, <2>2 DEF Rated
<1>8. ASSUME NEW c \in Callback, Deliver(m, l, c) PROVE Rated(m)'
  <2>1. UNCHANGED <<players, mmr, result, failures, processed, cs>>
    BY <1>8 DEF Deliver, rowVars, svcVars, taskVars
  <2> QED BY <1>0, <2>1, RatedQuiet
<1> QED BY <1>2, <1>3, <1>4, <1>5, <1>6, <1>7, <1>8 DEF HolderStep

AllRated == \A m \in Match : Rated(m)

LEMMA RatedNext ==
  ASSUME TypeOK, MonitorIsMonitored, ResultIsReported, OnlyItsPlayers, Shaped, Coded,
         AllGuarded, AllRated, [Next]_vars
  PROVE  AllRated'
<1>0. TypeOK' /\ AllGuarded'
  BY TypeNext, GuardedNext
<1>1. failures' \in Nat
  BY <1>0 DEF TypeOK, TaskOK
<1>2. ASSUME NEW n \in Match, Spares(n) PROVE Rated(n)'
  BY <1>1, <1>2, RatedQuiet DEF Spares, AllRated
<1>3. CASE \A n \in Match : Spares(n)
  BY <1>2, <1>3 DEF AllRated
<1>4. ASSUME NEW m \in Match, Apart(m), Rated(m)' PROVE AllRated'
  BY <1>2, <1>4 DEF Apart, AllRated
<1>5. ASSUME NEW m \in Match, NEW p \in Player, NEW q \in Player, CreateMatch(m, p, q)
      PROVE  Rated(m)'
  <2>1. /\ UNCHANGED <<result, mmr, svcVars, lockVars, taskVars>>
        /\ players[m] = <<>> /\ players'[m] = <<p, q>> /\ p # q
    BY <1>5, ApartCreate
  <2>2. PlayersOf(m) = {}
    BY <2>1 DEF PlayersOf
  <2>3. \A r \in Player : mmr[m][r] = 0
    BY <2>2 DEF AllRated, Rated, TypeOK, RowOK
  <2> QED BY <2>1, <2>3 DEF AllRated, Rated, svcVars, lockVars, taskVars
<1>6. ASSUME NEW m \in Match, OutsideStep(m) PROVE Rated(m)'
  <2>1. UNCHANGED <<players, mmr, cs, result, processed, failures>>
    BY <1>6 DEF OutsideStep, ViewStep, UploadStep, ShowMatch, ShowMatchFails, BuildFoundView,
       PublishFoundView, FoundViewFails, RecordReport, OpponentNotified, Click, StartUpload,
       StartCheck, MonitorWakes, GetLock, rowVars, svcVars, lockVars, taskVars
  <2> QED BY <1>1, <2>1, RatedQuiet DEF AllRated
<1>7. ASSUME NEW m \in Match, NEW l \in LockObj, lockQ[m][l] # <<>>, HolderStep(m, l)
      PROVE  Rated(m)'
  BY <1>0, <1>7, RatedHolder DEF AllRated, AllGuarded, Shaped
<1> QED BY <1>3, <1>4, <1>5, <1>6, <1>7, StepOf DEF Shaped

\* Who of a match is rated so far is what the row and the task that ends the match say.
THEOREM RatingFits == Spec => []AllRated
<1>1. Init => AllRated
  <2> SUFFICES ASSUME Init, NEW m \in Match PROVE Rated(m)
    BY DEF AllRated
  <2> QED BY MatchLifecycleAssumption DEF Init, Rated
<1> QED BY <1>1, RatedNext, TypeCorrect, MonitorBelongs, ResultReported, OnlyPlayersInvolved,
           HoldersInShape, AbortIsCoded, LocksDoTheirDuty, PTL DEF Spec

\* A match changes the MMR of nobody but its two players, only with the result both reports
\* state, and of each player once unless a ranking refresh raised.
THEOREM RatedAsReported == Spec => []RatedOnceAsReported
<1>1. ASSUME TypeOK, AllRated, ResultIsReported PROVE RatedOnceAsReported
  <2> SUFFICES ASSUME NEW m \in Match, NEW p \in Player, mmr[m][p] > 0
               PROVE  /\ failures = 0 => mmr[m][p] = 1
                      /\ p \in PlayersOf(m)
                      /\ result[m] \in Outcome /\ report[m] = <<result[m], result[m]>>
    BY DEF RatedOnceAsReported
  <2>1. mmr[m][p] \in Nat
    BY <1>1 DEF TypeOK, RowOK
  <2>2. p \in PlayersOf(m) /\ result[m] \in Outcome /\ (failures = 0 => mmr[m][p] <= 1)
    BY <1>1 DEF AllRated, Rated
  <2>3. report[m] = <<result[m], result[m]>>
    BY <1>1, <2>2 DEF ResultIsReported
  <2> QED BY <2>1, <2>2, <2>3
<1> QED BY <1>1, TypeCorrect, RatingFits, ResultReported, PTL

\* No "zombie" completion: a match that was aborted, by a player or by the timer, never
\* changed and never changes any MMR.
THEOREM AbortedUnrated == Spec => []AbortedNeverRated
<1>1. ASSUME TypeOK, AllRated PROVE AbortedNeverRated
  <2>1. -1 \notin Outcome
    BY MatchLifecycleAssumption
  <2>2. \A m \in Match, p \in Player : mmr[m][p] \in Nat
    BY <1>1 DEF TypeOK, RowOK
  <2> QED BY <1>1, <2>1, <2>2 DEF AbortedNeverRated, AllRated, Rated
<1> QED BY <1>1, TypeCorrect, RatingFits, PTL

-----------------------------------------------------------------------------
(* The match is revealed when both its players have confirmed *)

\* Only players of m confirm it, and nobody waits for a reveal of a match that is not
\* monitored.
Confirmers(m) ==
  /\ \A p \in Player : <<"confirm", p>> \in Waiting(m) => p \in PlayersOf(m)
  /\ Confirmed(m) \subseteq PlayersOf(m)
  /\ m \notin monitored => bothConfirmed[m] = {}

LEMMA ConfirmersKept ==
  ASSUME NEW m \in Match, Confirmers(m), PlayersOf(m) \subseteq PlayersOf(m)',
         \A p \in Player : <<"confirm", p>> \in Waiting(m)' =>
                             <<"confirm", p>> \in Waiting(m) \/ p \in PlayersOf(m),
         Confirmed(m)' \subseteq Confirmed(m) \cup PlayersOf(m),
         \/ m \in monitored'
         \/ bothConfirmed'[m] = {}
         \/ m \notin monitored /\ bothConfirmed'[m] = bothConfirmed[m]
  PROVE  Confirmers(m)'
BY DEF Confirmers

\* The confirmations and the waiting views of the other matches stay what they are.
LEMMA ConfirmationsApart ==
  ASSUME TypeOK, NEW m \in Match, NEW n \in Match, n # m,
         OutsideStep(m) \/ \E l \in LockObj : HolderStep(m, l)
  PROVE  confirmations'[n] = confirmations[n] /\ bothConfirmed'[n] = bothConfirmed[n]
<1> USE DEF TypeOK, SvcOK
<1>1. CASE OutsideStep(m)
  BY <1>1 DEF OutsideStep, ViewStep, UploadStep, ShowMatch, ShowMatchFails, BuildFoundView,
     PublishFoundView, FoundViewFails, StartMonitoring, RecordReport, OpponentNotified, Click,
     StartUpload, StartCheck, MonitorWakes, svcVars
<1>2. ASSUME NEW l \in LockObj, HolderStep(m, l)
      PROVE  confirmations'[n] = confirmations[n] /\ bothConfirmed'[n] = bothConfirmed[n]
  <2>1. CASE \E popLock : StopMonitoring(m, l, popLock)
    BY <2>1 DEF StopMonitoring
  <2>2. CASE UNCHANGED <<confirmations, bothConfirmed>>
    BY <2>2
  <2>3. CASE ConfirmBegins(m, l) \/ ConfirmEndsBoth(m, l)
    BY <2>3 DEF ConfirmBegins, ConfirmEndsBoth
  <2> QED
    BY <1>2, <2>1, <2>2, <2>3
    DEF HolderStep, ConfirmEndsAlone, AbortMatch, RecordFirst, RecordSecond, RecordFor, CheckIdle,
        CheckAborts, CheckCompletes, CheckConflicts, RateSecond, RateFails, Complete, EndAbort,
        EndComplete, EndConflict, MonitorExpires, MonitorFindsResult, MonitorAborts, Deliver,
        svcVars
<1> QED BY <1>1, <1>2

LEMMA ConfirmersOutside ==
  ASSUME TypeOK, OnlyItsPlayers, NEW m \in Match, Confirmers(m), OutsideStep(m)
  PROVE  Confirmers(m)'
<1> USE MatchLifecycleAssumption DEF TypeOK
<1>0. PlayersOf(m)' = PlayersOf(m)
  BY DEF OutsideStep, ViewStep, UploadStep, ShowMatch, ShowMatchFails, BuildFoundView,
     PublishFoundView, FoundViewFails, RecordReport, OpponentNotified, Click, StartUpload,
     StartCheck, MonitorWakes, rowVars, PlayersOf
<1>1. ASSUME NEW p \in Player, NEW button \in {"confirm", "abort"}, Click(m, p, button)
      PROVE  Confirmers(m)'
  <2>1. p \in PlayersOf(m)
    BY <1>1 DEF Click, Clickable, OnlyItsPlayers, ViewersPlay
  <2>2. <<button, p>> \in Task /\ GetLock(m, <<button, p>>) /\ UNCHANGED svcVars
    BY <1>1 DEF Click, Task
  <2>3. Waiting(m)' \subseteq Waiting(m) \cup {<<button, p>>}
    BY <2>2, GetLockWaits
  <2>4. \A q \in Player : <<"confirm", q>> = <<button, p>> => q = p
    OBVIOUS
  <2> QED BY <1>0, <2>1, <2>2, <2>3, <2>4, ConfirmersKept DEF svcVars, Confirmed
<1>2. CASE \/ StartCheck(m) \/ MonitorWakes(m) \/ \E p \in Player : RecordReport(m, p)
  <2>1. PICK task \in Task : GetLock(m, task) /\ task[1] # "confirm" /\ UNCHANGED svcVars
    <3>1. Check \in Task /\ Monitor \in Task /\ Check[1] # "confirm" /\ Monitor[1] # "confirm"
      BY DEF Task, Check, Monitor
    <3>2. \A p \in Player, kind \in {"record1", "record2"} :
            <<kind, p>> \in Task /\ <<kind, p>>[1] # "confirm"
      BY DEF Task
    <3> QED BY <1>2, <3>1, <3>2 DEF StartCheck, MonitorWakes, RecordReport
  <2>2. Waiting(m)' \subseteq Waiting(m) \cup {task}
    BY <2>1, GetLockWaits
  <2>3. \A q \in Player : <<"confirm", q>>[1] = "confirm"
    OBVIOUS
  <2> QED BY <1>0, <2>1, <2>2, <2>3, ConfirmersKept DEF svcVars, Confirmed
<1>3. CASE \E p \in Player : \/ ViewStep(m, p) \/ OpponentNotified(m, p)
                            \/ \E v \in Outcome : StartUpload(m, p, v)
  <2>1. Waiting(m)' = Waiting(m)
    BY <1>3 DEF ViewStep, ShowMatch, ShowMatchFails, BuildFoundView, PublishFoundView,
       FoundViewFails, OpponentNotified, StartUpload, lockVars, Waiting
  <2>2. CASE UNCHANGED svcVars
    BY <1>0, <2>1, <2>2, ConfirmersKept DEF svcVars, Confirmed
  <2>3. CASE \E c : StartMonitoring(m, c)
    <3>1. m \in monitored' /\ confirmations'[m] \in {confirmations[m], {}}
      BY <2>3 DEF StartMonitoring, SvcOK
    <3>2. Confirmed(m)' \subseteq Confirmed(m)
      BY <3>1 DEF Confirmed
    <3> QED BY <1>0, <2>1, <3>1, <3>2, ConfirmersKept
  <2> QED BY <1>3, <2>2, <2>3 DEF ViewStep, ShowMatch, ShowMatchFails, BuildFoundView,
       PublishFoundView, FoundViewFails, OpponentNotified, StartUpload
<1> QED BY <1>1, <1>2, <1>3 DEF OutsideStep, UploadStep

LEMMA ConfirmersHolder ==
  ASSUME TypeOK, MonitorIsMonitored, NEW m \in Match, NEW l \in LockObj, lockQ[m][l] # <<>>,
         Shape(m), Confirmers(m), HolderStep(m, l)
  PROVE  Confirmers(m)'
<1> USE MatchLifecycleAssumption DEF TypeOK
<1>0. PlayersOf(m)' = PlayersOf(m)
  <2>1. players' = players
    BY DEF HolderStep, ConfirmBegins, ConfirmEndsAlone, ConfirmEndsBoth, AbortMatch, RecordFirst,
       RecordSecond, RecordFor, CheckIdle, CheckAborts, CheckCompletes, CheckConflicts,
       RateSecond, RateFails, Complete, EndAbort, EndComplete, EndConflict, MonitorExpires,
       MonitorFindsResult, MonitorAborts, Deliver, rowVars
  <2> QED BY <2>1 DEF PlayersOf
<1>1. \A k \in LockObj : InLine(m, k)' \subseteq InLine(m, k)
  <2>1. CASE \E pc : Suspend(m, l, pc)
    BY <2>1, SuspendLine DEF InLine
  <2>2. CASE Release(m, l)
    BY <2>2, ReleaseLine
  <2>3. CASE ReleaseAndCancelMonitor(m, l)
    BY <2>3, CancelLine
  <2>4. CASE \E popLock : StopMonitoring(m, l, popLock)
    BY <2>4, StopLine
  <2>5. CASE UNCHANGED lockQ
    BY <2>5 DEF InLine
  <2> QED
    BY <2>1, <2>2, <2>3, <2>4, <2>5
    DEF HolderStep, ConfirmBegins, ConfirmEndsAlone, ConfirmEndsBoth, AbortMatch, RecordFirst,
        RecordSecond, RecordFor, CheckIdle, CheckAborts, CheckCompletes, CheckConflicts,
        RateSecond, RateFails, Complete, EndAbort, EndComplete, EndConflict, MonitorExpires,
        MonitorFindsResult, MonitorAborts, HandleAbort, Deliver
<1>2. \A t : t \in Waiting(m)' => t \in Waiting(m)
  BY <1>1, WaitingInLine, WaitingInLineNext
<1>3. CASE UNCHANGED <<confirmations, monitored, bothConfirmed>>
  BY <1>0, <1>2, <1>3, ConfirmersKept DEF Confirmed
<1>4. CASE \E popLock : StopMonitoring(m, l, popLock)
  <2>1. \/ UNCHANGED confirmations
        \/ confirmations'[m] = None
    BY <1>4 DEF StopMonitoring, SvcOK
  <2>2. \/ bothConfirmed'[m] = {}
        \/ m \notin monitored /\ bothConfirmed'[m] = bothConfirmed[m]
    BY <1>4 DEF StopMonitoring, SvcOK
  <2>3. Confirmed(m)' \subseteq Confirmed(m)
    BY <2>1 DEF Confirmed
  <2> QED BY <1>0, <1>2, <2>2, <2>3, ConfirmersKept
<1>5. CASE ConfirmEndsBoth(m, l)
  <2>1. confirmations'[m] = None /\ bothConfirmed'[m] = {}
    BY <1>5 DEF ConfirmEndsBoth, SvcOK
  <2>2. Confirmed(m)' = {}
    BY <2>1 DEF Confirmed
  <2> QED BY <1>0, <1>2, <2>1, <2>2, ConfirmersKept
<1>6. CASE ConfirmBegins(m, l)
  <2>1. PICK p \in Player : Head(lockQ[m][l]) = <<"confirm", p>>
    <3>1. Head(lockQ[m][l]) \in Task /\ Head(lockQ[m][l])[1] = "confirm"
      BY <1>6, HeadIsTask DEF ConfirmBegins, Holds
    <3> QED BY <3>1 DEF Task, Monitor, Check
  <2>2. p \in PlayersOf(m)
    BY <2>1, HolderWaits DEF Confirmers
  <2>3. confirmations'[m] = Confirmed(m) \cup {p}
    BY <1>6, <2>1 DEF ConfirmBegins, SvcOK
  <2>4. Confirmed(m)' \subseteq Confirmed(m) \cup PlayersOf(m)
    BY <2>2, <2>3 DEF Confirmed
  <2>5. UNCHANGED <<monitored, bothConfirmed>>
    BY <1>6 DEF ConfirmBegins
  <2> QED BY <1>0, <1>2, <2>4, <2>5, ConfirmersKept
<1> QED
  BY <1>3, <1>4, <1>5, <1>6
  DEF HolderStep, ConfirmEndsAlone, AbortMatch, RecordFirst, RecordSecond, RecordFor, CheckIdle,
      CheckAborts, CheckCompletes, CheckConflicts, RateSecond, RateFails, Complete, EndAbort,
      EndComplete, EndConflict, MonitorExpires, MonitorFindsResult, MonitorAborts, Deliver,
      svcVars

AllConfirmers == \A m \in Match : Confirmers(m)

LEMMA ConfirmersNext ==
  ASSUME TypeOK, MonitorIsMonitored, OnlyItsPlayers, Shaped, AllConfirmers, [Next]_vars
  PROVE  AllConfirmers'
<1>1. ASSUME NEW n \in Match, Spares(n), confirmations'[n] = confirmations[n],
             bothConfirmed'[n] = bothConfirmed[n]
      PROVE  Confirmers(n)'
  <2>1. PlayersOf(n)' = PlayersOf(n) /\ Waiting(n)' = Waiting(n)
    BY <1>1 DEF Spares, PlayersOf, Waiting
  <2> QED BY <1>1, <2>1 DEF Spares, AllConfirmers, Confirmers, Confirmed
<1>2. ASSUME NEW m \in Match, Apart(m), Confirmers(m)',
             OutsideStep(m) \/ \E l \in LockObj : HolderStep(m, l)
      PROVE  AllConfirmers'
  BY <1>1, <1>2, ConfirmationsApart DEF Apart, AllConfirmers
<1>3. ASSUME NEW m \in Match, NEW p \in Player, NEW q \in Player, CreateMatch(m, p, q)
      PROVE  AllConfirmers'
  <2>1. /\ Apart(m) /\ UNCHANGED <<svcVars, lockVars>>
        /\ players[m] = <<>>
    BY <1>3, ApartCreate
  <2>2. PlayersOf(m) = {} /\ Waiting(m)' = Waiting(m)
    BY <2>1 DEF PlayersOf, Waiting, lockVars
  <2>3. Confirmers(m)'
    BY <2>1, <2>2, ConfirmersKept DEF AllConfirmers, svcVars, Confirmed
  <2> QED BY <1>1, <2>1, <2>3 DEF Apart, AllConfirmers, svcVars
<1>4. CASE (\E p \in Player : JoinQueue(p) \/ LeaveQueue(p)) \/ UNCHANGED vars
  <2>1. UNCHANGED <<rowVars, svcVars, lockVars>>
    BY <1>4 DEF JoinQueue, LeaveQueue, vars
  <2>2. \A n \in Match : PlayersOf(n)' = PlayersOf(n) /\ Waiting(n)' = Waiting(n)
    BY <2>1 DEF rowVars, lockVars, PlayersOf, Waiting
  <2> QED BY <2>1, <2>2 DEF AllConfirmers, Confirmers, Confirmed, svcVars
<1>5. ASSUME NEW m \in Match, OutsideStep(m) PROVE AllConfirmers'
  BY <1>2, <1>5, ApartOutside, ConfirmersOutside DEF AllConfirmers
<1>6. ASSUME NEW m \in Match, NEW l \in LockObj, HolderStep(m, l) PROVE AllConfirmers'
  <2>1. lockQ[m][l] # <<>>
    BY <1>6
    DEF HolderStep, ConfirmBegins, ConfirmEndsAlone, ConfirmEndsBoth, AbortMatch, RecordFirst,
        RecordSecond, CheckIdle, CheckAborts, CheckCompletes, CheckConflicts, Checking,
        RateSecond, RateFails, Complete, EndAbort, EndComplete, EndConflict, MonitorExpires,
        MonitorFindsResult, MonitorAborts, Deliver, Told, At, Holds
  <2> QED BY <1>2, <1>6, <2>1, ApartHolder, ConfirmersHolder DEF AllConfirmers, Shaped
<1> QED
  BY <1>3, <1>4, <1>5, <1>6
  DEF Next, PlayerStep, OutsideStep, ClickConfirm, ClickAbort

\* A set of two players of which two have confirmed.
LEMMA BothOf ==
  ASSUME NEW p, NEW q, NEW S, S \subseteq {p, q}, Cardinality(S) = 2
  PROVE  S = {p, q}
<1>1. S \in {{}, {p}, {q}, {p, q}}
  OBVIOUS
<1>2. Cardinality({}) = 0 /\ Cardinality({p}) = 1 /\ Cardinality({q}) = 1
  BY FS_EmptySet, FS_Singleton
<1> QED BY <1>1, <1>2

\* A view gives way to a found view only in the step that finds both players confirmed.
LEMMA WhoReveals ==
  ASSUME TypeOK, MonitorIsMonitored, Shaped, [Next]_vars, NEW m \in Match, NEW p \in Player,
         view'[m][p] = "building", view[m][p] # "building"
  PROVE  \E l \in LockObj : ConfirmEndsBoth(m, l) /\ lockQ[m][l] # <<>> /\ p \in bothConfirmed[m]
<1> USE DEF TypeOK
<1>1. ~Spares(m)
  BY DEF Spares
<1>2. ASSUME NEW n \in Match, Apart(n) PROVE n = m
  BY <1>1, <1>2 DEF Apart
<1>3. ~OutsideStep(m)
  <2>1. ASSUME NEW q \in Player, ViewStep(m, q) PROVE FALSE
    <3>1. PICK v \in {"notification", "lost", "found", "live"} : view' = [view EXCEPT ![m][q] = v]
      BY <2>1 DEF ViewStep, ShowMatch, ShowMatchFails, BuildFoundView, PublishFoundView,
         FoundViewFails
    <3> QED BY <3>1 DEF ViewOK
  <2>2. ASSUME OutsideStep(m), ~ \E q \in Player : ViewStep(m, q) PROVE view' = view
    BY <2>2 DEF OutsideStep, UploadStep, RecordReport, OpponentNotified, Click, StartUpload,
       StartCheck, MonitorWakes, viewVars
  <2> QED BY <2>1, <2>2
<1>4. ~ \E q, r \in Player : CreateMatch(m, q, r)
  BY ApartCreate
<1>5. PICK l \in LockObj : HolderStep(m, l) /\ lockQ[m][l] # <<>>
  BY <1>1, <1>2, <1>3, <1>4, StepOf DEF Shaped
<1>6. ~ \E c \in Callback : Deliver(m, l, c)
  <2> SUFFICES ASSUME NEW c \in Callback, Deliver(m, l, c) PROVE FALSE
    OBVIOUS
  <2>1. PICK r \in Player : c[2] = r
    BY DEF Callback
  <2>2. \E v \in {view[m][r], "closed", "expired"} : view' = [view EXCEPT ![m][r] = v]
    BY <2>1 DEF Deliver, ViewOK
  <2> QED BY <2>2 DEF ViewOK
<1>7. ASSUME NEW ps, CancelListeners(ps) PROVE FALSE
  BY <1>7 DEF CancelListeners
<1>8. view' # view
  OBVIOUS
<1>9. ConfirmEndsBoth(m, l)
  BY <1>5, <1>6, <1>7, <1>8
  DEF HolderStep, ConfirmBegins, ConfirmEndsAlone, AbortMatch, RecordFirst, RecordSecond,
      RecordFor, CheckIdle, CheckAborts, CheckCompletes, CheckConflicts, RateSecond, RateFails,
      Complete, EndAbort, EndComplete, EndConflict, MonitorExpires, MonitorFindsResult,
      MonitorAborts, HandleAbort, viewVars
<1>10. p \in bothConfirmed[m]
  BY <1>9 DEF ConfirmEndsBoth, ViewOK
<1> QED BY <1>5, <1>9, <1>10

\* Whoever confirmed a match, or is in line to confirm it, is one of its players, and a
\* match that is not watched any more waits for no reveal.
THEOREM ConfirmersPlay == Spec => []AllConfirmers
<1>1. Init => AllConfirmers
  <2> SUFFICES ASSUME Init, NEW m \in Match PROVE Confirmers(m)
    BY DEF AllConfirmers
  <2>1. Waiting(m) = {}
    BY DEF Init, Waiting, ToSet
  <2> QED BY <2>1 DEF Init, Confirmers, Confirmed
<1> QED BY <1>1, ConfirmersNext, TypeCorrect, MonitorBelongs, OnlyPlayersInvolved,
           HoldersInShape, PTL DEF Spec

\* No player sees who the other is before both have pressed Confirm, for a match the
\* service still watches.
THEOREM BothConfirmFirst == Spec => RevealNeedsBoth
<1>1. ASSUME TypeOK, MonitorIsMonitored, OnlyItsPlayers, Shaped, AllConfirmers, [Next]_vars
      PROVE  [\A m \in Match, p \in Player :
                view'[m][p] = "building" /\ view[m][p] # "building"
                  => PlayersOf(m) \subseteq confirmations[m] /\ m \in monitored]_vars
  <2> SUFFICES ASSUME NEW m \in Match, NEW p \in Player,
                      view'[m][p] = "building", view[m][p] # "building"
               PROVE  PlayersOf(m) \subseteq confirmations[m] /\ m \in monitored
    OBVIOUS
  <2>1. PICK l \in LockObj :
          ConfirmEndsBoth(m, l) /\ lockQ[m][l] # <<>> /\ p \in bothConfirmed[m]
    BY <1>1, WhoReveals
  <2>2. PICK q \in Player, r \in Player : PlayersOf(m) = {q, r}
    BY <1>1, <2>1, TwoPlayers
  <2>3. Cardinality(Confirmed(m)) = 2 /\ Confirmed(m) \subseteq {q, r}
    BY <1>1, <2>1, <2>2 DEF ConfirmEndsBoth, AllConfirmed, AllConfirmers, Confirmers
  <2>4. Confirmed(m) = PlayersOf(m)
    BY <2>2, <2>3, BothOf
  <2>5. confirmations[m] = Confirmed(m)
    BY <2>2, <2>4 DEF Confirmed
  <2> QED BY <1>1, <2>1, <2>4, <2>5 DEF AllConfirmers, Confirmers
<1> QED BY <1>1, TypeCorrect, MonitorBelongs, OnlyPlayersInvolved, HoldersInShape,
           ConfirmersPlay, PTL DEF Spec, RevealNeedsBoth

=============================================================================
