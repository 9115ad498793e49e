------------------------ MODULE PlayerAccount_proof ------------------------
(***************************************************************************)
(* Proofs about PlayerAccount: type correctness, that the database catches  *)
(* up with memory (DbCatchesUp) and that a completed setup is whole         *)
(* (SetupIsWhole), by one invariant.  Its parts are: RowInv, that the queue *)
(* leads from the row in the database to the row in memory and that the row *)
(* in memory tells the truth; ViewInv, that messages of the setup are open  *)
(* only behind an acceptance of the terms; RestInv, the types of the rest.  *)
(* On top of it AuditInv: what the log and the queued entries say leads,    *)
(* for each field, from a new row to the row in memory (AuditTells).        *)
(***************************************************************************)
EXTENDS PlayerAccount, SequenceTheorems, TLAPS

\* What each field of a row may hold.
FieldType ==
  [username |-> Handle, name |-> Opt(Id), alts |-> Aliases, country |-> Opt(Country),
   region |-> Opt(Region), tos |-> BOOLEAN, setup |-> BOOLEAN, aborts |-> Int,
   banned |-> BOOLEAN, shield |-> BOOLEAN, guide |-> BOOLEAN]

LEMMA FieldNames ==
  Fields = {"username", "name", "alts", "country", "region", "tos", "setup",
            "aborts", "banned", "shield", "guide"}
  BY DEF Fields, NewRow

\* A row, field by field.
LEMMA RowIs ==
  ASSUME NEW r, r = [f \in Fields |-> r[f]],
         \A f \in Fields : r[f] \in FieldType[f],
         r["name"] \notin ToSet(r["alts"])
  PROVE  r \in Row
  <1>1. /\ r.username \in Handle /\ r.name \in Opt(Id) /\ r.alts \in Aliases
        /\ r.country \in Opt(Country) /\ r.region \in Opt(Region)
    BY FieldNames DEF FieldType
  <1>2. /\ r.tos \in BOOLEAN /\ r.setup \in BOOLEAN /\ r.aborts \in Int
        /\ r.banned \in BOOLEAN /\ r.shield \in BOOLEAN /\ r.guide \in BOOLEAN
    BY FieldNames DEF FieldType
  <1>3. r = [username |-> r.username, name |-> r.name, alts |-> r.alts,
             country |-> r.country, region |-> r.region, tos |-> r.tos,
             setup |-> r.setup, aborts |-> r.aborts, banned |-> r.banned,
             shield |-> r.shield, guide |-> r.guide]
    BY FieldNames
  <1> QED BY <1>1, <1>2, <1>3 DEF Row

LEMMA RowHas ==
  ASSUME NEW r \in Row
  PROVE  /\ r = [f \in Fields |-> r[f]]
         /\ DOMAIN r = Fields
         /\ \A f \in Fields : r[f] \in FieldType[f]
         /\ r.name \notin ToSet(r.alts)
  <1>1. /\ DOMAIN r = Fields
        /\ r.name \notin ToSet(r.alts)
    BY FieldNames DEF Row
  <1>2. /\ r.username \in Handle /\ r.name \in Opt(Id) /\ r.alts \in Aliases
        /\ r.country \in Opt(Country) /\ r.region \in Opt(Region)
        /\ r.tos \in BOOLEAN /\ r.setup \in BOOLEAN /\ r.aborts \in Int
        /\ r.banned \in BOOLEAN /\ r.shield \in BOOLEAN /\ r.guide \in BOOLEAN
    BY DEF Row
  <1>3. \A f \in Fields : r[f] \in FieldType[f]
    BY <1>2, FieldNames DEF FieldType
  <1>4. r = [f \in Fields |-> r[f]]
    BY FieldNames DEF Row
  <1> QED BY <1>1, <1>3, <1>4

LEMMA NewRowIsRow ==
  ASSUME NEW u \in Handle
  PROVE  NewRow(u) \in Row
  <1>1. <<>> \in Aliases
    BY DEF Aliases, IsInjective
  <1>2. None \notin ToSet(<<>>)
    BY DEF ToSet
  <1> QED BY <1>1, <1>2 DEF NewRow, Row, Opt, FullAborts

\* What fits has the types of the fields it sets.
LEMMA FitsHas ==
  ASSUME NEW set, Fits(set), NEW u \in Handle
  PROVE  /\ \A f \in DOMAIN set : f \in Fields /\ set[f] \in FieldType[f]
         /\ "name" \in DOMAIN set => set["name"] \notin ToSet(set["alts"])
  <1>1. Merge(NewRow(u), set) \in Row
    BY DEF Fits
  <1>2. \A f \in DOMAIN set : f \in Fields /\ Merge(NewRow(u), set)[f] = set[f]
    BY DEF Fits, Merge
  <1>3. "name" \in DOMAIN set => "alts" \in DOMAIN set
    BY DEF Fits
  <1> QED BY <1>1, <1>2, <1>3, RowHas

LEMMA MergeIsRow ==
  ASSUME NEW set, Fits(set), NEW u \in Handle, NEW row \in Row
  PROVE  Merge(row, set) \in Row
  <1> DEFINE r == Merge(row, set)
  <1>1. r = [f \in Fields |-> r[f]]
    BY DEF Merge
  <1>2. \A f \in Fields : r[f] \in FieldType[f]
    BY FitsHas, RowHas DEF Merge
  <1>3. r["name"] \notin ToSet(r["alts"])
    <2>1. CASE "name" \in DOMAIN set
      BY <2>1, FitsHas, FieldNames DEF Merge, Fits
    <2>2. CASE "name" \notin DOMAIN set
      <3>1. "alts" \notin DOMAIN set
        BY <2>2 DEF Fits
      <3>2. r["name"] = row.name /\ r["alts"] = row.alts
        BY <2>2, <3>1, FieldNames DEF Merge
      <3> QED BY <3>2, RowHas
    <2> QED BY <2>1, <2>2
  <1> QED BY <1>1, <1>2, <1>3, RowIs

\* Fields that stand alone are set one at a time.
Single == Fields \ {"name", "alts"}

LEMMA OneFieldFits ==
  ASSUME NEW f \in Single, NEW v \in FieldType[f]
  PROVE  /\ Fits(Only(f, v))
         /\ DOMAIN Only(f, v) = {f}
         /\ Only(f, v)[f] = v
  <1>1. DOMAIN Only(f, v) = {f} /\ Only(f, v)[f] = v
    BY DEF Only
  <1>2. ASSUME NEW u \in Handle PROVE Merge(NewRow(u), Only(f, v)) \in Row
    <2> DEFINE r == Merge(NewRow(u), Only(f, v))
    <2>1. r = [g \in Fields |-> r[g]] /\ \A g \in Fields : r[g] = IF g = f THEN v ELSE NewRow(u)[g]
      BY <1>1 DEF Merge
    <2>2. \A g \in Fields : r[g] \in FieldType[g]
      BY <2>1, NewRowIsRow, RowHas
    <2>3. r["name"] = NewRow(u).name /\ r["alts"] = NewRow(u).alts
      BY <2>1, FieldNames DEF Single
    <2>4. r["name"] \notin ToSet(r["alts"])
      BY <2>3, NewRowIsRow, RowHas
    <2> QED BY <2>1, <2>2, <2>4, RowIs
  <1> QED BY <1>1, <1>2 DEF Fits, Single

LEMMA OneFieldIsMerge ==
  ASSUME NEW f \in Single, NEW v \in FieldType[f], NEW row \in Row
  PROVE  [row EXCEPT ![f] = v] = Merge(row, Only(f, v))
  <1>1. DOMAIN row = Fields /\ f \in Fields
    BY RowHas DEF Single
  <1>2. Merge(row, Only(f, v)) = [g \in Fields |-> IF g = f THEN v ELSE row[g]]
    <2>1. DOMAIN Only(f, v) = {f} /\ Only(f, v)[f] = v
      BY OneFieldFits
    <2> QED BY <2>1, Zenon DEF Merge
  <1> QED BY <1>1, <1>2

-----------------------------------------------------------------------------
(* The queue *)

IsSeq(q) == \E T : q \in Seq(T)

LEMMA AppendIsSeq ==
  ASSUME NEW q, IsSeq(q), NEW e
  PROVE  /\ IsSeq(Append(q, e))
         /\ Len(q) \in Nat
         /\ DOMAIN q = 1..Len(q)
         /\ DOMAIN Append(q, e) = 1..(Len(q) + 1)
         /\ \A i \in 1..Len(q) : Append(q, e)[i] = q[i]
         /\ Append(q, e)[Len(q) + 1] = e
  <1>1. PICK T : q \in Seq(T)
    BY DEF IsSeq
  <1>2. q \in Seq(T \cup {e})
    BY <1>1
  <1>3. Append(q, e) \in Seq(T \cup {e})
    BY <1>2
  <1>4. Len(q) \in Nat /\ DOMAIN q = 1..Len(q)
    BY <1>1
  <1> QED BY <1>2, <1>3, <1>4 DEF IsSeq

LEMMA TailIsSeq ==
  ASSUME NEW q, IsSeq(q), q # <<>>
  PROVE  /\ IsSeq(Tail(q))
         /\ Len(q) \in Nat \ {0}
         /\ DOMAIN q = 1..Len(q)
         /\ Head(q) = q[1]
         /\ DOMAIN Tail(q) = 1..(Len(q) - 1)
         /\ \A i \in 1..(Len(q) - 1) : Tail(q)[i] = q[i + 1]
  <1>1. PICK T : q \in Seq(T)
    BY DEF IsSeq
  <1>2. Tail(q) \in Seq(T)
    BY <1>1
  <1>3. /\ Len(q) \in Nat \ {0}
        /\ DOMAIN q = 1..Len(q)
        /\ Head(q) = q[1]
        /\ DOMAIN Tail(q) = 1..(Len(q) - 1)
        /\ \A i \in 1..(Len(q) - 1) : Tail(q)[i] = q[i + 1]
    BY <1>1
  <1> QED BY <1>2, <1>3 DEF IsSeq

SettersIn(q, f) == {i \in DOMAIN q : f \in DOMAIN q[i].set}
CreatesIn(q) == {i \in DOMAIN q : q[i].op = "create"}

\* The last job of q that sets f sets it to v.
LastSets(q, f, v) ==
  \E i \in SettersIn(q, f) : (\A j \in SettersIn(q, f) : j <= i) /\ q[i].set[f] = v

\* DbCatchesUp, of a row m in memory, a row d in the database and a queue q.
Catches(m, d, q) ==
  IF m = None THEN d = None
  ELSE \A f \in Fields :
         IF SettersIn(q, f) = {} THEN d # None /\ d[f] = m[f] ELSE LastSets(q, f, m[f])

\* A row that is in memory and not in the database has one job to create it.
CreatedOnce(m, d, q) ==
  /\ m = None \/ d # None => CreatesIn(q) = {}
  /\ m # None /\ d = None => \E i \in DOMAIN q : CreatesIn(q) = {i}

QueueOK(m, d, q) ==
  /\ IsSeq(q)
  /\ \A i \in DOMAIN q : JobOK(q[i])
  /\ CreatedOnce(m, d, q)
  /\ Catches(m, d, q)

\* A change made both in memory and by a job of the queue.
LEMMA JobKeepsQueue ==
  ASSUME NEW m \in Row, NEW d, NEW q, NEW set, NEW job, NEW u \in Handle,
         QueueOK(m, d, q), Fits(set), job.op = "update", job.set = set
  PROVE  QueueOK(Merge(m, set), d, Append(q, job))
  <1> DEFINE p == Append(q, job)
             n == Merge(m, set)
  <1>1. job.op = "update" /\ job.set = set
    OBVIOUS
  <1>2. /\ IsSeq(p) /\ Len(q) \in Nat
        /\ DOMAIN q = 1..Len(q) /\ DOMAIN p = 1..(Len(q) + 1)
        /\ \A i \in 1..Len(q) : p[i] = q[i]
        /\ p[Len(q) + 1] = job
    BY AppendIsSeq DEF QueueOK
  <1> HIDE DEF p
  <1>3. m # None /\ n # None
    BY MergeIsRow, NoRowAssumption
  <1>4. \A i \in DOMAIN p : JobOK(p[i])
    <2>1. JobOK(job)
      BY <1>1 DEF JobOK
    <2>2. \A i \in DOMAIN p : i \in DOMAIN q \/ i = Len(q) + 1
      BY <1>2
    <2> QED BY <1>2, <2>1, <2>2 DEF QueueOK
  <1>5. CreatesIn(p) = CreatesIn(q)
    BY <1>1, <1>2 DEF CreatesIn
  <1>6. CreatedOnce(n, d, p)
    BY <1>2, <1>3, <1>5 DEF QueueOK, CreatedOnce
  <1>7. ASSUME NEW f \in Fields
        PROVE  IF SettersIn(p, f) = {} THEN d # None /\ d[f] = n[f] ELSE LastSets(p, f, n[f])
    <2>1. CASE f \in DOMAIN set
      <3>1. Len(q) + 1 \in SettersIn(p, f)
        BY <1>1, <1>2, <2>1 DEF SettersIn
      <3>2. \A j \in SettersIn(p, f) : j <= Len(q) + 1
        BY <1>2 DEF SettersIn
      <3>3. n[f] = set[f]
        BY <2>1 DEF Merge
      <3> QED BY <1>1, <1>2, <3>1, <3>2, <3>3 DEF LastSets
    <2>2. CASE f \notin DOMAIN set
      <3>1. SettersIn(p, f) = SettersIn(q, f)
        BY <1>1, <1>2, <2>2 DEF SettersIn
      <3>2. n[f] = m[f]
        BY <2>2 DEF Merge
      <3>3. \A i \in SettersIn(q, f) : p[i] = q[i]
        BY <1>2 DEF SettersIn
      <3>4. IF SettersIn(q, f) = {} THEN d # None /\ d[f] = m[f] ELSE LastSets(q, f, m[f])
        BY <1>3 DEF QueueOK, Catches
      <3> QED BY <3>1, <3>2, <3>3, <3>4 DEF LastSets
    <2> QED BY <2>1, <2>2
  <1>8. Catches(n, d, p)
    BY <1>3, <1>7 DEF Catches
  <1>9. QueueOK(n, d, p)
    BY <1>2, <1>4, <1>6, <1>8 DEF QueueOK
  <1> QED BY <1>9 DEF p

LEMMA ChangeKeepsQueue ==
  ASSUME NEW m \in Row, NEW d, NEW q, NEW set, NEW e, NEW u \in Handle,
         QueueOK(m, d, q), Fits(set)
  PROVE  QueueOK(Merge(m, set), d, Append(q, Change(set, e)))
  <1>1. PICK job : job = Change(set, e)
    OBVIOUS
  <1>2. job.op = "update" /\ job.set = set
    BY <1>1 DEF Change
  <1> QED BY <1>1, <1>2, JobKeepsQueue

\* A job for a player without a row.
LEMMA JobWithoutRow ==
  ASSUME NEW q, NEW set, NEW e, QueueOK(None, None, q), Fits(set)
  PROVE  QueueOK(None, None, Append(q, Change(set, e)))
  <1> DEFINE job == Change(set, e)
             p == Append(q, job)
  <1>1. job.op = "update" /\ job.set = set
    BY DEF Change
  <1>2. /\ IsSeq(p) /\ Len(q) \in Nat
        /\ DOMAIN q = 1..Len(q) /\ DOMAIN p = 1..(Len(q) + 1)
        /\ \A i \in 1..Len(q) : p[i] = q[i]
        /\ p[Len(q) + 1] = job
    BY AppendIsSeq DEF QueueOK
  <1> HIDE DEF job, p
  <1>3. \A i \in DOMAIN p : JobOK(p[i])
    <2>1. JobOK(job)
      BY <1>1 DEF JobOK
    <2>2. \A i \in DOMAIN p : i \in DOMAIN q \/ i = Len(q) + 1
      BY <1>2
    <2> QED BY <1>2, <2>1, <2>2 DEF QueueOK
  <1>4. CreatesIn(p) = CreatesIn(q)
    BY <1>1, <1>2 DEF CreatesIn
  <1>5. QueueOK(None, None, p)
    BY <1>2, <1>3, <1>4 DEF QueueOK, CreatedOnce, Catches
  <1> QED BY <1>5 DEF job, p

\* The first command of the player.
LEMMA CreateKeepsQueue ==
  ASSUME NEW q, NEW u \in Handle, QueueOK(None, None, q)
  PROVE  QueueOK(NewRow(u), None, Append(q, Create(u)))
  <1> DEFINE job == Create(u)
             p == Append(q, job)
             n == NewRow(u)
  <1>0. n \in Row /\ n # None /\ DOMAIN n = Fields
    BY NewRowIsRow, NoRowAssumption, RowHas
  <1>1. job.op = "create" /\ job.set = n
    BY DEF Create
  <1>2. /\ IsSeq(p) /\ Len(q) \in Nat
        /\ DOMAIN q = 1..Len(q) /\ DOMAIN p = 1..(Len(q) + 1)
        /\ \A i \in 1..Len(q) : p[i] = q[i]
        /\ p[Len(q) + 1] = job
    BY AppendIsSeq DEF QueueOK
  <1> HIDE DEF job, p, n
  <1>3. \A i \in DOMAIN p : JobOK(p[i])
    <2>1. JobOK(job)
      BY <1>0, <1>1 DEF JobOK
    <2>2. \A i \in DOMAIN p : i \in DOMAIN q \/ i = Len(q) + 1
      BY <1>2
    <2> QED BY <1>2, <2>1, <2>2 DEF QueueOK
  <1>4. CreatesIn(p) = {Len(q) + 1}
    <2>1. CreatesIn(q) = {}
      BY DEF QueueOK, CreatedOnce
    <2> QED BY <1>1, <1>2, <2>1 DEF CreatesIn
  <1>5. CreatedOnce(n, None, p)
    BY <1>0, <1>2, <1>4 DEF CreatedOnce
  <1>6. ASSUME NEW f \in Fields
        PROVE  SettersIn(p, f) # {} /\ LastSets(p, f, n[f])
    <2>1. Len(q) + 1 \in SettersIn(p, f)
      BY <1>0, <1>1, <1>2 DEF SettersIn
    <2>2. \A j \in SettersIn(p, f) : j <= Len(q) + 1
      BY <1>2 DEF SettersIn
    <2> QED BY <1>1, <1>2, <2>1, <2>2 DEF LastSets
  <1>7. Catches(n, None, p)
    BY <1>0, <1>6 DEF Catches
  <1>8. QueueOK(n, None, p)
    BY <1>2, <1>3, <1>5, <1>7 DEF QueueOK
  <1> QED BY <1>8 DEF job, p, n

\* The writer takes the first job.
LEMMA WriteKeepsQueue ==
  ASSUME NEW m \in Opt(Row), NEW d \in Opt(Row), NEW q, NEW u \in Handle,
         QueueOK(m, d, q), q # <<>>
  PROVE  /\ QueueOK(m, Written(d, Head(q)), Tail(q))
         /\ Written(d, Head(q)) \in Opt(Row)
  <1> DEFINE job == q[1]
             p == Tail(q)
             w == Written(d, job)
  <1>1. /\ IsSeq(p) /\ Len(q) \in Nat \ {0}
        /\ DOMAIN q = 1..Len(q) /\ DOMAIN p = 1..(Len(q) - 1)
        /\ Head(q) = job
        /\ \A i \in 1..(Len(q) - 1) : p[i] = q[i + 1]
    BY TailIsSeq DEF QueueOK
  <1> HIDE DEF job, p, w
  <1>2. JobOK(job) /\ 1 \in DOMAIN q
    BY <1>1 DEF QueueOK, job
  <1>3. \A i \in DOMAIN p : JobOK(p[i])
    <2>1. \A i \in DOMAIN p : i + 1 \in DOMAIN q
      BY <1>1
    <2> QED BY <1>1, <2>1 DEF QueueOK
  <1>4. \A f \in Fields : \A i :
          i \in SettersIn(p, f) <=> i \in Nat \ {0} /\ i + 1 \in SettersIn(q, f)
    BY <1>1 DEF SettersIn
  <1>5. \A i : i \in CreatesIn(p) <=> i \in Nat \ {0} /\ i + 1 \in CreatesIn(q)
    BY <1>1 DEF CreatesIn
  <1>6. m = None => d = None
    BY DEF QueueOK, Catches
  <1>7. CASE job.op = "create"
    <2>1. 1 \in CreatesIn(q)
      BY <1>2, <1>7 DEF CreatesIn, job
    <2>2. m # None /\ d = None /\ CreatesIn(q) = {1}
      BY <2>1 DEF QueueOK, CreatedOnce
    <2>3. job.set \in Row /\ job.set # None /\ DOMAIN job.set = Fields
      BY <1>2, <1>7, RowHas, NoRowAssumption DEF JobOK
    <2>4. w = job.set
      BY <1>7, <2>2 DEF w, Written
    <2>5. CreatesIn(p) = {}
      BY <1>5, <2>2
    <2>6. CreatedOnce(m, w, p)
      BY <2>2, <2>3, <2>4, <2>5 DEF CreatedOnce
    <2>7. ASSUME NEW f \in Fields
          PROVE  IF SettersIn(p, f) = {} THEN w # None /\ w[f] = m[f] ELSE LastSets(p, f, m[f])
      <3>1. 1 \in SettersIn(q, f)
        BY <1>2, <2>3 DEF SettersIn, job
      <3>2. PICK i \in SettersIn(q, f) : (\A j \in SettersIn(q, f) : j <= i) /\ q[i].set[f] = m[f]
        BY <2>2, <3>1 DEF QueueOK, Catches, LastSets
      <3>3. CASE i = 1
        <4>1. SettersIn(p, f) = {}
          <5> SUFFICES ASSUME NEW j \in SettersIn(p, f) PROVE FALSE
            OBVIOUS
          <5>1. j \in Nat \ {0} /\ j + 1 <= 1
            BY <1>4, <3>2, <3>3
          <5> QED BY <5>1
        <4> QED BY <2>3, <2>4, <3>2, <3>3, <4>1 DEF job
      <3>4. CASE i # 1
        <4>1. i \in 2..Len(q) /\ p[i - 1] = q[i] /\ i - 1 \in Nat \ {0} /\ (i - 1) + 1 = i
          BY <1>1, <3>4 DEF SettersIn
        <4>2. i - 1 \in SettersIn(p, f)
          BY <1>4, <3>2, <4>1
        <4>3. \A j \in SettersIn(p, f) : j <= i - 1
          BY <1>4, <3>2, <4>1
        <4> QED BY <3>2, <4>1, <4>2, <4>3 DEF LastSets
      <3> QED BY <3>3, <3>4
    <2>8. Catches(m, w, p)
      BY <2>2, <2>7 DEF Catches
    <2>9. QueueOK(m, w, p) /\ w \in Opt(Row)
      BY <1>1, <1>3, <2>3, <2>4, <2>6, <2>8 DEF QueueOK, Opt
    <2> QED BY <1>1, <2>9 DEF w, p
  <1>8. CASE job.op = "update"
    <2>1. Fits(job.set)
      BY <1>2, <1>8 DEF JobOK
    <2>2. /\ d = None => w = None
          /\ d # None => w = Merge(d, job.set) /\ w \in Row
      <3>1. d # None => w = Merge(d, job.set)
        BY <1>8 DEF w, Written
      <3>2. d # None => d \in Row
        BY DEF Opt
      <3> QED BY <1>8, <2>1, <3>1, <3>2, MergeIsRow DEF w, Written
    <2>3. w \in Opt(Row) /\ (w = None <=> d = None)
      BY <2>2, NoRowAssumption DEF Opt
    <2>4. 1 \notin CreatesIn(q)
      BY <1>8 DEF CreatesIn, job
    <2>5. CreatedOnce(m, w, p)
      <3>1. CreatesIn(q) = {} => CreatesIn(p) = {}
        BY <1>5
      <3>2. ASSUME NEW i \in DOMAIN q, CreatesIn(q) = {i}
            PROVE  \E j \in DOMAIN p : CreatesIn(p) = {j}
        <4>1. i \in 2..Len(q) /\ i - 1 \in DOMAIN p /\ (i - 1) + 1 = i
          BY <1>1, <2>4, <3>2
        <4>2. \A j : j \in CreatesIn(p) <=> j = i - 1
          BY <1>5, <3>2, <4>1
        <4>3. CreatesIn(p) = {i - 1}
          BY <4>2
        <4> QED BY <4>1, <4>3
      <3> QED BY <2>3, <3>1, <3>2 DEF QueueOK, CreatedOnce
    <2>6. ASSUME m # None, NEW f \in Fields
          PROVE  IF SettersIn(p, f) = {} THEN w # None /\ w[f] = m[f] ELSE LastSets(p, f, m[f])
      <3>1. IF SettersIn(q, f) = {} THEN d # None /\ d[f] = m[f] ELSE LastSets(q, f, m[f])
        BY <2>6 DEF QueueOK, Catches
      <3>2. CASE SettersIn(q, f) = {}
        <4>1. SettersIn(p, f) = {}
          BY <1>4, <3>2
        <4>2. f \notin DOMAIN job.set
          BY <1>2, <3>2 DEF SettersIn, job
        <4> QED BY <2>2, <2>3, <3>1, <3>2, <4>1, <4>2 DEF Merge
      <3>3. CASE SettersIn(q, f) # {}
        <4>1. PICK i \in SettersIn(q, f) :
                 (\A j \in SettersIn(q, f) : j <= i) /\ q[i].set[f] = m[f]
          BY <3>1, <3>3 DEF LastSets
        <4>2. CASE i = 1
          <5>1. SettersIn(p, f) = {}
            <6> SUFFICES ASSUME NEW j \in SettersIn(p, f) PROVE FALSE
              OBVIOUS
            <6>1. j \in Nat \ {0} /\ j + 1 <= 1
              BY <1>4, <4>1, <4>2
            <6> QED BY <6>1
          <5>2. d # None
            <6> SUFFICES ASSUME d = None PROVE FALSE
              OBVIOUS
            <6>1. PICK k \in DOMAIN q : CreatesIn(q) = {k}
              BY <2>6 DEF QueueOK, CreatedOnce
            <6>2. q[k].op = "create" /\ JobOK(q[k])
              BY <6>1 DEF CreatesIn, QueueOK
            <6>3. k \in SettersIn(q, f)
              BY <6>2, RowHas DEF JobOK, SettersIn
            <6>4. k \in 1..Len(q) /\ k <= 1
              BY <1>1, <4>1, <4>2, <6>3
            <6> QED BY <1>1, <2>4, <6>1, <6>4
          <5>3. f \in DOMAIN job.set /\ job.set[f] = m[f]
            BY <4>1, <4>2 DEF SettersIn, job
          <5> QED BY <2>2, <2>3, <5>1, <5>2, <5>3 DEF Merge
        <4>3. CASE i # 1
          <5>1. i \in 2..Len(q) /\ p[i - 1] = q[i] /\ i - 1 \in Nat \ {0} /\ (i - 1) + 1 = i
            BY <1>1, <4>3 DEF SettersIn
          <5>2. i - 1 \in SettersIn(p, f)
            BY <1>4, <4>1, <5>1
          <5>3. \A j \in SettersIn(p, f) : j <= i - 1
            BY <1>4, <4>1, <5>1
          <5> QED BY <4>1, <5>1, <5>2, <5>3 DEF LastSets
        <4> QED BY <4>2, <4>3
      <3> QED BY <3>2, <3>3
    <2>7. Catches(m, w, p)
      BY <1>6, <2>3, <2>6 DEF Catches
    <2>8. QueueOK(m, w, p)
      BY <1>1, <1>3, <2>5, <2>7 DEF QueueOK
    <2> QED BY <1>1, <2>3, <2>8 DEF w, p
  <1> QED BY <1>2, <1>7, <1>8 DEF JobOK

-----------------------------------------------------------------------------
(* The invariant *)

\* What a row in memory says is true, where a is whether terms were accepted.
Truthful(r, a) ==
  /\ r.tos => a
  /\ r.setup => a /\ None \notin {r.name, r.country, r.region}

RowInv ==
  /\ handle \in Handle
  /\ mem \in Opt(Row) /\ db \in Opt(Row)
  /\ QueueOK(mem, db, queue)
  /\ mem # None => Truthful(mem, agreed)

\* The messages of the setup open once the terms are accepted, and the last of
\* them has its choices.
ShownOK(w, a) ==
  /\ w.kind \in {"modal", "select", "confirm"} => a
  /\ w.kind = "confirm" => None \notin {w.country, w.region}

ViewInv ==
  /\ view \in [View -> Shown]
  /\ \A v \in View : /\ mem = None => view[v] = Closed
                     /\ ShownOK(view[v], agreed)

Prompt == {Closed} \cup [kind : {"ban"}] \cup [kind : {"aborts"}, n : ResetTo]

TasksOK(q) == IsSeq(q) /\ \A i \in DOMAIN q : TaskOK(q[i])

LogOK(l) == DOMAIN l.last \cup DOMAIN l.newest \cup l.refused \subseteq Fields

RestInv ==
  /\ LogOK(log)
  /\ TasksOK(tasks)
  /\ mem = None => tasks = <<>>
  /\ prompt \in [Admin -> Prompt]
  /\ agreed \in BOOLEAN
  /\ commands \in 0..MaxCommands

Inv == RowInv /\ ViewInv /\ RestInv

LEMMA InvImplies ==
  ASSUME Inv
  PROVE  TypeOK /\ DbCatchesUp /\ SetupIsWhole
  <1>1. TypeOK
    BY DEF Inv, RowInv, ViewInv, RestInv, QueueOK, TypeOK, Prompt, TasksOK, LogOK
  <1>2. \A f \in Fields : SettersIn(queue, f) = Setters(f)
    BY DEF SettersIn, Setters
  <1>3. DbCatchesUp
    BY <1>2 DEF Inv, RowInv, QueueOK, Catches, LastSets, DbCatchesUp
  <1>4. SetupIsWhole
    BY DEF Inv, RowInv, Truthful, SetupIsWhole
  <1> QED BY <1>1, <1>3, <1>4

LEMMA HasRow ==
  ASSUME Inv, mem # None
  PROVE  mem \in Row
  BY DEF Inv, RowInv, Opt

\* The tasks that wait.
LEMMA TaskWaits ==
  ASSUME NEW q, TasksOK(q), NEW t, TaskOK(t)
  PROVE  TasksOK(Append(q, t))
  <1>1. PICK p : p = Append(q, t)
    OBVIOUS
  <1>2. /\ IsSeq(p) /\ Len(q) \in Nat
        /\ DOMAIN q = 1..Len(q) /\ DOMAIN p = 1..(Len(q) + 1)
        /\ \A i \in 1..Len(q) : p[i] = q[i]
        /\ p[Len(q) + 1] = t
    BY <1>1, AppendIsSeq DEF TasksOK
  <1>3. ASSUME NEW i \in DOMAIN p PROVE TaskOK(p[i])
    <2>1. CASE i = Len(q) + 1
      BY <1>2, <2>1
    <2>2. CASE i \in DOMAIN q
      BY <1>2, <2>2 DEF TasksOK
    <2> QED BY <1>2, <2>1, <2>2
  <1> QED BY <1>1, <1>2, <1>3 DEF TasksOK

LEMMA RepeatWaits ==
  ASSUME NEW q, TasksOK(q), NEW again
  PROVE  TasksOK(q \o RepeatTask(again)) /\ TasksOK(q \o <<>>)
  <1>1. PICK T : q \in Seq(T)
    BY DEF TasksOK, IsSeq
  <1>2. q \o <<>> = q /\ \A x : q \o <<x>> = Append(q, x)
    BY <1>1
  <1>3. TaskOK(Task(NoEntries, again))
    BY DEF TaskOK, Task
  <1> QED BY <1>2, <1>3, TaskWaits DEF RepeatTask

LEMMA TaskLeaves ==
  ASSUME NEW q, TasksOK(q), q # <<>>
  PROVE  TasksOK(Tail(q)) /\ TaskOK(Head(q))
  <1>1. PICK p : p = Tail(q)
    OBVIOUS
  <1>2. /\ IsSeq(p) /\ Len(q) \in Nat \ {0}
        /\ DOMAIN q = 1..Len(q) /\ Head(q) = q[1]
        /\ DOMAIN p = 1..(Len(q) - 1)
        /\ \A i \in 1..(Len(q) - 1) : p[i] = q[i + 1]
    BY <1>1, TailIsSeq DEF TasksOK
  <1>3. ASSUME NEW i \in DOMAIN p PROVE TaskOK(p[i])
    <2>1. i + 1 \in DOMAIN q /\ p[i] = q[i + 1]
      BY <1>2
    <2> QED BY <2>1 DEF TasksOK
  <1>4. TaskOK(Head(q))
    BY <1>2 DEF TasksOK
  <1> QED BY <1>1, <1>2, <1>3, <1>4 DEF TasksOK

-----------------------------------------------------------------------------
(* Changes of the row *)

LEMMA NothingElseChanges ==
  ASSUME Inv, UNCHANGED <<mem, db, queue>>, handle' \in Handle,
         agreed' \in BOOLEAN, agreed => agreed'
  PROVE  RowInv'
  BY DEF Inv, RowInv, Truthful

LEMMA SetsOneField ==
  ASSUME Inv, mem # None, NEW f \in Single, NEW v \in FieldType[f], NEW e,
         mem' = Merge(mem, Only(f, v)),
         queue' = Append(queue, Change(Only(f, v), e)),
         UNCHANGED <<handle, db>>, agreed' \in BOOLEAN, agreed => agreed',
         f = "tos" /\ v => agreed',
         f = "setup" => v = mem["setup"],
         f \in {"country", "region"} => v # None
  PROVE  RowInv' /\ mem' \in Row
  <1>1. mem \in Row /\ handle \in Handle /\ QueueOK(mem, db, queue)
    BY HasRow DEF Inv, RowInv
  <1>2. Fits(Only(f, v))
    BY OneFieldFits
  <1>3. mem' \in Row /\ mem' # None
    BY <1>1, <1>2, MergeIsRow, NoRowAssumption
  <1>4. QueueOK(mem', db', queue')
    BY <1>1, <1>2, ChangeKeepsQueue
  <1>5. \A g \in Fields : mem'[g] = IF g = f THEN v ELSE mem[g]
    <2>1. DOMAIN Only(f, v) = {f} /\ Only(f, v)[f] = v
      BY OneFieldFits
    <2> QED BY <2>1 DEF Merge
  <1>6. f # "name" /\ Truthful(mem, agreed)
    BY DEF Single, Inv, RowInv
  <1>7. Truthful(mem', agreed')
    <2>1. mem'.tos => agreed'
      BY <1>5, <1>6, FieldNames DEF Truthful
    <2>2. mem'.setup = mem.setup
      BY <1>5, FieldNames
    <2>3. mem'.name = mem.name
      BY <1>5, <1>6, FieldNames
    <2>4. mem.country # None => mem'.country # None
      BY <1>5, FieldNames
    <2>5. mem.region # None => mem'.region # None
      BY <1>5, FieldNames
    <2> QED BY <1>6, <2>1, <2>2, <2>3, <2>4, <2>5 DEF Truthful
  <1> QED BY <1>1, <1>3, <1>4, <1>7 DEF Inv, RowInv, Opt

\* The same, where the action writes the change as an EXCEPT.
LEMMA ExceptOneField ==
  ASSUME Inv, mem # None, NEW f \in Single, NEW v \in FieldType[f], NEW e,
         mem' = [mem EXCEPT ![f] = v],
         queue' = Append(queue, Change(Only(f, v), e)),
         UNCHANGED <<handle, db, agreed>>,
         f \notin {"tos", "setup", "region"},
         f = "country" => v # None
  PROVE  RowInv' /\ mem' \in Row
  <1>1. mem' = Merge(mem, Only(f, v))
    BY HasRow, OneFieldIsMerge
  <1>2. agreed' \in BOOLEAN /\ (agreed => agreed')
    BY DEF Inv, RestInv
  <1> QED BY <1>1, <1>2, SetsOneField

LEMMA EnsureMakesRow ==
  ASSUME Inv, Ensure, UNCHANGED <<handle, db, agreed>>
  PROVE  /\ RowInv' /\ mem' \in Row
         /\ mem' = Ensured
         /\ commands' \in 0..MaxCommands
         /\ TasksOK(tasks')
  <1>0. TasksOK(tasks')
    BY RepeatWaits DEF Inv, RestInv, Ensure
  <1>1. commands' \in 0..MaxCommands
    BY BoundsAssumption DEF Inv, RestInv, Ensure, Counted
  <1>2. mem' = Ensured
    BY DEF Ensure
  <1>3. /\ handle \in Handle /\ QueueOK(mem, db, queue) /\ db \in Opt(Row)
        /\ "username" \in Single /\ handle \in FieldType["username"]
        /\ IsSeq(queue)
    BY FieldNames DEF Inv, RowInv, Single, FieldType, QueueOK
  <1>4. \A x : queue \o <<x>> = Append(queue, x)
    BY <1>3 DEF IsSeq
  <1>5. queue \o <<>> = queue
    BY <1>3 DEF IsSeq
  <1>6. CASE mem = None
    <2>1. db = None
      BY <1>3, <1>6 DEF QueueOK, Catches
    <2>2. mem' = NewRow(handle) /\ queue' = Append(queue, Create(handle))
      BY <1>2, <1>4, <1>6 DEF Ensure, Ensured
    <2>3. QueueOK(mem', db', queue')
      BY <1>3, <1>6, <2>1, <2>2, CreateKeepsQueue
    <2>4. mem' \in Row
      BY <1>3, <2>2, NewRowIsRow
    <2>5. Truthful(mem', agreed')
      BY <2>2 DEF Truthful, NewRow
    <2> QED BY <1>0, <1>1, <1>2, <1>3, <2>3, <2>4, <2>5 DEF RowInv, Opt
  <1>7. CASE mem # None
    <2>1. mem' = [mem EXCEPT !["username"] = handle] /\ mem \in Row
      BY <1>2, <1>7, HasRow DEF Ensured
    <2>2. CASE Renamed
      <3>1. queue' = Append(queue, InfoJob(mem, NewName))
        BY <1>4, <1>7, <2>2 DEF Ensure
      <3>2. PICK e : InfoJob(mem, NewName) = Change(Only("username", handle), e)
        BY DEF InfoJob, NewName
      <3>3. RowInv' /\ mem' \in Row
        BY <1>3, <1>7, <2>1, <3>1, <3>2, ExceptOneField
      <3> QED BY <1>0, <1>1, <1>2, <3>3
    <2>3. CASE ~Renamed
      <3>1. queue' = queue
        BY <1>5, <1>7, <2>3 DEF Ensure
      <3>2. mem["username"] = handle
        BY <1>7, <2>3 DEF Renamed
      <3>3. mem = [f \in Fields |-> mem[f]] /\ DOMAIN mem = Fields
        BY <2>1, RowHas
      <3>4. [mem EXCEPT !["username"] = handle] = [f \in Fields |-> mem[f]]
        BY <3>2, <3>3
      <3>5. mem' = mem
        BY <2>1, <3>3, <3>4
      <3> QED BY <1>0, <1>1, <1>2, <1>3, <2>1, <3>1, <3>5, NothingElseChanges
              DEF Inv, RestInv
    <2> QED BY <2>2, <2>3
  <1> QED BY <1>6, <1>7

-----------------------------------------------------------------------------
(* Changes of what is shown *)

LEMMA ShownKinds ==
  ASSUME NEW w \in Shown
  PROVE  /\ w.kind = "closed" <=> w = Closed
         /\ w.kind = "modal" => w.country \in Opt(Country) /\ w.region \in Opt(Region)
         /\ w.kind \in {"select", "confirm"} => w \in Filled
         /\ w.kind = "country" => w.country \in Country
  BY DEF Shown, Closed, Filled

LEMMA FilledHas ==
  ASSUME NEW w \in Filled
  PROVE  /\ w.name \in Id /\ w.alts \in Aliases /\ w.name \notin ToSet(w.alts)
         /\ w.country \in Opt(Common) /\ w.region \in Opt(Region)
  BY DEF Filled

LEMMA ViewsStay ==
  ASSUME Inv, UNCHANGED view, agreed' \in BOOLEAN, agreed => agreed',
         mem' = None => mem = None
  PROVE  ViewInv'
  BY DEF Inv, ViewInv, ShownOK

LEMMA ViewChanges ==
  ASSUME Inv, NEW v \in View, NEW w \in Shown, view' = [view EXCEPT ![v] = w],
         agreed' \in BOOLEAN, agreed => agreed',
         mem' = None => mem = None /\ w = Closed,
         ShownOK(w, agreed')
  PROVE  ViewInv'
  <1>1. view' \in [View -> Shown]
    BY DEF Inv, ViewInv
  <1>2. ASSUME NEW x \in View
        PROVE  (mem' = None => view'[x] = Closed) /\ ShownOK(view'[x], agreed')
    <2>1. CASE x = v
      BY <2>1 DEF Inv, ViewInv
    <2>2. CASE x # v
      BY <2>2 DEF Inv, ViewInv, ShownOK
    <2> QED BY <2>1, <2>2
  <1> QED BY <1>1, <1>2 DEF ViewInv

LEMMA ClosedIsShown == /\ Closed \in Shown /\ Closed.kind = "closed"
                       /\ \A a : ShownOK(Closed, a)
  BY DEF Closed, Shown, ShownOK

\* A valid form names nobody twice.
LEMMA FormIsFilled ==
  ASSUME NEW id \in Id \cup {BadId},
         NEW b1 \in Id \cup {BadId, None}, NEW b2 \in Id \cup {BadId, None},
         FormIsValid(id, Alts(b1, b2))
  PROVE  /\ id \in Id /\ Alts(b1, b2) \in Aliases
         /\ id \notin ToSet(Alts(b1, b2))
  <1> DEFINE s == Alts(b1, b2)
             full == <<id>> \o s
  <1>1. /\ s \in Seq(Id \cup {BadId}) /\ Len(s) <= 2
    <2>1. CASE b1 = None /\ b2 = None
      BY <2>1 DEF Alts, OneAlt
    <2>2. CASE b1 = None /\ b2 # None
      BY <2>2 DEF Alts, OneAlt
    <2>3. CASE b1 # None /\ b2 = None
      BY <2>3 DEF Alts, OneAlt
    <2>4. CASE b1 # None /\ b2 # None
      BY <2>4 DEF Alts, OneAlt
    <2> QED BY <2>1, <2>2, <2>3, <2>4
  <1> HIDE DEF s
  <1>2. id \in Id
    BY DEF FormIsValid
  <1>3. /\ \A i \in 1..Len(s) : s[i] # BadId
        /\ IsInjective(full)
    BY DEF FormIsValid, Contains, s
  <1>4. s \in Seq(Id)
    BY <1>1, <1>3
  <1>5. /\ DOMAIN full = 1..(Len(s) + 1) /\ DOMAIN s = 1..Len(s) /\ Len(s) \in Nat
        /\ full[1] = id /\ \A i \in 1..Len(s) : full[i + 1] = s[i]
    BY <1>1
  <1>6. \A i, j \in 1..(Len(s) + 1) : full[i] = full[j] => i = j
    BY <1>3, <1>5 DEF IsInjective
  <1> HIDE DEF full
  <1>7. IsInjective(s)
    <2>1. ASSUME NEW i \in 1..Len(s), NEW j \in 1..Len(s), s[i] = s[j] PROVE i = j
      <3>1. i + 1 \in 1..(Len(s) + 1) /\ j + 1 \in 1..(Len(s) + 1)
        BY <1>5
      <3>2. i + 1 = j + 1
        BY <1>5, <1>6, <2>1, <3>1
      <3> QED BY <1>5, <3>2
    <2> QED BY <1>5, <2>1 DEF IsInjective
  <1>8. id \notin ToSet(s)
    <2>1. ASSUME NEW i \in 1..Len(s), s[i] = id PROVE FALSE
      <3>1. i + 1 \in 1..(Len(s) + 1) /\ 1 \in 1..(Len(s) + 1)
        BY <1>5
      <3>2. i + 1 = 1
        BY <1>5, <1>6, <2>1, <3>1
      <3> QED BY <1>5, <3>2
    <2> QED BY <1>5, <2>1 DEF ToSet
  <1> QED BY <1>1, <1>2, <1>4, <1>7, <1>8 DEF s, Aliases

-----------------------------------------------------------------------------
(* One lemma for each action *)

LEMMA CommandKeeps ==
  ASSUME Inv, NEW v \in View, NEW admitted, NEW w \in Shown,
         Command(v, admitted, w), admitted \in BOOLEAN,
         admitted => ShownOK(w, agreed)
  PROVE  Inv'
  <1>1. Ensure /\ UNCHANGED <<handle, db, log, prompt, agreed>>
    BY DEF Command
  <1>2. RowInv' /\ mem' \in Row /\ commands' \in 0..MaxCommands /\ TasksOK(tasks')
    BY <1>1, EnsureMakesRow
  <1>3. mem' # None /\ agreed' \in BOOLEAN /\ (agreed => agreed')
    BY <1>1, <1>2, NoRowAssumption DEF Inv, RestInv
  <1>4. ViewInv'
    <2>1. CASE admitted
      BY <1>1, <1>3, <2>1, ViewChanges DEF Command
    <2>2. CASE ~admitted
      BY <1>3, <2>2, ViewsStay DEF Command
    <2> QED BY <2>1, <2>2
  <1>5. RestInv'
    BY <1>1, <1>2, <1>3 DEF Inv, RestInv
  <1> QED BY <1>2, <1>4, <1>5 DEF Inv

LEMMA TermsBehindAgreement ==
  ASSUME Inv, TermsAccepted
  PROVE  agreed
  <1>1. CASE mem = None
    BY <1>1 DEF TermsAccepted, Ensured, NewRow
  <1>2. CASE mem # None
    <2>1. Ensured.tos = mem.tos
      <3>1. DOMAIN mem = Fields /\ Ensured = [mem EXCEPT !["username"] = handle]
        BY <1>2, HasRow, RowHas DEF Ensured
      <3> QED BY <3>1, FieldNames
    <2> QED BY <1>2, <2>1 DEF TermsAccepted, Inv, RowInv, Truthful
  <1> QED BY <1>1, <1>2

LEMMA EnsuredIsRow ==
  ASSUME Inv
  PROVE  Ensured \in Row
  <1>1. handle \in Handle
    BY DEF Inv, RowInv
  <1>2. CASE mem = None
    BY <1>1, <1>2, NewRowIsRow DEF Ensured
  <1>3. CASE mem # None
    <2>1. "username" \in Single /\ handle \in FieldType["username"]
      BY <1>1, FieldNames DEF Single, FieldType
    <2>2. Ensured = Merge(mem, Only("username", handle))
      BY <1>3, <2>1, HasRow, OneFieldIsMerge DEF Ensured
    <2> QED BY <1>1, <1>3, <2>1, <2>2, HasRow, OneFieldFits, MergeIsRow
  <1> QED BY <1>2, <1>3

LEMMA CommandsKeep ==
  ASSUME Inv, NEW v \in View,
         \/ SetupCommand(v) \/ TermsCommand(v)
         \/ \E c \in Country : SetCountryCommand(v, c)
  PROVE  Inv'
  <1>1. CASE SetupCommand(v)
    <2> DEFINE w == [kind |-> "modal", country |-> Ensured.country, region |-> Ensured.region]
    <2>1. w \in Shown
      <3>1. Ensured.country \in Opt(Country) /\ Ensured.region \in Opt(Region)
        BY EnsuredIsRow DEF Row
      <3> QED BY <3>1 DEF Shown
    <2>2. TermsAccepted => ShownOK(w, agreed)
      BY TermsBehindAgreement DEF ShownOK
    <2>3. TermsAccepted \in BOOLEAN
      BY DEF TermsAccepted, Admitted
    <2> QED BY <1>1, <2>1, <2>2, <2>3, CommandKeeps DEF SetupCommand
  <1>2. CASE TermsCommand(v)
    <2>1. [kind |-> "terms"] \in Shown /\ ShownOK([kind |-> "terms"], agreed)
      BY DEF Shown, ShownOK
    <2>2. Admitted \in BOOLEAN
      BY DEF Admitted
    <2> QED BY <1>2, <2>1, <2>2, CommandKeeps DEF TermsCommand
  <1>3. ASSUME NEW c \in Country, SetCountryCommand(v, c) PROVE Inv'
    <2>1. /\ [kind |-> "country", country |-> c] \in Shown
          /\ ShownOK([kind |-> "country", country |-> c], agreed)
      BY DEF Shown, ShownOK
    <2>2. TermsAccepted \in BOOLEAN
      BY DEF TermsAccepted, Admitted
    <2> QED BY <1>3, <2>1, <2>2, CommandKeeps DEF SetCountryCommand
  <1> QED BY <1>1, <1>2, <1>3

LEMMA ReadingKeeps ==
  ASSUME Inv, ReadingCommand
  PROVE  Inv'
  <1>1. Ensure /\ UNCHANGED <<handle, db, log, view, prompt, agreed>>
    BY DEF ReadingCommand
  <1>2. RowInv' /\ mem' \in Row /\ commands' \in 0..MaxCommands /\ TasksOK(tasks')
    BY <1>1, EnsureMakesRow
  <1>3. mem' # None /\ agreed' \in BOOLEAN /\ (agreed => agreed')
    BY <1>1, <1>2, NoRowAssumption DEF Inv, RestInv
  <1>4. ViewInv'
    BY <1>1, <1>3, ViewsStay
  <1>5. RestInv'
    BY <1>1, <1>2, <1>3 DEF Inv, RestInv
  <1> QED BY <1>2, <1>4, <1>5 DEF Inv

LEMMA ShowKeeps ==
  ASSUME Inv, NEW v \in View, NEW w \in Shown, Show(v, w), ShownOK(w, agreed),
         view[v] # Closed
  PROVE  Inv'
  <1>1. /\ view' = [view EXCEPT ![v] = w]
        /\ UNCHANGED <<handle, mem, db, queue, log, tasks, prompt, agreed, commands>>
    BY DEF Show
  <1>2. agreed \in BOOLEAN /\ handle \in Handle /\ mem # None
    BY DEF Inv, RestInv, RowInv, ViewInv
  <1>3. RowInv'
    BY <1>1, <1>2, NothingElseChanges
  <1>4. ViewInv'
    BY <1>1, <1>2, ViewChanges
  <1>5. RestInv'
    BY <1>1 DEF Inv, RestInv
  <1> QED BY <1>3, <1>4, <1>5 DEF Inv

LEMMA SetupMessagesKeep ==
  ASSUME Inv, NEW v \in View,
         \/ \E id \in Id \cup {BadId}, b1, b2 \in Id \cup {BadId, None} : Submit(v, id, b1, b2)
         \/ \E c \in Common : SelectCountry(v, c)
         \/ \E r \in Region : SelectRegion(v, r)
         \/ Preview(v) \/ Restart(v)
  PROVE  Inv'
  <1> DEFINE s == view[v]
  <1>1. s \in Shown /\ ShownOK(s, agreed) /\ (s.kind # "closed" <=> s # Closed)
    BY ShownKinds DEF Inv, ViewInv
  <1>2. ASSUME NEW id \in Id \cup {BadId}, NEW b1 \in Id \cup {BadId, None},
               NEW b2 \in Id \cup {BadId, None}, Submit(v, id, b1, b2)
        PROVE  Inv'
    <2> DEFINE w == [kind |-> "select", name |-> id, alts |-> Alts(b1, b2),
                     country |-> Preselected(s.country), region |-> s.region]
    <2>1. s.kind = "modal" /\ Show(v, w)
      BY <1>2 DEF Submit
    <2>2. id \in Id /\ Alts(b1, b2) \in Aliases /\ id \notin ToSet(Alts(b1, b2))
      BY <1>2, FormIsFilled DEF Submit
    <2>3. Preselected(s.country) \in Opt(Common) /\ s.region \in Opt(Region)
      BY <1>1, <2>1, ShownKinds DEF Preselected, Opt
    <2>4. w \in Filled
      BY <2>2, <2>3 DEF Filled
    <2>5. w \in Shown /\ ShownOK(w, agreed)
      BY <1>1, <2>1, <2>4 DEF Shown, ShownOK
    <2> QED BY <1>1, <2>1, <2>5, ShowKeeps
  <1>3. ASSUME s.kind = "select" PROVE s \in Filled /\ agreed
    BY <1>1, <1>3, ShownKinds DEF ShownOK
  <1>4. ASSUME NEW c \in Common, SelectCountry(v, c) PROVE Inv'
    <2> DEFINE w == [s EXCEPT !.country = c]
    <2>1. s.kind = "select" /\ Show(v, w)
      BY <1>4 DEF SelectCountry
    <2>2. w \in Filled /\ w.kind = "select"
      BY <1>3, <2>1 DEF Filled, Opt
    <2>3. w \in Shown /\ ShownOK(w, agreed)
      BY <1>3, <2>1, <2>2 DEF Shown, ShownOK
    <2> QED BY <1>1, <2>1, <2>3, ShowKeeps
  <1>5. ASSUME NEW r \in Region, SelectRegion(v, r) PROVE Inv'
    <2> DEFINE w == [s EXCEPT !.region = r]
    <2>1. s.kind = "select" /\ Show(v, w)
      BY <1>5 DEF SelectRegion
    <2>2. w \in Filled /\ w.kind = "select"
      BY <1>3, <2>1 DEF Filled, Opt
    <2>3. w \in Shown /\ ShownOK(w, agreed)
      BY <1>3, <2>1, <2>2 DEF Shown, ShownOK
    <2> QED BY <1>1, <2>1, <2>3, ShowKeeps
  <1>6. CASE Preview(v)
    <2> DEFINE w == [s EXCEPT !.kind = "confirm"]
    <2>1. s.kind = "select" /\ s.country # None /\ s.region # None /\ Show(v, w)
      BY <1>6 DEF Preview
    <2>2. w \in Filled /\ w.kind = "confirm" /\ w.country = s.country /\ w.region = s.region
      BY <1>3, <2>1 DEF Filled
    <2>3. w \in Shown /\ ShownOK(w, agreed)
      BY <1>3, <2>1, <2>2 DEF Shown, ShownOK
    <2> QED BY <1>1, <2>1, <2>3, ShowKeeps
  <1>7. CASE Restart(v)
    <2> DEFINE w == [kind |-> "modal", country |-> s.country, region |-> s.region]
    <2>1. s.kind \in {"select", "confirm"} /\ Show(v, w)
      BY <1>7 DEF Restart
    <2>2. s.country \in Opt(Country) /\ s.region \in Opt(Region)
      BY <1>1, <2>1, ShownKinds, FilledHas, NamesAssumption DEF Opt
    <2>3. w \in Shown /\ ShownOK(w, agreed)
      BY <1>1, <2>1, <2>2 DEF Shown, ShownOK
    <2> QED BY <1>1, <2>1, <2>3, ShowKeeps
  <1> QED BY <1>2, <1>4, <1>5, <1>6, <1>7

\* The form, as a set of changes.
LEMMA FormFits ==
  ASSUME NEW w \in Filled
  PROVE  /\ Fits(Form(w))
         /\ DOMAIN Form(w) = {"name", "alts", "country", "region"}
         /\ Form(w)["name"] = w.name /\ Form(w)["alts"] = w.alts
         /\ Form(w)["country"] = w.country /\ Form(w)["region"] = w.region
  <1> DEFINE set == Form(w)
  <1>1. /\ DOMAIN set = {"name", "alts", "country", "region"}
        /\ set["name"] = w.name /\ set["alts"] = w.alts
        /\ set["country"] = w.country /\ set["region"] = w.region
    BY DEF Form
  <1>2. /\ w.name \in Id /\ w.alts \in Aliases /\ w.name \notin ToSet(w.alts)
        /\ w.country \in Opt(Country) /\ w.region \in Opt(Region)
    BY FilledHas, NamesAssumption DEF Opt
  <1> HIDE DEF set
  <1>3. ASSUME NEW u \in Handle PROVE Merge(NewRow(u), set) \in Row
    <2> DEFINE r == Merge(NewRow(u), set)
    <2>1. r = [f \in Fields |-> r[f]]
      BY DEF Merge
    <2>2. ASSUME NEW f \in Fields PROVE r[f] \in FieldType[f]
      <3>1. CASE f \in DOMAIN set
        <4>1. r[f] = set[f]
          BY <3>1 DEF Merge
        <4>2. set[f] \in FieldType[f]
          BY <1>1, <1>2, <3>1 DEF FieldType, Opt
        <4> QED BY <4>1, <4>2
      <3>2. CASE f \notin DOMAIN set
        <4>1. r[f] = NewRow(u)[f]
          BY <3>2 DEF Merge
        <4> QED BY <4>1, NewRowIsRow, RowHas
      <3> QED BY <3>1, <3>2
    <2>3. r["name"] = w.name /\ r["alts"] = w.alts
      BY <1>1, FieldNames DEF Merge
    <2> QED BY <1>2, <2>1, <2>2, <2>3, RowIs
  <1>4. Fits(set)
    BY <1>1, <1>3, FieldNames DEF Fits
  <1> QED BY <1>1, <1>4 DEF set

LEMMA CompleteKeeps ==
  ASSUME Inv, NEW v \in View, CompleteSetup(v)
  PROVE  Inv'
  <1> DEFINE w == view[v]
             form == Form(w)
             done == Only("setup", TRUE)
             filled == Merge(mem, form)
  <1>1. /\ w.kind = "confirm"
        /\ mem' = Merge(filled, done)
        /\ queue' = queue \o <<InfoJob(mem, form), InfoJob(filled, done)>>
        /\ view' = [view EXCEPT ![v] = Closed]
        /\ tasks' = tasks \o RepeatTask(Repeats(mem, Merge(filled, done)))
        /\ UNCHANGED <<handle, db, log, prompt, agreed, commands>>
    BY DEF CompleteSetup
  <1>2. w \in Shown /\ ShownOK(w, agreed) /\ w # Closed /\ mem # None
    BY <1>1, ShownKinds DEF Inv, ViewInv
  <1>3. w \in Filled /\ agreed /\ None \notin {w.country, w.region}
    BY <1>1, <1>2, ShownKinds DEF ShownOK
  <1>4. mem \in Row /\ handle \in Handle /\ QueueOK(mem, db, queue) /\ IsSeq(queue)
    BY <1>2, HasRow DEF Inv, RowInv, QueueOK
  <1>5. /\ Fits(form) /\ DOMAIN form = {"name", "alts", "country", "region"}
        /\ form["name"] = w.name /\ form["country"] = w.country
        /\ form["region"] = w.region
    BY <1>3, FormFits
  <1>6. /\ Fits(done) /\ DOMAIN done = {"setup"} /\ done["setup"] = TRUE
    <2>1. "setup" \in Single /\ TRUE \in FieldType["setup"]
      BY FieldNames DEF Single, FieldType
    <2> QED BY <2>1, OneFieldFits
  <1>7. PICK e1 : InfoJob(mem, form) = Change(form, e1)
    BY DEF InfoJob
  <1>8. PICK e2 : InfoJob(filled, done) = Change(done, e2)
    BY DEF InfoJob
  <1> HIDE DEF form, done
  <1>9. filled \in Row /\ QueueOK(filled, db, Append(queue, Change(form, e1)))
    BY <1>4, <1>5, MergeIsRow, ChangeKeepsQueue
  <1>10. queue' = Append(Append(queue, Change(form, e1)), Change(done, e2))
    <2>1. \A x, y : queue \o <<x, y>> = Append(Append(queue, x), y)
      <3>1. PICK T : queue \in Seq(T)
        BY <1>4 DEF IsSeq
      <3> QED BY <3>1
    <2> QED BY <1>1, <1>7, <1>8, <2>1
  <1>11. mem' \in Row /\ QueueOK(mem', db, queue')
    <2> HIDE DEF filled
    <2> QED BY <1>1, <1>4, <1>6, <1>9, <1>10, MergeIsRow, ChangeKeepsQueue
  <1>12. mem'.name = w.name /\ mem'.country = w.country /\ mem'.region = w.region
    BY <1>1, <1>5, <1>6, FieldNames DEF Merge
  <1>13. None \notin {w.name, w.country, w.region}
    BY <1>3, FilledHas, NamesAssumption
  <1>14. RowInv'
    <2>1. Truthful(mem', agreed')
      BY <1>1, <1>3, <1>12, <1>13 DEF Truthful
    <2> QED BY <1>1, <1>4, <1>11, <2>1 DEF Inv, RowInv, Opt
  <1>15. mem' # None /\ agreed' \in BOOLEAN /\ (agreed => agreed')
    BY <1>1, <1>11, NoRowAssumption DEF Inv, RestInv
  <1>16. ViewInv'
    BY <1>1, <1>15, ViewChanges, ClosedIsShown
  <1>17. RestInv'
    <2>1. TasksOK(tasks')
      BY <1>1, RepeatWaits DEF Inv, RestInv
    <2> QED BY <1>1, <1>15, <2>1 DEF Inv, RestInv
  <1> QED BY <1>14, <1>16, <1>17 DEF Inv

\* An action that changes one field of a row that is there.
LEMMA OneFieldKeeps ==
  ASSUME Inv, RowInv', mem' \in Row, ViewInv',
         UNCHANGED <<log, agreed>>, TasksOK(tasks'),
         prompt' \in [Admin -> Prompt], commands' \in 0..MaxCommands
  PROVE  Inv'
  <1>1. mem' # None
    BY NoRowAssumption
  <1> QED BY <1>1 DEF Inv, RestInv

LEMMA AnswerKeeps ==
  ASSUME Inv, NEW v \in View, NEW b \in BOOLEAN, AnswerTerms(v, b)
  PROVE  Inv'
  <1>1. /\ view[v].kind = "terms"
        /\ mem' = Merge(mem, Only("tos", b))
        /\ queue' = Append(queue, InfoJob(mem, Only("tos", b)))
        /\ agreed' = (agreed \/ b)
        /\ view' = [view EXCEPT ![v] = Closed]
        /\ tasks' = Append(tasks, Task(NoEntries, Only("tos", b)))
        /\ UNCHANGED <<handle, db, log, prompt, commands>>
    BY DEF AnswerTerms
  <1>2. mem # None
    BY <1>1, ClosedIsShown DEF Inv, ViewInv
  <1>3. "tos" \in Single /\ b \in FieldType["tos"]
    BY FieldNames DEF Single, FieldType
  <1>4. PICK e : InfoJob(mem, Only("tos", b)) = Change(Only("tos", b), e)
    BY DEF InfoJob
  <1>5. agreed' \in BOOLEAN /\ (agreed => agreed') /\ (b => agreed')
    BY <1>1 DEF Inv, RestInv
  <1>6. RowInv' /\ mem' \in Row
    <2>1. queue' = Append(queue, Change(Only("tos", b), e))
      BY <1>1, <1>4
    <2> QED BY <1>1, <1>2, <1>3, <1>5, <2>1, SetsOneField
  <1>7. mem' # None
    BY <1>6, NoRowAssumption
  <1>8. ViewInv'
    BY <1>1, <1>5, <1>7, ViewChanges, ClosedIsShown
  <1>9. RestInv'
    <2>1. TasksOK(tasks')
      <3>1. TaskOK(Task(NoEntries, Only("tos", b))) /\ TasksOK(tasks)
        BY DEF TaskOK, Task, Inv, RestInv
      <3> QED BY <1>1, <3>1, TaskWaits
    <2> QED BY <1>1, <1>5, <1>7, <2>1 DEF Inv, RestInv
  <1> QED BY <1>6, <1>8, <1>9 DEF Inv

LEMMA CloseKeeps ==
  ASSUME Inv, NEW v \in View, Close(v)
  PROVE  Inv'
  <1>1. Show(v, Closed) /\ view[v] # Closed
    BY DEF Close, Show
  <1> QED BY <1>1, ShowKeeps, ClosedIsShown

LEMMA ConfirmCountryKeeps ==
  ASSUME Inv, NEW v \in View, ConfirmCountry(v)
  PROVE  Inv'
  <1>1. /\ view[v].kind = "country"
        /\ \E again : tasks' = Append(tasks, Task(Only("country", view[v].country), again))
        /\ view' = [view EXCEPT ![v] = Closed]
        /\ UNCHANGED <<handle, mem, db, queue, log, prompt, agreed, commands>>
    BY DEF ConfirmCountry
  <1>2. mem # None /\ view[v].country \in Country
    BY <1>1, ShownKinds, ClosedIsShown DEF Inv, ViewInv
  <1>3. TasksOK(tasks')
    <2>1. PICK again : tasks' = Append(tasks, Task(Only("country", view[v].country), again))
      BY <1>1
    <2>2. Only("country", view[v].country) \in [{"country"} -> Country]
      BY <1>2 DEF Only
    <2>3. TaskOK(Task(Only("country", view[v].country), again)) /\ TasksOK(tasks)
      BY <2>2 DEF TaskOK, Task, Inv, RestInv
    <2> QED BY <2>1, <2>3, TaskWaits
  <1>4. agreed \in BOOLEAN /\ handle \in Handle
    BY DEF Inv, RestInv, RowInv
  <1>5. RowInv'
    BY <1>1, <1>4, NothingElseChanges
  <1>6. ViewInv'
    BY <1>1, <1>2, <1>4, ViewChanges, ClosedIsShown
  <1>7. RestInv'
    BY <1>1, <1>2, <1>3 DEF Inv, RestInv
  <1> QED BY <1>5, <1>6, <1>7 DEF Inv

LEMMA NoticesKeep ==
  ASSUME Inv, ReadGuide \/ AcknowledgeShield
  PROVE  Inv'
  <1>1. /\ mem # None /\ mem \in Row
        /\ UNCHANGED <<handle, db, log, tasks, view, prompt, agreed, commands>>
    BY HasRow DEF ReadGuide, AcknowledgeShield, Playing
  <1>2. RowInv' /\ mem' \in Row
    <2>1. CASE ReadGuide
      <3>1. "guide" \in Single /\ TRUE \in FieldType["guide"]
        BY FieldNames DEF Single, FieldType
      <3> QED BY <1>1, <2>1, <3>1, ExceptOneField DEF ReadGuide
    <2>2. CASE AcknowledgeShield
      <3>1. "shield" \in Single /\ TRUE \in FieldType["shield"]
        BY FieldNames DEF Single, FieldType
      <3>2. PICK e : FieldJob(mem, "shield", TRUE) = Change(Only("shield", TRUE), e)
        BY DEF FieldJob
      <3>3. /\ mem' = [mem EXCEPT !["shield"] = TRUE]
            /\ queue' = Append(queue, Change(Only("shield", TRUE), e))
        BY <2>2, <3>2 DEF AcknowledgeShield
      <3> QED BY <1>1, <3>1, <3>3, ExceptOneField
    <2> QED BY <2>1, <2>2
  <1>3. mem' # None /\ agreed' \in BOOLEAN /\ (agreed => agreed')
    BY <1>1, <1>2, NoRowAssumption DEF Inv, RestInv
  <1>4. ViewInv'
    BY <1>1, <1>3, ViewsStay
  <1> QED BY <1>1, <1>2, <1>4, OneFieldKeeps DEF Inv, RestInv

\* Actions that leave the row, the queue and the messages alone.
LEMMA OthersKeep ==
  ASSUME Inv, UNCHANGED <<mem, db, queue, log, view, agreed>>,
         handle' \in Handle, TasksOK(tasks'), mem = None => tasks' = <<>>,
         prompt' \in [Admin -> Prompt], commands' \in 0..MaxCommands
  PROVE  Inv'
  <1>1. agreed' \in BOOLEAN /\ (agreed => agreed')
    BY DEF Inv, RestInv
  <1>2. RowInv' /\ ViewInv'
    BY <1>1, NothingElseChanges, ViewsStay
  <1> QED BY <1>1, <1>2 DEF Inv, RestInv

LEMMA CountedIsBounded ==
  ASSUME Inv, Counted
  PROVE  commands' \in 0..MaxCommands
  BY BoundsAssumption DEF Inv, RestInv, Counted

LEMMA RenameKeeps ==
  ASSUME Inv, NEW u \in Handle, Rename(u)
  PROVE  Inv'
  <1>1. /\ handle' \in Handle /\ commands' \in 0..MaxCommands
        /\ UNCHANGED <<mem, db, queue, log, tasks, view, prompt, agreed>>
    BY CountedIsBounded DEF Rename
  <1> QED BY <1>1, OthersKeep DEF Inv, RestInv

LEMMA ChargeKeeps ==
  ASSUME Inv, ChargeAbort
  PROVE  Inv'
  <1> DEFINE left == IF mem.aborts > 0 THEN mem.aborts - 1 ELSE 0
  <1>1. /\ mem # None /\ commands' \in 0..MaxCommands
        /\ tasks' = Append(tasks, Task(Only("aborts", left), Only("aborts", left)))
        /\ UNCHANGED <<handle, mem, db, queue, log, view, prompt, agreed>>
    BY CountedIsBounded DEF ChargeAbort, Playing
  <1>2. TasksOK(tasks')
    <2>1. mem.aborts \in Int
      BY <1>1, HasRow DEF Row
    <2>2. Only("aborts", left) \in [{"aborts"} -> Int]
      BY <2>1 DEF Only
    <2> HIDE DEF left
    <2>3. TaskOK(Task(Only("aborts", left), Only("aborts", left))) /\ TasksOK(tasks)
      BY <2>2 DEF TaskOK, Task, Inv, RestInv
    <2> QED BY <1>1, <2>3, TaskWaits
  <1> QED BY <1>1, <1>2, OthersKeep DEF Inv, RestInv, RowInv

LEMMA PromptsKeep ==
  ASSUME Inv, NEW a \in Admin,
         BanPrompt(a) \/ Dismiss(a) \/ \E n \in ResetTo : ResetPrompt(a, n)
  PROVE  Inv'
  <1>1. prompt \in [Admin -> Prompt] /\ commands \in 0..MaxCommands
    BY DEF Inv, RestInv
  <1>2. Closed \in Prompt /\ [kind |-> "ban"] \in Prompt
        /\ \A n \in ResetTo : [kind |-> "aborts", n |-> n] \in Prompt
    BY DEF Prompt
  <1>3. prompt' \in [Admin -> Prompt]
    BY <1>1, <1>2 DEF BanPrompt, Dismiss, ResetPrompt
  <1>4. /\ commands' \in 0..MaxCommands
        /\ UNCHANGED <<handle, mem, db, queue, log, tasks, view, agreed>>
    BY <1>1, CountedIsBounded DEF BanPrompt, Dismiss, ResetPrompt
  <1> QED BY <1>3, <1>4, OthersKeep DEF Inv, RestInv, RowInv

LEMMA ToggleKeeps ==
  ASSUME Inv, NEW a \in Admin, ToggleBan(a)
  PROVE  Inv'
  <1>1. /\ prompt' = [prompt EXCEPT ![a] = Closed]
        /\ UNCHANGED <<handle, db, log, tasks, view, agreed, commands>>
    BY DEF ToggleBan
  <1>2. prompt' \in [Admin -> Prompt] /\ agreed' \in BOOLEAN /\ (agreed => agreed')
        /\ TasksOK(tasks') /\ commands' \in 0..MaxCommands
    BY <1>1 DEF Inv, RestInv, Prompt
  <1>3. CASE mem = None
    <2>1. PICK e : /\ mem' = None
                   /\ queue' = Append(queue, Change(Only("banned", TRUE), e))
      BY <1>3 DEF ToggleBan
    <2>2. db = None /\ QueueOK(None, None, queue)
      BY <1>3 DEF Inv, RowInv, QueueOK, Catches
    <2>3. Fits(Only("banned", TRUE))
      <3>1. "banned" \in Single /\ TRUE \in FieldType["banned"]
        BY FieldNames DEF Single, FieldType
      <3> QED BY <3>1, OneFieldFits
    <2>4. QueueOK(mem', db', queue')
      BY <1>1, <2>1, <2>2, <2>3, JobWithoutRow
    <2>5. RowInv'
      BY <1>1, <2>1, <2>4 DEF Inv, RowInv, Opt
    <2>6. ViewInv'
      BY <1>1, <1>2, <1>3, ViewsStay
    <2>7. RestInv'
      BY <1>1, <1>2, <1>3 DEF Inv, RestInv
    <2> QED BY <2>5, <2>6, <2>7 DEF Inv
  <1>4. CASE mem # None
    <2> DEFINE banned == ~mem.banned
    <2>1. "banned" \in Single /\ banned \in FieldType["banned"]
      BY FieldNames DEF Single, FieldType
    <2>2. PICK e : /\ mem' = [mem EXCEPT !["banned"] = banned]
                   /\ queue' = Append(queue, Change(Only("banned", banned), e))
      BY <1>4 DEF ToggleBan, FieldJob
    <2>3. RowInv' /\ mem' \in Row
      <3> HIDE DEF banned
      <3> QED BY <1>1, <1>4, <2>1, <2>2, ExceptOneField
    <2>4. ViewInv'
      BY <1>1, <1>2, <1>4, <2>3, ViewsStay, NoRowAssumption
    <2> QED BY <1>1, <1>2, <2>3, <2>4, OneFieldKeeps
  <1> QED BY <1>3, <1>4

LEMMA ResetKeeps ==
  ASSUME Inv, NEW a \in Admin, ResetAborts(a)
  PROVE  Inv'
  <1> DEFINE n == prompt[a].n
  <1>1. /\ prompt' = [prompt EXCEPT ![a] = Closed] /\ prompt[a].kind = "aborts"
        /\ UNCHANGED <<handle, db, log, tasks, view, agreed, commands>>
    BY DEF ResetAborts
  <1>2. prompt' \in [Admin -> Prompt] /\ agreed' \in BOOLEAN /\ (agreed => agreed')
        /\ TasksOK(tasks') /\ commands' \in 0..MaxCommands
    BY <1>1 DEF Inv, RestInv, Prompt
  <1>3. CASE mem = None
    <2>1. mem' = mem /\ queue' = queue /\ handle' \in Handle
      BY <1>1, <1>3 DEF ResetAborts, Inv, RowInv
    <2> QED BY <1>1, <1>2, <1>3, <2>1, OthersKeep DEF Inv, RestInv
  <1>4. CASE mem # None
    <2>1. "aborts" \in Single /\ n \in FieldType["aborts"]
      <3>1. prompt[a] \in Prompt
        BY DEF Inv, RestInv
      <3>2. n \in ResetTo
        BY <1>1, <3>1 DEF Prompt, Closed
      <3> QED BY <3>2, BoundsAssumption, FieldNames DEF Single, FieldType
    <2>2. PICK e : /\ mem' = [mem EXCEPT !["aborts"] = n]
                   /\ queue' = Append(queue, Change(Only("aborts", n), e))
      BY <1>4 DEF ResetAborts, FieldJob
    <2>3. RowInv' /\ mem' \in Row
      <3> HIDE DEF n
      <3> QED BY <1>1, <1>4, <2>1, <2>2, ExceptOneField
    <2>4. ViewInv'
      BY <1>1, <1>2, <1>4, <2>3, ViewsStay, NoRowAssumption
    <2> QED BY <1>1, <1>2, <2>3, <2>4, OneFieldKeeps
  <1> QED BY <1>3, <1>4

LEMMA MergeNothing ==
  ASSUME NEW row \in Row
  PROVE  Fits(NoEntries) /\ Merge(row, NoEntries) = row
  <1>1. \A r \in Row : Merge(r, NoEntries) = r
    <2>1. DOMAIN NoEntries = {}
      BY DEF NoEntries
    <2> QED BY <2>1, RowHas DEF Merge
  <1>2. Fits(NoEntries)
    BY <1>1, NewRowIsRow DEF Fits, NoEntries
  <1> QED BY <1>1, <1>2

\* What a task sets fits, and leaves alone what a setup has filled.
LEMMA TaskSets ==
  ASSUME NEW t, TaskOK(t), NEW row \in Row
  PROVE  /\ Fits(t.set)
         /\ \A f \in Fields :
              /\ Merge(row, t.set)[f] # row[f] => f \in {"country", "aborts"}
              /\ f = "country" /\ row[f] # None => Merge(row, t.set)[f] # None
  <1>1. CASE t.set = NoEntries
    BY <1>1, MergeNothing
  <1>2. ASSUME NEW f \in {"country", "aborts"}, NEW v \in FieldType[f], t.set = Only(f, v),
               f = "country" => v # None
        PROVE  /\ Fits(t.set)
               /\ \A g \in Fields :
                    /\ Merge(row, t.set)[g] # row[g] => g \in {"country", "aborts"}
                    /\ g = "country" /\ row[g] # None => Merge(row, t.set)[g] # None
    <2>1. f \in Single
      BY FieldNames DEF Single
    <2>2. Fits(t.set) /\ DOMAIN t.set = {f} /\ t.set[f] = v
      BY <1>2, <2>1, OneFieldFits
    <2> QED BY <1>2, <2>2 DEF Merge
  <1>3. CASE t.set \in [{"country"} -> Country]
    <2>1. t.set = Only("country", t.set["country"]) /\ t.set["country"] \in Country
      BY <1>3 DEF Only
    <2>2. t.set["country"] \in FieldType["country"] /\ t.set["country"] # None
      BY <2>1, NamesAssumption DEF FieldType, Opt
    <2> QED BY <1>2, <2>1, <2>2
  <1>4. CASE t.set \in [{"aborts"} -> Int]
    <2>1. t.set = Only("aborts", t.set["aborts"]) /\ t.set["aborts"] \in Int
      BY <1>4 DEF Only
    <2>2. t.set["aborts"] \in FieldType["aborts"]
      BY <2>1 DEF FieldType
    <2> QED BY <1>2, <2>1, <2>2
  <1> QED BY <1>1, <1>3, <1>4 DEF TaskOK

LEMMA TaskKeeps ==
  ASSUME Inv, RunTask
  PROVE  Inv'
  <1>1. PICK t, job :
          /\ t = Head(tasks) /\ job = TaskJob(t)
          /\ tasks # <<>> /\ tasks' = Tail(tasks)
          /\ mem' = Merge(mem, t.set) /\ queue' = Append(queue, job)
          /\ UNCHANGED <<handle, db, log, view, prompt, agreed, commands>>
    BY DEF RunTask
  <1>2. /\ mem \in Row /\ mem # None /\ handle \in Handle /\ QueueOK(mem, db, queue)
        /\ prompt' \in [Admin -> Prompt] /\ commands' \in 0..MaxCommands
        /\ agreed' \in BOOLEAN /\ (agreed => agreed')
    <2>1. mem # None
      BY <1>1 DEF Inv, RestInv
    <2> QED BY <1>1, <2>1, HasRow DEF Inv, RestInv, RowInv
  <1>3. TaskOK(t) /\ TasksOK(tasks')
    BY <1>1, TaskLeaves DEF Inv, RestInv
  <1>4. job.op = "update" /\ job.set = t.set
    <2>1. CASE "aborts" \in DOMAIN t.set
      <3>1. t.set \in [{"aborts"} -> Int]
        BY <1>3, <2>1 DEF TaskOK, NoEntries
      <3>2. t.set = Only("aborts", t.set["aborts"])
        BY <3>1 DEF Only
      <3>3. PICK e : FieldJob(mem, "aborts", t.set["aborts"]) = Change(t.set, e)
        BY <3>2 DEF FieldJob
      <3> QED BY <1>1, <2>1, <3>3 DEF TaskJob, Change
    <2>2. CASE "aborts" \notin DOMAIN t.set
      <3>1. PICK e : InfoJob(mem, t.set) = Change(t.set, e)
        BY DEF InfoJob
      <3> QED BY <1>1, <2>2, <3>1 DEF TaskJob, Change
    <2> QED BY <2>1, <2>2
  <1>5. mem' \in Row /\ mem' # None
    BY <1>1, <1>2, <1>3, TaskSets, MergeIsRow, NoRowAssumption
  <1>6. QueueOK(mem', db', queue')
    BY <1>1, <1>2, <1>3, <1>4, TaskSets, JobKeepsQueue
  <1>7. Truthful(mem', agreed')
    <2>1. Truthful(mem, agreed)
      BY <1>2 DEF Inv, RowInv
    <2>2. /\ mem'.tos = mem.tos /\ mem'.setup = mem.setup /\ mem'.name = mem.name
          /\ mem'.region = mem.region
          /\ mem.country # None => mem'.country # None
      BY <1>1, <1>2, <1>3, TaskSets, FieldNames
    <2> QED BY <1>1, <2>1, <2>2 DEF Truthful
  <1>8. RowInv'
    BY <1>1, <1>2, <1>5, <1>6, <1>7 DEF Inv, RowInv, Opt
  <1>9. ViewInv'
    BY <1>1, <1>2, <1>5, ViewsStay
  <1> QED BY <1>1, <1>2, <1>3, <1>5, <1>8, <1>9, OneFieldKeeps

LEMMA WriteKeeps ==
  ASSUME Inv, WriteNext
  PROVE  Inv'
  <1>1. /\ queue # <<>> /\ queue' = Tail(queue) /\ db' = Written(db, Head(queue))
        /\ LogOK(log')
        /\ UNCHANGED <<handle, mem, tasks, view, prompt, agreed, commands>>
    <2>1. LogOK(log')
      BY DEF Inv, RestInv, WriteNext, Logged, LogOK
    <2> QED BY <2>1 DEF WriteNext
  <1>2. QueueOK(mem', db', queue') /\ db' \in Opt(Row)
    BY <1>1, WriteKeepsQueue DEF Inv, RowInv
  <1>3. RowInv'
    BY <1>1, <1>2 DEF Inv, RowInv
  <1>4. ViewInv' /\ RestInv'
    BY <1>1 DEF Inv, ViewInv, RestInv
  <1> QED BY <1>3, <1>4 DEF Inv

-----------------------------------------------------------------------------

LEMMA InitEstablishes == Init => Inv
  <1> SUFFICES ASSUME Init PROVE Inv
    OBVIOUS
  <1>1. RowInv
    <2>1. IsSeq(queue) /\ DOMAIN queue = {}
      <3>1. queue \in Seq({})
        BY DEF Init
      <3> QED BY <3>1 DEF IsSeq, Init
    <2>2. CreatesIn(queue) = {}
      BY <2>1 DEF CreatesIn
    <2>3. QueueOK(mem, db, queue)
      BY <2>1, <2>2 DEF Init, QueueOK, CreatedOnce, Catches
    <2> QED BY <2>3 DEF Init, RowInv, Opt
  <1>2. ViewInv
    BY ClosedIsShown DEF Init, ViewInv
  <1>3. RestInv
    <2>1. LogOK(log) /\ prompt \in [Admin -> Prompt]
      BY DEF Init, NothingLogged, NoEntries, Prompt, LogOK
    <2>3. TasksOK(tasks)
      <3>1. tasks \in Seq({}) /\ DOMAIN tasks = {}
        BY DEF Init
      <3> QED BY <3>1 DEF TasksOK, IsSeq
    <2>2. commands \in 0..MaxCommands
      BY BoundsAssumption DEF Init
    <2> QED BY <2>1, <2>2, <2>3 DEF Init, RestInv
  <1> QED BY <1>1, <1>2, <1>3 DEF Inv

LEMMA StepKeeps == Inv /\ [Next]_vars => Inv'
  <1> SUFFICES ASSUME Inv, [Next]_vars PROVE Inv'
    OBVIOUS
  <1>1. CASE PlayerStep
    <2>1. ASSUME NEW v \in View,
                 \/ \E id \in Id \cup {BadId}, b1, b2 \in Id \cup {BadId, None} :
                       Submit(v, id, b1, b2)
                 \/ \E c \in Common : SelectCountry(v, c)
                 \/ \E r \in Region : SelectRegion(v, r)
                 \/ Preview(v) \/ Restart(v)
          PROVE  Inv'
      BY <2>1, SetupMessagesKeep
    <2>2. ASSUME NEW v \in View,
                 \/ SetupCommand(v) \/ TermsCommand(v)
                 \/ \E c \in Country : SetCountryCommand(v, c)
          PROVE  Inv'
      BY <2>2, CommandsKeep
    <2>3. ASSUME NEW v \in View,
                 \/ Close(v) \/ CompleteSetup(v) \/ ConfirmCountry(v)
                 \/ \E b \in BOOLEAN : AnswerTerms(v, b)
          PROVE  Inv'
      BY <2>3, CloseKeeps, CompleteKeeps, ConfirmCountryKeeps, AnswerKeeps
    <2>4. CASE \E u \in Handle : Rename(u)
      BY <2>4, RenameKeeps
    <2>5. CASE ReadingCommand \/ ReadGuide \/ AcknowledgeShield \/ ChargeAbort
      BY <2>5, ReadingKeeps, NoticesKeep, ChargeKeeps
    <2> QED BY <1>1, <2>1, <2>2, <2>3, <2>4, <2>5, Zenon DEF PlayerStep
  <1>2. CASE AdminStep
    BY <1>2, PromptsKeep, ToggleKeeps, ResetKeeps DEF AdminStep
  <1>3. CASE RunTask
    BY <1>3, TaskKeeps
  <1>4. CASE WriteNext
    BY <1>4, WriteKeeps
  <1>5. CASE UNCHANGED vars
    BY <1>5 DEF vars, Inv, RowInv, ViewInv, RestInv
  <1> QED BY <1>1, <1>2, <1>3, <1>4, <1>5 DEF Next

\* The inductive invariant holds: the queue, the messages and the row agree at
\* every step of the player, the admins, the tasks and the writer.
THEOREM Invariant == Spec => []Inv
  BY InitEstablishes, StepKeeps, PTL DEF Spec

\* Rows, jobs, messages and prompts keep their types; no row names its player
\* twice, in memory, in the database or in a form.
THEOREM TypeCorrect == Spec => []TypeOK
  BY Invariant, InvImplies, PTL

\* Whoever writes the row, every field of it in the database ends as it is in
\* memory once the queued jobs are written in their order.
THEOREM DatabaseCatchesUp == Spec => []DbCatchesUp
  BY Invariant, InvImplies, PTL

\* Whatever messages are open and whatever was declined since, a completed setup
\* has a name, a country and a region and followed an acceptance of the terms.
THEOREM SetupIsComplete == Spec => []SetupIsWhole
  BY Invariant, InvImplies, PTL

-----------------------------------------------------------------------------
(* The log *)

\* The fields whose changes are logged.
Traced == Fields \ {"guide"}

AskersIn(q, f) == {i \in DOMAIN q : f \in DOMAIN q[i].entries}

\* Says, of a log l and a queue q; Said is what the log says alone.
Said(l, f, value) ==
  \/ f \in l.refused
  \/ f \in DOMAIN l.last /\ Ends(f, l.last[f], value)
  \/ f \notin DOMAIN l.last /\ (f = "username" \/ value = NewRow(None)[f])

SaysIn(l, q, f, i, value) ==
  LET asked == {j \in AskersIn(q, f) : j < i}
  IN  IF asked = {} THEN Said(l, f, value)
      ELSE \E j \in asked : (\A k \in asked : k <= j) /\ Ends(f, q[j].entries[f], value)

\* AuditTells, of what is known of the player.
Audited(n, l, q) ==
  \A f \in Traced :
    /\ \A i \in AskersIn(q, f) : SaysIn(l, q, f, i, q[i].entries[f].old)
    /\ SaysIn(l, q, f, Len(q) + 1, n[f])

Known(row) == IF row = None THEN NewRow(None) ELSE row

\* Nothing was said of the username.
Unnamed(l, q) == "username" \notin DOMAIN l.last /\ AskersIn(q, "username") = {}

AuditInv ==
  /\ Audited(Known(mem), log, queue)
  /\ mem = None => Unnamed(log, queue)

LEMMA AuditImplies ==
  ASSUME AuditInv
  PROVE  AuditTells
  <1>1. \A f, i, value : Says(f, i, value) <=> SaysIn(log, queue, f, i, value)
    BY DEF Says, SaysIn, Said, Askers, AskersIn
  <1>2. \A f : Askers(f) = AskersIn(queue, f)
    BY DEF Askers, AskersIn
  <1> QED BY <1>1, <1>2 DEF AuditInv, Audited, Known, Traced, AuditTells

\* A job behind the others changes nothing of what they say.
LEMMA SaysBehind ==
  ASSUME NEW q, IsSeq(q), NEW job, NEW l, NEW f, NEW i \in 1..(Len(q) + 1), NEW value
  PROVE  SaysIn(l, Append(q, job), f, i, value) <=> SaysIn(l, q, f, i, value)
  <1> DEFINE p == Append(q, job)
  <1>1. /\ Len(q) \in Nat /\ DOMAIN q = 1..Len(q) /\ DOMAIN p = 1..(Len(q) + 1)
        /\ \A j \in 1..Len(q) : p[j] = q[j]
    BY AppendIsSeq
  <1> HIDE DEF p
  <1>2. {j \in AskersIn(p, f) : j < i} = {j \in AskersIn(q, f) : j < i}
    BY <1>1 DEF AskersIn
  <1>3. \A j \in AskersIn(q, f) : p[j] = q[j]
    BY <1>1 DEF AskersIn
  <1>4. SaysIn(l, p, f, i, value) <=> SaysIn(l, q, f, i, value)
    BY <1>2, <1>3 DEF SaysIn
  <1> QED BY <1>4 DEF p

\* A job whose entries tell what it does to the row, from m to n, and nothing
\* else.  The first username comes without an entry.
Tells(job, m, n) ==
  \A f \in Traced \cap DOMAIN job.entries :
    job.entries[f].old = m[f] /\ Ends(f, job.entries[f], n[f])

LEMMA ChangeIsAudited ==
  ASSUME NEW m, NEW n, NEW l, NEW q, NEW job, IsSeq(q), Audited(m, l, q), Tells(job, m, n),
         \A f \in Traced \ DOMAIN job.entries : n[f] = m[f] \/ (f = "username" /\ Unnamed(l, q))
  PROVE  Audited(n, l, Append(q, job))
  <1> DEFINE p == Append(q, job)
             last == Len(q) + 1
  <1>1. /\ Len(q) \in Nat /\ DOMAIN q = 1..Len(q) /\ DOMAIN p = 1..last
        /\ \A j \in 1..Len(q) : p[j] = q[j]
        /\ p[last] = job /\ Len(p) = last
    <2>1. IsSeq(p) /\ DOMAIN p = 1..last
      BY AppendIsSeq
    <2>2. DOMAIN p = 1..Len(p) /\ Len(p) \in Nat
      BY <2>1, AppendIsSeq
    <2>3. Len(p) = last
      BY <2>1, <2>2, AppendIsSeq
    <2> QED BY <2>1, <2>3, AppendIsSeq
  <1>2. \A f, value : \A i \in 1..last : SaysIn(l, p, f, i, value) <=> SaysIn(l, q, f, i, value)
    BY SaysBehind
  <1> HIDE DEF p
  <1> SUFFICES ASSUME NEW f \in Traced
               PROVE  /\ \A i \in AskersIn(p, f) : SaysIn(l, p, f, i, p[i].entries[f].old)
                      /\ SaysIn(l, p, f, Len(p) + 1, n[f])
    BY DEF Audited, p
  <1>3. /\ \A i \in AskersIn(q, f) : SaysIn(l, q, f, i, q[i].entries[f].old)
        /\ SaysIn(l, q, f, last, m[f])
    BY DEF Audited
  <1>4. ASSUME NEW i \in AskersIn(p, f) PROVE SaysIn(l, p, f, i, p[i].entries[f].old)
    <2>1. CASE i \in 1..Len(q)
      <3>1. i \in AskersIn(q, f) /\ p[i] = q[i] /\ i \in 1..last
        BY <1>1, <2>1 DEF AskersIn
      <3> QED BY <1>2, <1>3, <3>1
    <2>2. CASE i = last
      <3>1. p[i] = job /\ i \in 1..last /\ job.entries[f].old = m[f]
        BY <1>1, <2>2 DEF AskersIn, Tells
      <3> QED BY <1>2, <1>3, <2>2, <3>1
    <2> QED BY <1>1, <2>1, <2>2 DEF AskersIn
  <1>5. SaysIn(l, p, f, last + 1, n[f])
    <2>1. CASE f \in DOMAIN job.entries
      <3>1. last \in {j \in AskersIn(p, f) : j < last + 1}
        BY <1>1, <2>1 DEF AskersIn
      <3>2. \A k \in {j \in AskersIn(p, f) : j < last + 1} : k <= last
        BY <1>1 DEF AskersIn
      <3>3. Ends(f, p[last].entries[f], n[f])
        BY <1>1, <2>1 DEF Tells
      <3> HIDE DEF last
      <3> QED BY <3>1, <3>2, <3>3 DEF SaysIn
    <2>2. CASE f \notin DOMAIN job.entries /\ n[f] = m[f]
      <3>1. {j \in AskersIn(p, f) : j < last + 1} = {j \in AskersIn(p, f) : j < last}
        BY <1>1, <2>2 DEF AskersIn
      <3>2. SaysIn(l, p, f, last, m[f])
        <4>1. last \in 1..last
          BY <1>1
        <4> QED BY <1>2, <1>3, <4>1
      <3> HIDE DEF last
      <3> QED BY <2>2, <3>1, <3>2 DEF SaysIn
    <2>3. CASE f \notin DOMAIN job.entries /\ f = "username" /\ Unnamed(l, q)
      <3>1. AskersIn(p, f) = {}
        BY <1>1, <2>3 DEF AskersIn, Unnamed
      <3>2. Said(l, f, n[f])
        BY <2>3 DEF Said, Unnamed
      <3> QED BY <3>1, <3>2 DEF SaysIn
    <2> QED BY <2>1, <2>2, <2>3
  <1> QED BY <1>1, <1>4, <1>5

LEMMA UnnamedBehind ==
  ASSUME NEW l, NEW q, NEW job, IsSeq(q), Unnamed(l, q), "username" \notin DOMAIN job.entries
  PROVE  Unnamed(l, Append(q, job))
  <1>1. PICK p : p = Append(q, job)
    OBVIOUS
  <1>2. /\ DOMAIN q = 1..Len(q) /\ DOMAIN p = 1..(Len(q) + 1) /\ Len(q) \in Nat
        /\ \A j \in 1..Len(q) : p[j] = q[j]
        /\ p[Len(q) + 1] = job
    BY <1>1, AppendIsSeq
  <1>3. ASSUME NEW i \in AskersIn(p, "username") PROVE FALSE
    <2>1. CASE i = Len(q) + 1
      BY <1>2, <1>3, <2>1 DEF AskersIn
    <2>2. CASE i \in 1..Len(q)
      BY <1>2, <1>3, <2>2 DEF AskersIn, Unnamed
    <2> QED BY <1>2, <2>1, <2>2 DEF AskersIn
  <1> QED BY <1>1, <1>3 DEF Unnamed

LEMMA CreateIsAudited ==
  ASSUME NEW l, NEW q, IsSeq(q), Audited(NewRow(None), l, q), Unnamed(l, q), NEW u \in Handle
  PROVE  Audited(NewRow(u), l, Append(q, Create(u)))
  <1>1. PICK job : job = Create(u)
    OBVIOUS
  <1>2. DOMAIN job.entries = {}
    BY <1>1 DEF Create, NoEntries
  <1>3. \A f \in Fields : f = "username" \/ NewRow(u)[f] = NewRow(None)[f]
    <2>1. PICK r, n : r = NewRow(u) /\ n = NewRow(None)
      OBVIOUS
    <2>2. /\ r.name = n.name /\ r.alts = n.alts /\ r.country = n.country
          /\ r.region = n.region /\ r.tos = n.tos /\ r.setup = n.setup
          /\ r.aborts = n.aborts /\ r.banned = n.banned /\ r.shield = n.shield
          /\ r.guide = n.guide
      BY <2>1 DEF NewRow
    <2>3. \A f \in Fields : f = "username" \/ r[f] = n[f]
      BY <2>2, FieldNames
    <2> QED BY <2>1, <2>3
  <1>4. Tells(job, NewRow(None), NewRow(u))
    BY <1>2 DEF Tells
  <1> QED BY <1>1, <1>3, <1>4, ChangeIsAudited DEF Traced

\* What a log says of a field once it took, or refused, the entries of a job.
LEMMA LoggedSays ==
  ASSUME NEW job, NEW f \in Traced, NEW value
  PROVE  /\ f \in DOMAIN job.entries /\ Ends(f, job.entries[f], value) => Said(Logged(job), f, value)
         /\ f \notin DOMAIN job.entries => (Said(Logged(job), f, value) <=> Said(log, f, value))
         /\ "username" \notin DOMAIN job.entries /\ "username" \notin DOMAIN log.last
              => "username" \notin DOMAIN Logged(job).last
  <1>1. PICK l : l = Logged(job)
    OBVIOUS
  <1>2. PICK asked, taken :
          /\ asked = Fields \cap DOMAIN job.entries
          /\ taken = {g \in asked : IsTaken(job.entries[g])}
    OBVIOUS
  <1>3. /\ l.last = [g \in DOMAIN log.last \cup taken |->
                       IF g \in taken THEN job.entries[g] ELSE log.last[g]]
        /\ l.refused = (log.refused \ taken) \cup (asked \ taken)
    BY <1>1, <1>2 DEF Logged
  <1>4. f \in Fields
    BY DEF Traced
  <1>5. ASSUME f \in DOMAIN job.entries, Ends(f, job.entries[f], value) PROVE Said(l, f, value)
    <2>1. CASE f \in taken
      <3>1. f \in DOMAIN l.last /\ l.last[f] = job.entries[f]
        BY <1>3, <2>1
      <3> QED BY <1>5, <3>1 DEF Said
    <2>2. CASE f \notin taken
      BY <1>2, <1>3, <1>4, <1>5, <2>2 DEF Said
    <2> QED BY <2>1, <2>2
  <1>6. ASSUME f \notin DOMAIN job.entries PROVE Said(l, f, value) <=> Said(log, f, value)
    <2>1. f \notin asked /\ f \notin taken
      BY <1>2, <1>6
    <2>2. /\ f \in DOMAIN l.last <=> f \in DOMAIN log.last
          /\ f \in DOMAIN log.last => l.last[f] = log.last[f]
          /\ f \in l.refused <=> f \in log.refused
      BY <1>3, <2>1
    <2> QED BY <2>2 DEF Said
  <1>7. ASSUME "username" \notin DOMAIN job.entries, "username" \notin DOMAIN log.last
        PROVE  "username" \notin DOMAIN l.last
    BY <1>2, <1>3, <1>7
  <1> QED BY <1>1, <1>5, <1>6, <1>7

\* The writer takes the first job and its entries.
LEMMA WriteIsAudited ==
  ASSUME NEW n, NEW q, IsSeq(q), q # <<>>, Audited(n, log, q)
  PROVE  /\ Audited(n, Logged(Head(q)), Tail(q))
         /\ Unnamed(log, q) => Unnamed(Logged(Head(q)), Tail(q))
  <1>1. PICK p, job, l : p = Tail(q) /\ job = Head(q) /\ l = Logged(job)
    OBVIOUS
  <1>2. /\ IsSeq(p) /\ Len(q) \in Nat \ {0}
        /\ DOMAIN q = 1..Len(q) /\ DOMAIN p = 1..(Len(q) - 1)
        /\ job = q[1]
        /\ \A i \in 1..(Len(q) - 1) : p[i] = q[i + 1]
    BY <1>1, TailIsSeq
  <1>3. Len(p) = Len(q) - 1
    <2>1. PICK T : q \in Seq(T)
      BY DEF IsSeq
    <2> QED BY <1>1, <2>1
  <1>4. \A f, i : i \in AskersIn(p, f) <=> i \in Nat \ {0} /\ i + 1 \in AskersIn(q, f)
    BY <1>2 DEF AskersIn
  <1>5. \A f : 1 \in AskersIn(q, f) <=> f \in DOMAIN job.entries
    BY <1>2 DEF AskersIn
  <1>6. ASSUME NEW f \in Traced, NEW i \in Nat \ {0}, NEW value, SaysIn(log, q, f, i + 1, value)
        PROVE  SaysIn(l, p, f, i, value)
    <2> DEFINE now == {j \in AskersIn(p, f) : j < i}
               before == {j \in AskersIn(q, f) : j < i + 1}
    <2>1. \A j : j \in now <=> j \in Nat \ {0} /\ j + 1 \in before
      BY <1>4
    <2>2. 1 \in before <=> f \in DOMAIN job.entries
      BY <1>5
    <2>3. before \subseteq Nat \ {0} /\ \A j \in before : j = 1 \/ j - 1 \in now
      BY <1>2, <2>1 DEF AskersIn
    <2>4. IF before = {} THEN Said(log, f, value)
          ELSE \E j \in before : (\A k \in before : k <= j) /\ Ends(f, q[j].entries[f], value)
      BY <1>6 DEF SaysIn
    <2>5. \A j \in now : p[j] = q[j + 1]
      BY <1>2 DEF AskersIn
    <2> HIDE DEF now, before
    <2>6. IF now = {} THEN Said(l, f, value)
          ELSE \E j \in now : (\A k \in now : k <= j) /\ Ends(f, p[j].entries[f], value)
      <3>1. CASE before = {}
        BY <1>1, <2>1, <2>2, <2>4, <3>1, LoggedSays
      <3>2. CASE before # {} /\ now = {}
        <4>1. before = {1}
          BY <2>3, <3>2
        <4>2. Ends(f, job.entries[f], value) /\ f \in DOMAIN job.entries
          BY <1>2, <2>2, <2>4, <4>1
        <4> QED BY <1>1, <3>2, <4>2, LoggedSays
      <3>3. CASE now # {}
        <4>1. PICK j \in before : (\A k \in before : k <= j) /\ Ends(f, q[j].entries[f], value)
          BY <2>1, <2>4, <3>3
        <4>2. j - 1 \in now
          <5>1. PICK k \in now : k + 1 \in before /\ k \in Nat \ {0}
            BY <2>1, <3>3
          <5>2. k + 1 <= j
            BY <4>1, <5>1
          <5> QED BY <2>3, <5>1, <5>2
        <4>3. \A k \in now : k <= j - 1
          <5> TAKE k \in now
          <5>1. k \in Nat \ {0} /\ k + 1 \in before
            BY <2>1
          <5>2. k + 1 <= j
            BY <4>1, <5>1
          <5> QED BY <2>3, <5>1, <5>2
        <4>4. p[j - 1] = q[j]
          <5>1. (j - 1) + 1 = j
            BY <2>3
          <5> QED BY <2>5, <4>2, <5>1
        <4> QED BY <3>3, <4>1, <4>2, <4>3, <4>4
      <3> QED BY <3>1, <3>2, <3>3
    <2> QED BY <2>6 DEF SaysIn, now
  <1>7. ASSUME NEW f \in Traced
        PROVE  /\ \A i \in AskersIn(p, f) : SaysIn(l, p, f, i, p[i].entries[f].old)
               /\ SaysIn(l, p, f, Len(p) + 1, n[f])
    <2>1. /\ \A i \in AskersIn(q, f) : SaysIn(log, q, f, i, q[i].entries[f].old)
          /\ SaysIn(log, q, f, Len(q) + 1, n[f])
      BY DEF Audited
    <2>2. ASSUME NEW i \in AskersIn(p, f) PROVE SaysIn(l, p, f, i, p[i].entries[f].old)
      <3>1. i \in Nat \ {0} /\ i + 1 \in AskersIn(q, f)
        BY <1>4
      <3>2. p[i] = q[i + 1]
        BY <1>2 DEF AskersIn
      <3>3. SaysIn(log, q, f, i + 1, q[i + 1].entries[f].old)
        BY <2>1, <3>1
      <3> QED BY <1>6, <3>1, <3>2, <3>3
    <2>3. SaysIn(l, p, f, Len(p) + 1, n[f])
      <3>1. Len(p) + 1 \in Nat \ {0} /\ (Len(p) + 1) + 1 = Len(q) + 1
        BY <1>2, <1>3
      <3> QED BY <1>6, <2>1, <3>1
    <2> QED BY <2>2, <2>3
  <1>8. Audited(n, l, p)
    BY <1>7 DEF Audited
  <1>9. Unnamed(log, q) => Unnamed(l, p)
    <2>1. "username" \in Traced
      BY FieldNames DEF Traced
    <2> QED BY <1>1, <1>4, <1>5, <2>1, LoggedSays DEF Unnamed
  <1> QED BY <1>1, <1>8, <1>9

\* The jobs of update_player_info tell what they do to a row.
LEMMA InfoTells ==
  ASSUME NEW m, NEW set
  PROVE  /\ Tells(InfoJob(m, set), m, Merge(m, set))
         /\ \A f \in Traced \ DOMAIN InfoJob(m, set).entries : Merge(m, set)[f] = m[f]
  <1>1. PICK name : InfoJob(m, set) = Change(set, [f \in DOMAIN set |-> Entry(m[f], set[f], name)])
    BY DEF InfoJob
  <1>2. PICK e : e = [f \in DOMAIN set |-> Entry(m[f], set[f], name)]
    OBVIOUS
  <1>3. InfoJob(m, set).entries = e /\ DOMAIN e = DOMAIN set
    BY <1>1, <1>2 DEF Change
  <1>4. \A f \in DOMAIN set : e[f].old = m[f] /\ e[f].new = set[f]
    BY <1>2 DEF Entry
  <1>5. \A f \in Fields : Merge(m, set)[f] = IF f \in DOMAIN set THEN set[f] ELSE m[f]
    BY DEF Merge
  <1> QED BY <1>3, <1>4, <1>5 DEF Traced, Tells, Ends

\* So do those of one field.
LEMMA FieldTells ==
  ASSUME NEW m, NEW g \in Single, NEW v \in FieldType[g]
  PROVE  /\ Tells(FieldJob(m, g, v), m, Merge(m, Only(g, v)))
         /\ \A f \in Traced \ DOMAIN FieldJob(m, g, v).entries : Merge(m, Only(g, v))[f] = m[f]
  <1>1. PICK e : e = Entry(m[g], v, m.name)
    OBVIOUS
  <1>2. FieldJob(m, g, v).entries = [f \in {g} |-> e]
    BY <1>1 DEF FieldJob, Change, Only
  <1>3. e.old = m[g] /\ e.new = v
    BY <1>1 DEF Entry
  <1>4. \A f \in Fields : Merge(m, Only(g, v))[f] = IF f = g THEN v ELSE m[f]
    <2>1. DOMAIN Only(g, v) = {g} /\ Only(g, v)[g] = v
      BY OneFieldFits
    <2> QED BY <2>1 DEF Merge
  <1> QED BY <1>2, <1>3, <1>4 DEF Traced, Tells, Ends

\* A change of a row that is there, told by its job.
LEMMA ToldIsAudited ==
  ASSUME Inv, AuditInv, mem # None, mem' # None, UNCHANGED log, NEW job,
         queue' = Append(queue, job), Tells(job, mem, mem'),
         \A f \in Traced \ DOMAIN job.entries : mem'[f] = mem[f]
  PROVE  AuditInv'
  <1>1. IsSeq(queue) /\ Audited(mem, log, queue)
    BY DEF Inv, RowInv, QueueOK, AuditInv, Known
  <1>2. Audited(mem', log, Append(queue, job))
    BY <1>1, ChangeIsAudited
  <1> QED BY <1>2 DEF AuditInv, Known

\* One field of a row that is there.
LEMMA OneFieldIsAudited ==
  ASSUME Inv, AuditInv, mem # None, NEW f \in Single, NEW v \in FieldType[f],
         mem' = [mem EXCEPT ![f] = v] \/ mem' = Merge(mem, Only(f, v)), UNCHANGED log,
         \/ queue' = Append(queue, InfoJob(mem, Only(f, v)))
         \/ queue' = Append(queue, FieldJob(mem, f, v))
         \/ queue' = Append(queue, Change(Only(f, v), NoEntries)) /\ f = "guide"
  PROVE  AuditInv'
  <1>1. mem \in Row
    BY HasRow
  <1>2. mem' = Merge(mem, Only(f, v))
    BY <1>1, OneFieldIsMerge
  <1>3. /\ mem' # None
        /\ DOMAIN Only(f, v) = {f} /\ Only(f, v)[f] = v
    <2>1. mem' \in Row /\ handle \in Handle
      BY <1>1, <1>2, OneFieldFits, MergeIsRow DEF Inv, RowInv
    <2> QED BY <2>1, OneFieldFits, NoRowAssumption
  <1>4. PICK job : /\ queue' = Append(queue, job)
                   /\ \/ job = InfoJob(mem, Only(f, v))
                      \/ job = FieldJob(mem, f, v)
                      \/ job = Change(Only(f, v), NoEntries) /\ f = "guide"
    OBVIOUS
  <1>5. Tells(job, mem, mem') /\ \A g \in Traced \ DOMAIN job.entries : mem'[g] = mem[g]
    <2>1. CASE job = InfoJob(mem, Only(f, v))
      BY <1>2, <2>1, InfoTells
    <2>2. CASE job = FieldJob(mem, f, v)
      BY <1>2, <2>2, FieldTells
    <2>3. CASE job = Change(Only(f, v), NoEntries) /\ f = "guide"
      <3>1. DOMAIN job.entries = {}
        BY <2>3 DEF Change, NoEntries
      <3>2. \A g \in Traced : mem'[g] = mem[g]
        BY <1>2, <1>3, <2>3 DEF Traced, Merge
      <3> QED BY <3>1, <3>2 DEF Tells
    <2> QED BY <1>4, <2>1, <2>2, <2>3
  <1> QED BY <1>3, <1>4, <1>5, ToldIsAudited

LEMMA EnsureIsAudited ==
  ASSUME Inv, AuditInv, Ensure, UNCHANGED log
  PROVE  AuditInv'
  <1>1. /\ handle \in Handle /\ IsSeq(queue)
        /\ "username" \in Single /\ handle \in FieldType["username"]
    BY FieldNames DEF Inv, RowInv, Single, FieldType, QueueOK
  <1>2. (\A x : queue \o <<x>> = Append(queue, x)) /\ queue \o <<>> = queue
    BY <1>1 DEF IsSeq
  <1>3. CASE mem = None
    <2>1. mem' = NewRow(handle) /\ queue' = Append(queue, Create(handle))
      BY <1>2, <1>3 DEF Ensure, Ensured
    <2>2. NewRow(handle) # None /\ Audited(NewRow(None), log, queue) /\ Unnamed(log, queue)
      BY <1>1, <1>3, NewRowIsRow, NoRowAssumption DEF AuditInv, Known
    <2>3. Audited(NewRow(handle), log, Append(queue, Create(handle)))
      BY <1>1, <2>2, CreateIsAudited
    <2> QED BY <2>1, <2>2, <2>3 DEF AuditInv, Known
  <1>4. CASE mem # None /\ Renamed
    <2>1. /\ mem' = [mem EXCEPT !["username"] = handle]
          /\ queue' = Append(queue, InfoJob(mem, Only("username", handle)))
      BY <1>2, <1>4 DEF Ensure, Ensured, NewName
    <2> QED BY <1>1, <1>4, <2>1, OneFieldIsAudited
  <1>5. CASE mem # None /\ ~Renamed
    <2>1. queue' = queue /\ mem' = [mem EXCEPT !["username"] = handle] /\ mem["username"] = handle
      BY <1>2, <1>5 DEF Ensure, Ensured, Renamed
    <2>2. mem = [f \in Fields |-> mem[f]]
      BY <1>5, HasRow, RowHas
    <2>3. mem' = mem
      BY <2>1, <2>2
    <2> QED BY <2>1, <2>3 DEF AuditInv
  <1> QED BY <1>3, <1>4, <1>5

LEMMA CompleteIsAudited ==
  ASSUME Inv, AuditInv, NEW v \in View, CompleteSetup(v)
  PROVE  AuditInv'
  <1>1. PICK form, done, filled :
            /\ form = Form(view[v]) /\ done = Only("setup", TRUE) /\ filled = Merge(mem, form)
            /\ view[v].kind = "confirm" /\ mem' = Merge(filled, done) /\ UNCHANGED log
            /\ queue' = queue \o <<InfoJob(mem, form), InfoJob(filled, done)>>
    BY DEF CompleteSetup
  <1>2. view[v] \in Filled /\ mem # None
    BY <1>1, ShownKinds, ClosedIsShown DEF Inv, ViewInv
  <1>3. Fits(form)
    BY <1>1, <1>2, FormFits
  <1>4. Fits(done)
    <2>1. "setup" \in Single /\ TRUE \in FieldType["setup"]
      BY FieldNames DEF Single, FieldType
    <2> QED BY <1>1, <2>1, OneFieldFits
  <1>5. handle \in Handle /\ mem \in Row /\ IsSeq(queue)
    BY <1>2, HasRow DEF Inv, RowInv, QueueOK
  <1>6. filled \in Row /\ filled # None
    BY <1>1, <1>3, <1>5, MergeIsRow, NoRowAssumption
  <1>7. mem' # None
    BY <1>1, <1>4, <1>5, <1>6, MergeIsRow, NoRowAssumption
  <1>8. PICK one : one = Append(queue, InfoJob(mem, form))
    OBVIOUS
  <1>9. IsSeq(one) /\ queue' = Append(one, InfoJob(filled, done))
    <2>1. \A x, y : queue \o <<x, y>> = Append(Append(queue, x), y)
      BY <1>5 DEF IsSeq
    <2> QED BY <1>1, <1>5, <1>8, <2>1, AppendIsSeq
  <1>10. Audited(filled, log, one)
    <2>1. Audited(mem, log, queue)
      BY <1>2 DEF AuditInv, Known
    <2> QED BY <1>1, <1>5, <1>8, <2>1, InfoTells, ChangeIsAudited
  <1>11. Audited(mem', log, queue')
    <2>1. PICK n, job : n = Merge(filled, done) /\ job = InfoJob(filled, done)
      OBVIOUS
    <2>2. Tells(job, filled, n) /\ \A f \in Traced \ DOMAIN job.entries : n[f] = filled[f]
      BY <2>1, InfoTells
    <2>3. Audited(n, log, Append(one, job))
      BY <1>9, <1>10, <2>2, ChangeIsAudited
    <2> QED BY <1>1, <1>9, <2>1, <2>3
  <1> QED BY <1>1, <1>7, <1>11 DEF AuditInv, Known

LEMMA ToggleIsAudited ==
  ASSUME Inv, AuditInv, NEW a \in Admin, ToggleBan(a)
  PROVE  AuditInv'
  <1>1. CASE mem = None
    <2>1. PICK job : /\ job = Change(Only("banned", TRUE), Only("banned", Entry(FALSE, TRUE, Unknown)))
                     /\ queue' = Append(queue, job) /\ mem' = None /\ UNCHANGED log
      BY <1>1 DEF ToggleBan
    <2>2. Tells(job, NewRow(None), NewRow(None)) /\ "username" \notin DOMAIN job.entries
      <3>1. job.entries = [f \in {"banned"} |-> Entry(FALSE, TRUE, Unknown)]
        BY <2>1 DEF Change, Only
      <3>2. /\ Entry(FALSE, TRUE, Unknown).name = Unknown
            /\ Entry(FALSE, TRUE, Unknown).old = FALSE
        BY DEF Entry
      <3>3. NewRow(None).banned = FALSE
        BY DEF NewRow
      <3> QED BY <3>1, <3>2, <3>3 DEF Tells, Ends
    <2>3. IsSeq(queue) /\ Audited(NewRow(None), log, queue) /\ Unnamed(log, queue)
      BY <1>1 DEF Inv, RowInv, QueueOK, AuditInv, Known
    <2>4. Audited(NewRow(None), log, Append(queue, job))
      BY <2>2, <2>3, ChangeIsAudited
    <2>5. Unnamed(log, Append(queue, job))
      BY <2>2, <2>3, UnnamedBehind
    <2> QED BY <2>1, <2>4, <2>5 DEF AuditInv, Known
  <1>2. CASE mem # None
    <2>1. PICK b : b = ~mem.banned
      OBVIOUS
    <2>2. /\ mem' = [mem EXCEPT !["banned"] = b] /\ UNCHANGED log
          /\ queue' = Append(queue, FieldJob(mem, "banned", b))
      BY <1>2, <2>1 DEF ToggleBan
    <2>3. "banned" \in Single /\ b \in FieldType["banned"]
      BY <2>1, FieldNames DEF Single, FieldType
    <2> QED BY <1>2, <2>2, <2>3, OneFieldIsAudited
  <1> QED BY <1>1, <1>2

LEMMA ResetIsAudited ==
  ASSUME Inv, AuditInv, NEW a \in Admin, ResetAborts(a)
  PROVE  AuditInv'
  <1>1. CASE mem = None
    BY <1>1 DEF ResetAborts, AuditInv
  <1>2. CASE mem # None
    <2>1. PICK n : n = prompt[a].n
      OBVIOUS
    <2>2. /\ mem' = [mem EXCEPT !["aborts"] = n] /\ UNCHANGED log
          /\ queue' = Append(queue, FieldJob(mem, "aborts", n))
      BY <1>2, <2>1 DEF ResetAborts
    <2>3. n \in ResetTo
      <3>1. prompt[a] \in Prompt /\ prompt[a].kind = "aborts"
        BY DEF Inv, RestInv, ResetAborts
      <3> QED BY <2>1, <3>1 DEF Prompt, Closed
    <2>4. "aborts" \in Single /\ n \in FieldType["aborts"]
      BY <2>3, BoundsAssumption, FieldNames DEF Single, FieldType
    <2> QED BY <1>2, <2>2, <2>4, OneFieldIsAudited
  <1> QED BY <1>1, <1>2

LEMMA TaskIsAudited ==
  ASSUME Inv, AuditInv, RunTask
  PROVE  AuditInv'
  <1>1. PICK t, job :
          /\ t = Head(tasks) /\ job = TaskJob(t) /\ tasks # <<>>
          /\ mem' = Merge(mem, t.set) /\ queue' = Append(queue, job) /\ UNCHANGED log
    BY DEF RunTask
  <1>2. TaskOK(t) /\ mem # None /\ mem \in Row /\ handle \in Handle
    <2>1. mem # None
      BY <1>1 DEF Inv, RestInv
    <2> QED BY <1>1, <2>1, HasRow, TaskLeaves DEF Inv, RestInv, RowInv
  <1>3. mem' # None
    BY <1>1, <1>2, TaskSets, MergeIsRow, NoRowAssumption
  <1>4. \E own : /\ job = [own EXCEPT !.again = t.again]
                 /\ own = InfoJob(mem, t.set)
                    \/ /\ t.set \in [{"aborts"} -> Int]
                       /\ own = FieldJob(mem, "aborts", t.set["aborts"])
    <2>1. "aborts" \in DOMAIN t.set => t.set \in [{"aborts"} -> Int]
      BY <1>2 DEF TaskOK, NoEntries
    <2> QED BY <1>1, <2>1 DEF TaskJob
  <1>5. PICK own : /\ job = [own EXCEPT !.again = t.again]
                   /\ own = InfoJob(mem, t.set)
                      \/ /\ t.set \in [{"aborts"} -> Int]
                         /\ own = FieldJob(mem, "aborts", t.set["aborts"])
    BY <1>4
  <1>6. job.entries = own.entries
    BY <1>5 DEF InfoJob, FieldJob, Change
  <1>7. Tells(own, mem, mem') /\ \A f \in Traced \ DOMAIN own.entries : mem'[f] = mem[f]
    <2>1. CASE own = InfoJob(mem, t.set)
      BY <1>1, <2>1, InfoTells
    <2>2. CASE t.set \in [{"aborts"} -> Int] /\ own = FieldJob(mem, "aborts", t.set["aborts"])
      <3>1. t.set = Only("aborts", t.set["aborts"]) /\ t.set["aborts"] \in Int
        BY <2>2 DEF Only
      <3>2. "aborts" \in Single /\ t.set["aborts"] \in FieldType["aborts"]
        BY <3>1, FieldNames DEF Single, FieldType
      <3>3. Merge(mem, Only("aborts", t.set["aborts"])) = mem'
        BY <1>1, <3>1
      <3> QED BY <2>2, <3>2, <3>3, FieldTells
    <2> QED BY <1>5, <2>1, <2>2
  <1>8. Tells(job, mem, mem') /\ \A f \in Traced \ DOMAIN job.entries : mem'[f] = mem[f]
    BY <1>6, <1>7 DEF Tells
  <1> QED BY <1>1, <1>2, <1>3, <1>8, ToldIsAudited

LEMMA StepIsAudited == Inv /\ AuditInv /\ [Next]_vars => AuditInv'
  <1> SUFFICES ASSUME Inv, AuditInv, [Next]_vars PROVE AuditInv'
    OBVIOUS
  <1>1. ASSUME UNCHANGED <<mem, queue, log>> PROVE AuditInv'
    BY <1>1 DEF AuditInv
  <1>2. ASSUME NEW v \in View,
               \/ SetupCommand(v) \/ TermsCommand(v)
               \/ \E c \in Country : SetCountryCommand(v, c)
        PROVE  AuditInv'
    BY <1>2, EnsureIsAudited DEF SetupCommand, TermsCommand, SetCountryCommand, Command
  <1>3. ASSUME NEW v \in View,
               \/ \E id \in Id \cup {BadId}, b1, b2 \in Id \cup {BadId, None} :
                     Submit(v, id, b1, b2)
               \/ \E c \in Common : SelectCountry(v, c)
               \/ \E r \in Region : SelectRegion(v, r)
               \/ Preview(v) \/ Restart(v) \/ Close(v) \/ ConfirmCountry(v)
        PROVE  AuditInv'
    BY <1>1, <1>3 DEF Submit, SelectCountry, SelectRegion, Preview, Restart, Close, Show,
                      ConfirmCountry
  <1>4. ASSUME NEW v \in View, NEW b \in BOOLEAN, AnswerTerms(v, b) PROVE AuditInv'
    <2>1. mem # None /\ "tos" \in Single /\ b \in FieldType["tos"]
      BY <1>4, ClosedIsShown, FieldNames DEF AnswerTerms, Inv, ViewInv, Single, FieldType
    <2> QED BY <1>4, <2>1, OneFieldIsAudited DEF AnswerTerms
  <1>5. CASE ReadGuide \/ AcknowledgeShield
    <2>1. /\ mem # None /\ "guide" \in Single /\ "shield" \in Single
          /\ TRUE \in FieldType["guide"] /\ TRUE \in FieldType["shield"]
      BY <1>5, FieldNames DEF ReadGuide, AcknowledgeShield, Playing, Single, FieldType
    <2>2. CASE ReadGuide
      <3>1. /\ mem' = [mem EXCEPT !["guide"] = TRUE] /\ UNCHANGED log
            /\ queue' = Append(queue, Change(Only("guide", TRUE), NoEntries))
        BY <2>2 DEF ReadGuide
      <3> QED BY <2>1, <3>1, OneFieldIsAudited
    <2>3. CASE AcknowledgeShield
      <3>1. /\ mem' = [mem EXCEPT !["shield"] = TRUE] /\ UNCHANGED log
            /\ queue' = Append(queue, FieldJob(mem, "shield", TRUE))
        BY <2>3 DEF AcknowledgeShield
      <3> QED BY <2>1, <3>1, OneFieldIsAudited
    <2> QED BY <1>5, <2>2, <2>3
  <1>6. CASE ReadingCommand
    BY <1>6, EnsureIsAudited DEF ReadingCommand
  <1>7. CASE ChargeAbort \/ \E u \in Handle : Rename(u)
    BY <1>1, <1>7 DEF ChargeAbort, Rename
  <1>8. CASE PlayerStep
    BY <1>2, <1>3, <1>4, <1>5, <1>6, <1>7, <1>8, CompleteIsAudited, Zenon DEF PlayerStep
  <1>9. CASE AdminStep
    BY <1>1, <1>9, ToggleIsAudited, ResetIsAudited
       DEF AdminStep, BanPrompt, Dismiss, ResetPrompt
  <1>10. CASE WriteNext
    BY <1>10, WriteIsAudited DEF WriteNext, AuditInv, Inv, RowInv, QueueOK
  <1>11. CASE UNCHANGED vars
    BY <1>1, <1>11 DEF vars
  <1> QED BY <1>8, <1>9, <1>10, <1>11, TaskIsAudited DEF Next

\* Whichever commands, tasks, admins and matches changed the row, and whatever is
\* still to be written: the entries asked of the log for each field start at the
\* value of a new row, each begins where the last one ended, and the last one ends
\* at the value in memory.  The log lacks what it refused, and a ban without a row
\* is in it.
THEOREM LogIsTrue == Spec => []AuditTells
  <1>1. Init => AuditInv
    <2> SUFFICES ASSUME Init PROVE AuditInv
      OBVIOUS
    <2>1. /\ DOMAIN queue = {} /\ DOMAIN log.last = {} /\ mem = None
      BY DEF Init, NothingLogged, NoEntries
    <2>2. \A f : AskersIn(queue, f) = {}
      BY <2>1 DEF AskersIn
    <2>3. \A f : Said(log, f, NewRow(None)[f])
      BY <2>1 DEF Said
    <2>4. Audited(NewRow(None), log, queue)
      BY <2>2, <2>3 DEF Audited, SaysIn
    <2> QED BY <2>1, <2>2, <2>4 DEF AuditInv, Known, Unnamed
  <1>2. AuditInv => AuditTells
    BY AuditImplies
  <1> QED BY <1>1, <1>2, StepIsAudited, Invariant, PTL DEF Spec
=============================================================================
