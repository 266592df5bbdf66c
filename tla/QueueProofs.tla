----------------------------- MODULE QueueProofs -----------------------------
(***************************************************************************)
(* RemoteWrite implements DurableQueue, keeps to its cap and forgets no    *)
(* series, for every set of series and destinations and every bound, as    *)
(* long as no directory sync and no checkpoint fails and no crash falls    *)
(* between a queue file and its checkpoint.                                *)
(***************************************************************************)
EXTENDS RemoteWriteProofs, SequenceTheorems

Harmless == Faults \subseteq HarmlessFaults

(* The two holders of mu. *)
Locked == run.pc \in {"rename", "sync", "staterename", "statesync"}
Removing == \E s \in Senders : snd[s].pc = "rmsync"

(* The queue files Sender.files knows of. *)
Accepted == IF run.pc = "sync" THEN dir.rw \ {run.batch} ELSE dir.rw

(* A directory is well formed: no two files have one timestamp; a batch    *)
(* covers what the one before it had; a checkpoint that is not behind its  *)
(* files is the newest of them; and no file is older than what was posted  *)
(* last, p.                                                                *)
Distinct(bs) == \A b, c \in bs : b.ts = c.ts => b = c
Adjacent(b, c, bs) == b.ts < c.ts /\ \A e \in bs : e.ts <= b.ts \/ c.ts <= e.ts
Chained(bs) == \A b, c \in bs : Adjacent(b, c, bs) => b.active \subseteq Covers(c)
EndsInState(d) == Checkpointed(d) => d.rw = {} \/ d.state \in d.rw
NotBefore(bs, p) == \A b \in bs : p.ts <= b.ts /\ (b.ts = p.ts => b = p)
WellFormed(d, p) ==
    /\ Distinct(d.rw) /\ Chained(d.rw) /\ EndsInState(d)
    /\ NotBefore(d.rw, p) /\ p.ts <= d.state.ts

Oldest(b, bs) == b \in bs /\ \A c \in bs : b.ts <= c.ts

(* mu excludes, and a power loss leaves what every process sees, but for   *)
(* the one operation that is not yet synced.                               *)
Images ==
    /\ ~(Locked /\ Removing)
    /\ ~Removing /\ run.pc \notin {"bindsync", "sync", "statesync"} => images = {dir}
    /\ ~Removing => \A i \in images : i.rw \in {dir.rw, Accepted}
    /\ run.pc \notin {"sync", "staterename", "statesync"} =>
          \A i \in images : Checkpointed(i)
    /\ \A i \in images : WellFormed(i, posted)

(* What Run remembers of the directory and of the batch in its hands. *)
Remembers ==
    /\ Running =>
          /\ mem.files \in SortedNames(Accepted)
          /\ mem.bytes = TotalSize(Accepted)
          /\ run.pc \notin {"staterename", "statesync"} =>
                mem.timestamp = dir.state.ts /\ mem.previous = dir.state.active
    /\ run.pc \in {"enqueue", "rename", "sync"} => run.batch.ts > mem.timestamp
    /\ run.pc \in {"rename", "sync"} =>
          mem.previous \subseteq Covers(run.batch) /\ mem.bytes + Size(run.batch) <= MaxBytes
    /\ run.pc \in {"sync", "staterename", "statesync"} =>
          /\ run.batch \in dir.rw
          /\ \A c \in dir.rw \ {run.batch} : c.ts < run.batch.ts
    /\ run.pc = "staterename" => dir.state.ts < run.batch.ts
    /\ run.pc = "statesync" => dir.state = run.batch
    /\ run.pc \in {"staterename", "statesync"} =>
          mem.timestamp = run.batch.ts /\ mem.previous = run.batch.active

(* What sendOne holds is the oldest file, whatever a power loss leaves. *)
HoldsFile(s) ==
    /\ snd[s].pc \in {"read", "token", "post", "taken", "remove", "giveup"} =>
          \A i \in images : snd[s].name <= i.state.ts
    /\ snd[s].pc \in {"token", "post", "taken", "remove", "giveup"} =>
          /\ snd[s].body.ts = snd[s].name
          /\ \A i \in images : Oldest(snd[s].body, i.rw)
Holds == \A s \in Senders : HoldsFile(s)

QueueInv == Images /\ Remembers /\ Holds

(* The series the receiver shows or may yet show. *)
Shown == recv.active \cup UNION {b.active : b \in recv.late}

Covered ==
    /\ \A i \in images : \A x \in Shown : x \in ghosts \/ StillCovers(i, x)
    /\ recv.last.ts <= posted.ts /\ \A b \in recv.late : recv.last.ts < b.ts /\ b.ts <= posted.ts
    /\ \A s \in Senders :
          /\ snd[s].pc \in {"post", "taken"} => posted = snd[s].body
          /\ snd[s].pc \in {"taken", "remove"} =>
                recv.late = {} /\ \A x \in Shown : x \in ghosts \/ x \in snd[s].body.active

-----------------------------------------------------------------------------
(* Lemmas about sorted names and sizes.                                    *)

LEMMA SortedType ==
    ASSUME NEW bs \in SUBSET Batch, IsFiniteSet(bs), NEW q \in SortedNames(bs)
    PROVE  /\ q \in Seq(Nat) /\ Len(q) = Cardinality(bs) /\ DOMAIN q = 1..Len(q)
           /\ \A b \in bs : \E i \in 1..Len(q) : q[i] = b.ts
           /\ \A i \in 1..Len(q) : \E b \in bs : q[i] = b.ts
           /\ \A i, j \in 1..Len(q) : i < j => q[i] < q[j]
<1>1. Cardinality(bs) \in Nat
  BY FS_CardinalityType
<1>2. /\ q \in [1..Cardinality(bs) -> Names(bs)] /\ Increasing(q)
      /\ {q[i] : i \in DOMAIN q} = Names(bs)
  BY DEF SortedNames
<1>3. Names(bs) \subseteq Nat
  BY DEF Names, Batch
<1>4. q \in Seq(Nat) /\ Len(q) = Cardinality(bs) /\ DOMAIN q = 1..Len(q)
  BY <1>1, <1>2, <1>3
<1>5. \A b \in bs : \E i \in 1..Len(q) : q[i] = b.ts
  <2> TAKE b \in bs
  <2>1. b.ts \in {q[i] : i \in DOMAIN q}
    BY <1>2 DEF Names
  <2> QED BY <1>4, <2>1
<1>6. \A i \in 1..Len(q) : \E b \in bs : q[i] = b.ts
  BY <1>2, <1>4 DEF Names
<1> QED BY <1>2, <1>4, <1>5, <1>6 DEF Increasing

(* The converse. *)
LEMMA SortedIs ==
    ASSUME NEW bs \in SUBSET Batch, IsFiniteSet(bs), NEW q \in Seq(Nat),
           Len(q) = Cardinality(bs),
           \A b \in bs : \E i \in 1..Len(q) : q[i] = b.ts,
           \A i \in 1..Len(q) : \E b \in bs : q[i] = b.ts,
           \A i, j \in 1..Len(q) : i < j => q[i] < q[j]
    PROVE  q \in SortedNames(bs)
<1>1. DOMAIN q = 1..Cardinality(bs) /\ DOMAIN q = 1..Len(q)
  OBVIOUS
<1>2. \A i \in 1..Len(q) : q[i] \in Names(bs)
  BY DEF Names
<1>3. q \in [1..Cardinality(bs) -> Names(bs)]
  BY <1>1, <1>2
<1>4. {q[i] : i \in DOMAIN q} = Names(bs)
  BY <1>1, <1>2 DEF Names
<1>5. Increasing(q)
  BY <1>1 DEF Increasing
<1> QED BY <1>3, <1>4, <1>5 DEF SortedNames

(* The head is the oldest file. *)
LEMMA SortedHead ==
    ASSUME NEW bs \in SUBSET Batch, IsFiniteSet(bs), NEW q \in SortedNames(bs), q # <<>>
    PROVE  /\ \E b \in bs : b.ts = Head(q)
           /\ \A c \in bs : Head(q) <= c.ts
<1>1. /\ q \in Seq(Nat) /\ \A b \in bs : \E i \in 1..Len(q) : q[i] = b.ts
      /\ \A i \in 1..Len(q) : \E b \in bs : q[i] = b.ts
      /\ \A i, j \in 1..Len(q) : i < j => q[i] < q[j]
  BY SortedType
<1>2. Head(q) = q[1] /\ 1 \in 1..Len(q)
  BY <1>1
<1>3. ASSUME NEW c \in bs PROVE q[1] <= c.ts
  <2>1. PICK i \in 1..Len(q) : q[i] = c.ts
    BY <1>1
  <2>2. q[1] \in Nat /\ q[i] \in Nat
    BY <1>1, <1>2, ElementOfSeq
  <2>3. CASE i = 1
    BY <2>1, <2>2, <2>3
  <2>4. CASE 1 < i
    <3>1. q[1] < q[i]
      BY ONLY <1>1, <1>2, <2>4
    <3> QED BY <2>1, <2>2, <3>1
  <2>5. i = 1 \/ 1 < i
    BY <1>1
  <2> QED BY <2>3, <2>4, <2>5
<1> QED BY <1>1, <1>2, <1>3

(* enqueue appends the newest, *)
LEMMA SortedAppend ==
    ASSUME NEW bs \in SUBSET Batch, IsFiniteSet(bs), NEW q \in SortedNames(bs),
           NEW b \in Batch, \A c \in bs : c.ts < b.ts
    PROVE  Append(q, b.ts) \in SortedNames(bs \cup {b})
<1> DEFINE r == Append(q, b.ts)
           cs == bs \cup {b}
<1>1. /\ q \in Seq(Nat) /\ Len(q) = Cardinality(bs)
      /\ \A c \in bs : \E i \in 1..Len(q) : q[i] = c.ts
      /\ \A i \in 1..Len(q) : \E c \in bs : q[i] = c.ts
      /\ \A i, j \in 1..Len(q) : i < j => q[i] < q[j]
  BY SortedType
<1>2. b.ts \in Nat /\ b \notin bs
  BY DEF Batch
<1>3. IsFiniteSet(cs) /\ Cardinality(cs) = Cardinality(bs) + 1
  BY <1>2, FS_AddElement
<1>4. /\ r \in Seq(Nat) /\ Len(r) = Len(q) + 1 /\ r[Len(q) + 1] = b.ts
      /\ \A i \in 1..Len(q) : r[i] = q[i]
      /\ \A i \in 1..Len(r) : i \in 1..Len(q) \/ i = Len(q) + 1
      /\ Len(q) + 1 \in 1..Len(r) /\ 1..Len(q) \subseteq 1..Len(r)
  <2>1. q \in Seq(Nat) /\ b.ts \in Nat
    BY <1>1, <1>2
  <2>2. /\ r \in Seq(Nat) /\ Len(r) = Len(q) + 1 /\ r[Len(q) + 1] = b.ts
        /\ \A i \in 1..Len(q) : r[i] = q[i]
    BY ONLY <2>1
  <2>3. Len(q) \in Nat
    BY ONLY <2>1
  <2> HIDE DEF r
  <2> QED BY ONLY <2>2, <2>3
<1> HIDE DEF r
<1>5. \A c \in cs : \E i \in 1..Len(r) : r[i] = c.ts
  BY <1>1, <1>4
<1>6. \A i \in 1..Len(r) : \E c \in cs : r[i] = c.ts
  <2> TAKE i \in 1..Len(r)
  <2>1. CASE i \in 1..Len(q)
    BY ONLY <1>1, <1>4, <2>1 DEF cs
  <2>2. CASE i = Len(q) + 1
    BY ONLY <1>4, <2>2 DEF cs
  <2> QED BY <1>4, <2>1, <2>2
<1>7. ASSUME NEW i \in 1..Len(r), NEW j \in 1..Len(r), i < j PROVE r[i] < r[j]
  <2>0. Len(q) \in Nat
    BY <1>1
  <2>1. i \in 1..Len(q)
    BY ONLY <1>4, <1>7, <2>0
  <2>2. CASE j \in 1..Len(q)
    <3>1. q[i] < q[j]
      BY ONLY <1>1, <1>7, <2>1, <2>2
    <3> QED BY ONLY <1>4, <2>1, <2>2, <3>1
  <2>3. CASE j = Len(q) + 1
    <3>1. PICK c \in bs : q[i] = c.ts
      BY <1>1, <2>1, Zenon
    <3>2. c.ts < b.ts
      OBVIOUS
    <3> QED BY ONLY <1>4, <2>1, <2>3, <3>1, <3>2
  <2> QED BY <1>4, <2>2, <2>3
<1>8. cs \in SUBSET Batch /\ Len(r) = Cardinality(cs) /\ r \in Seq(Nat)
  BY <1>1, <1>3, <1>4
<1> HIDE DEF cs
<1>9. r \in SortedNames(cs)
  BY <1>3, <1>5, <1>6, <1>7, <1>8, SortedIs
<1> QED BY <1>9 DEF r, cs

(* and sendOne pops the oldest. *)
LEMMA SortedTail ==
    ASSUME NEW bs \in SUBSET Batch, IsFiniteSet(bs), NEW q \in SortedNames(bs),
           NEW b \in bs, q # <<>>, Head(q) = b.ts, Distinct(bs)
    PROVE  Tail(q) \in SortedNames(bs \ {b})
<1> DEFINE r == Tail(q)
           cs == bs \ {b}
<1>1. /\ q \in Seq(Nat) /\ Len(q) = Cardinality(bs)
      /\ \A c \in bs : \E i \in 1..Len(q) : q[i] = c.ts
      /\ \A i \in 1..Len(q) : \E c \in bs : q[i] = c.ts
      /\ \A i, j \in 1..Len(q) : i < j => q[i] < q[j]
  BY SortedType
<1>2. IsFiniteSet(cs) /\ Cardinality(cs) = Cardinality(bs) - 1
  BY FS_RemoveElement
<1>3. /\ r \in Seq(Nat) /\ Len(r) = Len(q) - 1 /\ q[1] = b.ts /\ 1 \in 1..Len(q)
      /\ \A i \in 1..Len(r) : r[i] = q[i + 1] /\ i + 1 \in 1..Len(q) /\ 1 < i + 1
      /\ \A i \in 1..Len(q) : i = 1 \/ (i - 1 \in 1..Len(r) /\ r[i - 1] = q[i])
  <2>1. /\ r \in Seq(Nat) /\ Len(r) = Len(q) - 1
        /\ \A i \in 1..Len(r) : r[i] = q[i + 1]
    BY <1>1, HeadTailProperties
  <2>2. Len(q) \in Nat /\ Len(q) # 0 /\ q[1] = b.ts
    <3>1. q \in Seq(Nat) /\ q # <<>> /\ Head(q) = b.ts
      BY <1>1
    <3> QED BY ONLY <3>1
  <2> HIDE DEF r
  <2>3. \A i \in 1..Len(r) : i + 1 \in 1..Len(q) /\ 1 < i + 1
    BY <2>1, <2>2
  <2>4. ASSUME NEW i \in 1..Len(q), i # 1
        PROVE  i - 1 \in 1..Len(r) /\ r[i - 1] = q[i]
    <3>1. i - 1 \in 1..Len(r) /\ (i - 1) + 1 = i
      BY <2>1, <2>2, <2>4
    <3> QED BY <2>1, <3>1
  <2> QED BY <2>1, <2>2, <2>3, <2>4
<1> HIDE DEF r
<1>4. \A c \in cs : \E i \in 1..Len(r) : r[i] = c.ts
  <2> TAKE c \in cs
  <2>1. PICK i \in 1..Len(q) : q[i] = c.ts
    BY <1>1
  <2>2. i # 1
    BY <1>3, <2>1 DEF Distinct
  <2> QED BY <1>3, <2>1, <2>2
<1>5. \A i \in 1..Len(r) : \E c \in cs : r[i] = c.ts
  <2> TAKE i \in 1..Len(r)
  <2>1. PICK c \in bs : r[i] = c.ts
    <3>1. r[i] = q[i + 1] /\ i + 1 \in 1..Len(q)
      BY ONLY <1>3, i \in 1..Len(r)
    <3>2. \E c \in bs : q[i + 1] = c.ts
      BY <1>1, <3>1, Zenon
    <3> QED BY <3>1, <3>2
  <2>2. q[1] < q[i + 1] /\ q[1] \in Nat
    <3>1. q[1] \in Nat
      BY <1>1, <1>3, ElementOfSeq
    <3> QED BY <1>1, <1>3, <3>1
  <2>3. c # b
    BY <1>3, <2>1, <2>2
  <2> QED BY <2>1, <2>3
<1>6. ASSUME NEW i \in 1..Len(r), NEW j \in 1..Len(r), i < j PROVE r[i] < r[j]
  BY <1>1, <1>3, <1>6
<1>7. cs \in SUBSET Batch /\ Len(r) = Cardinality(cs) /\ r \in Seq(Nat)
  BY <1>1, <1>2, <1>3
<1> HIDE DEF cs
<1>8. r \in SortedNames(cs)
  BY <1>2, <1>4, <1>5, <1>6, <1>7, SortedIs
<1> QED BY <1>8 DEF r, cs

(* A queue of more files is not smaller; *)
LEMMA TotalSubset ==
    ASSUME NEW bs, IsFiniteSet(bs), NEW as \in SUBSET bs
    PROVE  TotalSize(as) <= TotalSize(bs)
<1> DEFINE A == {p \in as \X Series : p[2] \in Covers(p[1])}
           B == {p \in bs \X Series : p[2] \in Covers(p[1])}
<1>1. IsFiniteSet(B)
  <2>1. IsFiniteSet(bs \X Series)
    BY SeriesAssumption, FS_Product
  <2> QED BY <2>1, FS_Subset
<1>2. A \in SUBSET B
  OBVIOUS
<1> QED BY <1>1, <1>2, FS_Subset DEF TotalSize

(* one more batch adds its size. *)
LEMMA TotalAdd ==
    ASSUME NEW bs, IsFiniteSet(bs), NEW b \in Batch, b \notin bs
    PROVE  TotalSize(bs \cup {b}) = TotalSize(bs) + Size(b)
<1> DEFINE A == {p \in bs \X Series : p[2] \in Covers(p[1])}
           B == {p \in (bs \cup {b}) \X Series : p[2] \in Covers(p[1])}
           C == {b} \X Covers(b)
<1>1. IsFiniteSet(A)
  <2>1. IsFiniteSet(bs \X Series)
    BY SeriesAssumption, FS_Product
  <2> QED BY <2>1, FS_Subset
<1>2. Covers(b) \subseteq Series
  BY DEF Covers, Batch
<1>3. IsFiniteSet(Covers(b))
  BY <1>2, SeriesAssumption, FS_Subset
<1>4. IsFiniteSet({b}) /\ Cardinality({b}) = 1
  BY FS_Singleton
<1>5. IsFiniteSet(C) /\ Cardinality(C) = Cardinality(Covers(b))
  <2>1. Cardinality(Covers(b)) \in Nat
    BY <1>3, FS_CardinalityType
  <2>2. IsFiniteSet(C) /\ Cardinality(C) = 1 * Cardinality(Covers(b))
    BY <1>3, <1>4, FS_Product
  <2> QED BY <2>1, <2>2
<1>6. B = A \cup C
  BY <1>2
<1>7. A \cap C = {}
  OBVIOUS
<1>8. Cardinality(A) \in Nat /\ Cardinality(C) \in Nat
  BY <1>1, <1>5, FS_CardinalityType
<1>9. Cardinality(A \cup C) = Cardinality(A) + Cardinality(C) - Cardinality(A \cap C)
  BY <1>1, <1>5, FS_Union
<1>10. Cardinality(A \cap C) = 0
  BY <1>7, FS_EmptySet
<1> HIDE DEF A, B, C
<1>11. Cardinality(B) = Cardinality(A) + Cardinality(C)
  BY <1>6, <1>8, <1>9, <1>10
<1> QED BY <1>5, <1>11 DEF TotalSize, Size, A, B

-----------------------------------------------------------------------------
(* Lemmas about the directory operations.                                  *)

(* restore goes on from the checkpoint. *)
LEMMA RestoresState ==
    ASSUME NEW d \in Directory, NEW p, WellFormed(d, p), Checkpointed(d)
    PROVE  Restored(d) = {d.state}
<1> DEFINE newest == {b \in d.rw : \A c \in d.rw : c.ts <= b.ts}
<1>1. CASE \E b \in newest : b.ts >= d.state.ts
  <2>1. PICK b \in newest : b.ts >= d.state.ts
    BY <1>1
  <2>2. /\ d.state \in d.rw /\ \A c \in d.rw : c.ts \in Nat /\ c.ts <= d.state.ts
        /\ Distinct(d.rw)
    BY <2>1 DEF WellFormed, EndsInState, Checkpointed, Directory, Batch
  <2>3. d.state \in newest
    BY <2>2
  <2>4. \A c \in newest : c = d.state
    BY <2>2 DEF Distinct
  <2>5. newest = {d.state}
    BY <2>3, <2>4
  <2> QED BY <1>1, <2>5 DEF Restored
<1>2. CASE ~\E b \in newest : b.ts >= d.state.ts
  BY <1>2 DEF Restored
<1> QED BY <1>1, <1>2

(* A newer batch is put behind the others. *)
LEMMA AddNewest ==
    ASSUME NEW d \in Directory, NEW p \in Batch \cup {NoBatch}, WellFormed(d, p),
           Checkpointed(d), NEW b \in Batch, d.state.ts < b.ts,
           d.state.active \subseteq Covers(b)
    PROVE  /\ AddFile(d, b).rw = d.rw \cup {b} /\ AddFile(d, b).state = d.state
           /\ \A c \in d.rw : c.ts < b.ts
           /\ WellFormed(AddFile(d, b), p) /\ ~Checkpointed(AddFile(d, b))
<1> DEFINE e == AddFile(d, b)
<1>1. /\ \A c \in d.rw : c.ts \in Nat /\ c.ts <= d.state.ts
      /\ d.state.ts \in Nat /\ b.ts \in Nat /\ p.ts \in Nat
  BY DEF Checkpointed, Directory, Batch, NoBatch
<1>2. \A c \in d.rw : c.ts < b.ts
  BY <1>1
<1>3. e.rw = d.rw \cup {b} /\ e.state = d.state
  <2>1. {c \in d.rw : c.ts # b.ts} = d.rw
    BY <1>1, <1>2
  <2> QED BY <2>1 DEF AddFile, Directory
<1> HIDE DEF e
<1>4. ~Checkpointed(e)
  BY <1>1, <1>3 DEF Checkpointed
<1>5. Distinct(e.rw)
  BY <1>1, <1>2, <1>3 DEF WellFormed, Distinct
<1>6. ASSUME NEW x \in e.rw, NEW y \in e.rw, Adjacent(x, y, e.rw)
      PROVE  x.active \subseteq Covers(y)
  <2>1. x # b
    BY <1>1, <1>2, <1>3, <1>6 DEF Adjacent
  <2>2. CASE y # b
    BY <1>3, <1>6, <2>1, <2>2 DEF Adjacent, WellFormed, Chained
  <2>3. CASE y = b
    <3>1. d.state \in d.rw
      BY <1>3, <2>1 DEF WellFormed, EndsInState
    <3>2. d.state.ts <= x.ts
      BY <1>1, <1>2, <1>3, <1>6, <2>3, <3>1 DEF Adjacent
    <3>3. x = d.state
      BY <1>1, <1>3, <2>1, <3>1, <3>2 DEF WellFormed, Distinct
    <3> QED BY <2>3, <3>3
  <2> QED BY <2>2, <2>3
<1>7. NotBefore(e.rw, p) /\ p.ts <= e.state.ts
  BY <1>1, <1>3 DEF WellFormed, NotBefore
<1>8. WellFormed(e, p)
  BY <1>4, <1>5, <1>6, <1>7 DEF WellFormed, Chained, EndsInState
<1> QED BY <1>2, <1>3, <1>4, <1>8 DEF e

(* The checkpoint follows the newest file. *)
LEMMA StateFollows ==
    ASSUME NEW d \in Directory, NEW p, WellFormed(d, p),
           NEW b \in d.rw, \A c \in d.rw \ {b} : c.ts < b.ts
    PROVE  /\ SetState(d, b).rw = d.rw /\ SetState(d, b).state = b
           /\ WellFormed(SetState(d, b), p) /\ Checkpointed(SetState(d, b))
<1>1. SetState(d, b).rw = d.rw /\ SetState(d, b).state = b
  BY DEF SetState, Directory
<1>2. \A c \in d.rw : c.ts <= b.ts
  BY DEF Directory, Batch
<1> QED BY <1>1, <1>2 DEF WellFormed, Checkpointed, EndsInState, NotBefore

(* The oldest file leaves. *)
LEMMA DropOldest ==
    ASSUME NEW d \in Directory, NEW p, WellFormed(d, p), Checkpointed(d),
           NEW b, Oldest(b, d.rw)
    PROVE  /\ DropFile(d, b.ts).rw = d.rw \ {b} /\ DropFile(d, b.ts).state = d.state
           /\ WellFormed(DropFile(d, b.ts), p) /\ Checkpointed(DropFile(d, b.ts))
<1> DEFINE e == DropFile(d, b.ts)
<1>1. /\ \A c \in d.rw : c.ts \in Nat /\ c.ts <= d.state.ts /\ b.ts <= c.ts
      /\ b \in d.rw /\ Distinct(d.rw)
  BY DEF Checkpointed, Directory, Batch, Oldest, WellFormed
<1>2. e.rw = d.rw \ {b} /\ e.state = d.state
  BY <1>1 DEF DropFile, Directory, Distinct
<1> HIDE DEF e
<1>3. Distinct(e.rw) /\ Checkpointed(e)
  BY <1>1, <1>2 DEF Distinct, Checkpointed
<1>4. ASSUME NEW x \in e.rw, NEW y \in e.rw, Adjacent(x, y, e.rw)
      PROVE  x.active \subseteq Covers(y)
  <2>1. Adjacent(x, y, d.rw)
    BY <1>1, <1>2, <1>4 DEF Adjacent
  <2> QED BY <1>2, <2>1 DEF WellFormed, Chained
<1>5. e.rw = {} \/ e.state \in e.rw
  <2>1. d.state \in d.rw
    BY <1>1 DEF WellFormed, EndsInState
  <2>2. CASE d.state = b
    BY <1>1, <1>2, <2>2 DEF Distinct
  <2> QED BY <1>2, <2>1, <2>2
<1>6. NotBefore(e.rw, p) /\ p.ts <= e.state.ts
  BY <1>2 DEF WellFormed, NotBefore
<1>7. WellFormed(e, p)
  BY <1>3, <1>4, <1>5, <1>6 DEF WellFormed, Chained, EndsInState
<1> QED BY <1>2, <1>3, <1>7 DEF e

-----------------------------------------------------------------------------
(* The invariant is inductive.                                             *)

LEMMA QueueInit == Init => QueueInv
<1> SUFFICES ASSUME Init PROVE QueueInv
  OBVIOUS
<1>1. /\ run.pc = "off" /\ images = {dir} /\ posted = NoBatch
      /\ dir.rw = {} /\ dir.state = NoBatch /\ \A s \in Senders : snd[s].pc = "off"
  BY DEF Init, NoRun, NoSend
<1>2. WellFormed(dir, posted) /\ Checkpointed(dir)
  BY <1>1 DEF WellFormed, Distinct, Chained, EndsInState, NotBefore, Checkpointed, NoBatch
<1> QED BY <1>1, <1>2 DEF QueueInv, Images, Remembers, Holds, HoldsFile, Locked, Removing,
                          Running, Accepted

(* What the types say here. *)
LEMMA Types ==
    ASSUME TypeInv
    PROVE  /\ dir \in images /\ dir \in Directory /\ images \in SUBSET Directory
           /\ run \in RunState /\ snd \in [Senders -> SendState] /\ mem \in Memory
           /\ mem.timestamp \in Nat /\ posted \in Batch \cup {NoBatch}
           /\ dir.rw \in SUBSET Batch /\ IsFiniteSet(dir.rw)
           /\ \A i \in images : /\ i.rw \in SUBSET Batch /\ IsFiniteSet(i.rw)
                                 /\ i.state.ts \in Nat
           /\ Accepted \in SUBSET Batch /\ IsFiniteSet(Accepted)
           /\ (Locked => run.batch \in Batch)
<1>1. /\ dir \in images /\ dir \in Directory /\ images \in SUBSET Directory
      /\ run \in RunState /\ snd \in [Senders -> SendState] /\ mem \in Memory
      /\ mem.timestamp \in Nat /\ posted \in Batch \cup {NoBatch}
      /\ IsFiniteSet(dir.rw) /\ \A i \in images : IsFiniteSet(i.rw)
      /\ (Locked => run.batch \in Batch)
  BY DEF TypeInv, TypeOK, Finite, WholeBatch, Locked, Memory
<1>2. \A i \in images : i.rw \in SUBSET Batch /\ i.state.ts \in Nat
  BY <1>1 DEF Directory, Batch, NoBatch
<1>3. IsFiniteSet(dir.rw \ {run.batch})
  BY <1>1, FS_RemoveElement
<1> QED BY <1>1, <1>2, <1>3 DEF Accepted

(* One sender at a time. *)
LEMMA OneSender ==
    ASSUME Threads, NEW s \in Senders, NEW r \in Senders \ {s}, snd[s].pc # "off"
    PROVE  snd[r].pc = "off" /\ Running
BY DEF Threads, Senders, Running

(* A step of Run that touches neither the directory nor what it remembers. *)
LEMMA RunMoves ==
    ASSUME QueueInv, UNCHANGED <<dir, images, mem, snd, posted>>,
           Running' => Running,
           \/ /\ run.pc \notin {"bindsync", "sync", "staterename", "statesync"}
              /\ run'.pc \notin {"bindsync", "sync", "staterename", "statesync"}
           \/ run'.pc = run.pc /\ run'.batch = run.batch,
           run'.pc = "enqueue" => run'.batch.ts > mem.timestamp,
           run'.pc = "rename" =>
               /\ run'.batch.ts > mem.timestamp /\ ~Removing
               /\ mem.previous \subseteq Covers(run'.batch)
               /\ mem.bytes + Size(run'.batch) <= MaxBytes
    PROVE  QueueInv'
<1>1. Accepted' = Accepted /\ Removing' = Removing
  BY DEF Accepted, Removing
<1>2. Images'
  BY <1>1 DEF QueueInv, Images, Locked
<1>3. Remembers'
  BY <1>1 DEF QueueInv, Remembers
<1>4. Holds'
  BY DEF QueueInv, Holds, HoldsFile
<1> QED BY <1>2, <1>3, <1>4 DEF QueueInv

(* So for a sender. *)
LEMMA SendMoves ==
    ASSUME QueueInv, UNCHANGED <<dir, images, mem, run, posted>>, NEW s \in Senders,
           snd[s].pc # "rmsync", snd'[s].pc # "rmsync",
           \A r \in Senders \ {s} : snd'[r] = snd[r], HoldsFile(s)'
    PROVE  QueueInv'
<1>1. Accepted' = Accepted /\ Removing' = Removing
  BY DEF Accepted, Removing
<1>2. Images'
  BY <1>1 DEF QueueInv, Images, Locked
<1>3. Remembers'
  BY <1>1 DEF QueueInv, Remembers, Running
<1>4. Holds'
  BY DEF QueueInv, Holds, HoldsFile
<1> QED BY <1>2, <1>3, <1>4 DEF QueueInv

LEMMA BootStep ==
    ASSUME TypeInv, Threads, QueueInv, Boot PROVE QueueInv'
<1>1. CASE \E d \in Destinations : Start(d)
  BY <1>1, RunMoves DEF Start, NoRun, Running
<1>2. ~Running => ~Removing /\ \A s \in Senders : snd[s].pc = "off"
  BY DEF Threads, Removing
<1>3. CASE RenameManifest
  <2>1. /\ run.pc = "bind" /\ run' = [run EXCEPT !.pc = "bindsync"]
        /\ dir' = SetOwner(dir, run.dest)
        /\ UNCHANGED <<mem, snd, posted>>
    BY <1>3 DEF RenameManifest, RunGoto
  <2>2. ~Running /\ ~Removing /\ images = {dir} /\ Checkpointed(dir) /\ WellFormed(dir, posted)
    BY <1>2, <2>1, Types DEF QueueInv, Images, Running
  <2>3. images' = {dir, dir'}
    BY <1>3, <2>1, <2>2 DEF RenameManifest
  <2>4. dir'.rw = dir.rw /\ dir'.state = dir.state
    BY <2>1, Types DEF SetOwner, Directory
  <2>5. Checkpointed(dir') /\ WellFormed(dir', posted)
    BY <2>2, <2>4 DEF Checkpointed, WellFormed, EndsInState
  <2>6. run'.pc = "bindsync"
    BY <2>1, Types DEF RunState
  <2>7. Images'
    BY <1>2, <2>1, <2>2, <2>3, <2>4, <2>5, <2>6 DEF Images, Locked, Removing, Accepted
  <2>8. Remembers'
    BY <2>6 DEF Remembers, Running
  <2>9. Holds'
    BY <1>2, <2>1, <2>2 DEF Holds, HoldsFile
  <2> QED BY <2>7, <2>8, <2>9 DEF QueueInv
<1>4. CASE SyncManifest
  <2>1. /\ run.pc = "bindsync" /\ run' = [run EXCEPT !.pc = "restore"]
        /\ images' = {dir} /\ UNCHANGED <<dir, mem, snd, posted>>
    BY <1>4 DEF SyncManifest, RunGoto
  <2>2. ~Running /\ ~Removing /\ Checkpointed(dir) /\ WellFormed(dir, posted)
    BY <1>2, <2>1, Types DEF QueueInv, Images, Running
  <2>3. run'.pc = "restore"
    BY <2>1, Types DEF RunState
  <2>4. Images'
    BY <2>1, <2>2, <2>3 DEF Images, Locked, Removing, Accepted
  <2>5. Remembers'
    BY <2>3 DEF Remembers, Running
  <2>6. Holds'
    BY <1>2, <2>1, <2>2 DEF Holds, HoldsFile
  <2> QED BY <2>4, <2>5, <2>6 DEF QueueInv
<1>5. CASE Restore
  <2>1. /\ run.pc = "restore" /\ run' = [run EXCEPT !.pc = "loop"]
        /\ snd' = [snd EXCEPT !["deliver"].pc = "loop"]
        /\ UNCHANGED <<dir, images, posted>>
    BY <1>5 DEF Restore, RunGoto
  <2>2. ~Running /\ ~Removing /\ Checkpointed(dir) /\ WellFormed(dir, posted)
        /\ images = {dir}
    BY <1>2, <2>1, Types DEF QueueInv, Images, Running
  <2>3. run'.pc = "loop"
    BY <2>1, Types DEF RunState
  <2>4. \A s \in Senders : snd'[s].pc \in {"loop", "off"}
    BY <1>2, <2>1, <2>2, Types DEF SendState, Senders
  <2>5. Images'
    BY <2>1, <2>2, <2>3, <2>4 DEF Images, Locked, Removing, Accepted
  <2>6. PICK q \in SortedNames(dir.rw), b \in Restored(dir) :
          mem' = [files |-> q, bytes |-> TotalSize(dir.rw),
                  previous |-> b.active, timestamp |-> b.ts]
    BY <1>5 DEF Restore
  <2>7. b = dir.state
    BY <2>2, <2>6, RestoresState, Types
  <2>8. Remembers'
    BY <2>1, <2>3, <2>6, <2>7 DEF Remembers, Running, Accepted
  <2>9. Holds'
    BY <2>4 DEF Holds, HoldsFile
  <2> QED BY <2>5, <2>8, <2>9 DEF QueueInv
<1>6. CASE RestoreRefused
  BY <1>6, RunMoves DEF RestoreRefused, NoRun, Running
<1> QED BY <1>1, <1>3, <1>4, <1>5, <1>6 DEF Boot

(* The thread of Run between two directory operations. *)
LEMMA LoopStep ==
    ASSUME TypeInv, QueueInv, Harmless,
           RunLoop \/ Gather \/ Stamp \/ Enqueue \/ EnqueueFails \/ Join \/ Cancel
    PROVE  QueueInv'
<1>1. run \in RunState /\ mem.timestamp \in Nat
  BY Types
<1>2. CASE RunLoop \/ Gather \/ Join
  <2>1. /\ run.pc \in {"loop", "tick", "collect", "join"}
        /\ run'.pc \in {"loop", "tick", "collect", "join", "stamp"}
        /\ UNCHANGED <<dir, images, mem, snd, posted>>
    BY <1>1, <1>2 DEF RunLoop, Gather, Join, RunGoto, RunState
  <2> QED BY <2>1, RunMoves DEF Running
<1>3. CASE Cancel
  <2>1. run'.pc = run.pc /\ run'.batch = run.batch /\ UNCHANGED <<dir, images, mem, snd, posted>>
    BY <1>1, <1>3 DEF Cancel, RunState
  <2> QED BY <2>1, RunMoves DEF Running, QueueInv, Images, Remembers, Locked
<1>4. CASE Stamp
  <2>1. PICK now \in 1..MaxTs :
          run' = [run EXCEPT !.pc = "enqueue", !.batch.ts = NextTimestamp(now)]
    BY <1>4 DEF Stamp
  <2>2. run'.pc = "enqueue" /\ run'.batch.ts = NextTimestamp(now)
    BY <1>1, <2>1 DEF RunState, Draft
  <2>3. NextTimestamp(now) > mem.timestamp
    BY <1>1, BoundsAssumption DEF NextTimestamp
  <2> QED BY <1>4, <2>2, <2>3, RunMoves DEF Stamp, Running
<1>5. CASE Enqueue
  <2> DEFINE b == [run.batch EXCEPT !.to = run.dest, !.stale =
                      Vanished(run.batch.active, mem.previous)]
  <2>1. /\ run.pc = "enqueue" /\ MuFree /\ UNCHANGED <<dir, images, mem, snd, posted>>
        /\ \/ Fits(b) /\ run' = [run EXCEPT !.pc = "rename", !.batch = b]
           \/ EnqueueReturns
    BY <1>5 DEF Enqueue
  <2>2. b.ts = run.batch.ts /\ mem.previous \subseteq Covers(b)
    BY <1>1 DEF RunState, Draft, Covers, Vanished
  <2>3. ~Removing /\ b.ts > mem.timestamp
    BY <2>1, <2>2 DEF MuFree, Removing, QueueInv, Remembers
  <2> HIDE DEF b
  <2>4. CASE Fits(b) /\ run' = [run EXCEPT !.pc = "rename", !.batch = b]
    <3>1. run'.pc = "rename" /\ run'.batch = b
      BY <1>1, <2>4 DEF RunState
    <3> QED BY <2>1, <2>2, <2>3, <2>4, <3>1, RunMoves DEF Running, Fits
  <2>5. CASE EnqueueReturns
    <3>1. run'.pc \in {"flush", "tick"}
      BY <1>1, <2>5 DEF EnqueueReturns, RunState
    <3> QED BY <2>1, <3>1, RunMoves DEF Running
  <2> QED BY <2>1, <2>4, <2>5
<1>6. CASE EnqueueFails
  <2>1. run.pc = "rename" /\ EnqueueReturns /\ UNCHANGED <<dir, images, mem, snd, posted>>
    BY <1>6 DEF EnqueueFails, Harmless, HarmlessFaults
  <2>2. run'.pc \in {"flush", "tick"}
    BY <1>1, <2>1 DEF EnqueueReturns, RunState
  <2> QED BY <2>1, <2>2, RunMoves DEF Running
<1> QED BY <1>2, <1>3, <1>4, <1>5, <1>6

(* Where RenameQueueFile finds the directory and leaves it. *)
LEMMA Renames ==
    ASSUME TypeInv, QueueInv, RenameQueueFile
    PROVE  /\ images = {dir} /\ images' = {dir, dir'} /\ dir' = AddFile(dir, run.batch)
           /\ run' = [run EXCEPT !.pc = "sync"] /\ UNCHANGED <<mem, snd, posted>>
           /\ run'.pc = "sync" /\ run'.batch = run.batch
           /\ dir'.rw = dir.rw \cup {run.batch} /\ dir'.state = dir.state
           /\ run.batch \in Batch /\ \A c \in dir.rw : c.ts < run.batch.ts
           /\ Running /\ run.pc = "rename" /\ run.batch.ts > dir.state.ts
           /\ dir.state.active \subseteq Covers(run.batch)
           /\ Checkpointed(dir) /\ ~Checkpointed(dir') /\ WellFormed(dir', posted)
<1>1. /\ run.pc = "rename" /\ dir' = AddFile(dir, run.batch)
      /\ images' = images \cup {AddFile(i, run.batch) : i \in images}
      /\ run' = [run EXCEPT !.pc = "sync"] /\ UNCHANGED <<mem, snd, posted>>
  BY DEF RenameQueueFile, RunGoto
<1>2. /\ images = {dir} /\ run.batch \in Batch /\ Running
      /\ WellFormed(dir, posted) /\ Checkpointed(dir)
  BY <1>1, Types DEF QueueInv, Images, Locked, Running
<1>3. /\ run.batch.ts > dir.state.ts /\ dir.state.active \subseteq Covers(run.batch)
  BY <1>1, <1>2 DEF QueueInv, Remembers
<1>4. run'.pc = "sync" /\ run'.batch = run.batch
  BY <1>1, Types DEF RunState
<1>5. dir \in Directory /\ posted \in Batch \cup {NoBatch} /\ dir.state.ts < run.batch.ts
  BY <1>3, Types
<1>6. /\ dir'.rw = dir.rw \cup {run.batch} /\ dir'.state = dir.state
      /\ \A c \in dir.rw : c.ts < run.batch.ts
      /\ ~Checkpointed(dir') /\ WellFormed(dir', posted)
  BY <1>1, <1>2, <1>3, <1>5, AddNewest
<1> QED BY <1>1, <1>2, <1>3, <1>4, <1>6

LEMMA EnqueueStep ==
    ASSUME TypeInv, QueueInv, RenameQueueFile \/ SyncQueueFile \/ RenameState \/ SyncState
    PROVE  QueueInv'
<1>1. CASE RenameQueueFile
  <2>1. /\ images = {dir} /\ images' = {dir, dir'}
        /\ UNCHANGED <<mem, snd, posted>> /\ run'.pc = "sync" /\ run'.batch = run.batch
        /\ dir'.rw = dir.rw \cup {run.batch} /\ dir'.state = dir.state
        /\ run.batch \in Batch /\ \A c \in dir.rw : c.ts < run.batch.ts
        /\ Running /\ run.pc = "rename"
        /\ WellFormed(dir', posted)
    BY <1>1, Renames
  <2>2. run.batch \notin dir.rw
    BY <2>1 DEF Batch
  <2>3. Accepted' = dir.rw /\ Accepted = dir.rw
    BY <2>1, <2>2 DEF Accepted
  <2>4. Removing' = Removing /\ ~Removing
    BY <2>1 DEF Removing, QueueInv, Images, Locked
  <2>5. Images'
    BY <2>1, <2>3, <2>4 DEF QueueInv, Images, Locked
  <2>6. Remembers'
    BY <2>1, <2>3 DEF QueueInv, Remembers
  <2>7. ASSUME NEW s \in Senders PROVE HoldsFile(s)'
    <3>1. HoldsFile(s)
      BY DEF QueueInv, Holds
    <3>2. ASSUME NEW b, Oldest(b, dir.rw) PROVE Oldest(b, dir'.rw)
      <4>1. \A c \in dir.rw : c.ts \in Nat /\ run.batch.ts \in Nat
        BY <2>1, Types DEF Batch
      <4> QED BY <2>1, <3>2, <4>1 DEF Oldest
    <3> QED BY <2>1, <3>1, <3>2 DEF HoldsFile
  <2> QED BY <2>5, <2>6, <2>7 DEF QueueInv, Holds
<1>2. CASE SyncQueueFile
  <2>1. /\ run.pc = "sync" /\ images' = {dir} /\ run' = [run EXCEPT !.pc = "staterename"]
        /\ mem' = [files |-> Append(mem.files, run.batch.ts),
                   bytes |-> mem.bytes + Size(run.batch),
                   previous |-> run.batch.active, timestamp |-> run.batch.ts]
        /\ UNCHANGED <<dir, snd, posted>>
    BY <1>2 DEF SyncQueueFile, RunGoto
  <2>2. run'.pc = "staterename" /\ run'.batch = run.batch
    BY <2>1, Types DEF RunState
  <2>3. Removing' = Removing /\ ~Removing
    BY <2>1 DEF Removing, QueueInv, Images, Locked
  <2>4. /\ run.batch \in dir.rw /\ \A c \in dir.rw \ {run.batch} : c.ts < run.batch.ts
        /\ run.batch.ts > dir.state.ts
        /\ mem.files \in SortedNames(dir.rw \ {run.batch})
        /\ mem.bytes = TotalSize(dir.rw \ {run.batch})
    BY <2>1 DEF QueueInv, Remembers, Running, Accepted
  <2>5. /\ dir \in images /\ run.batch \in Batch /\ dir.rw \ {run.batch} \in SUBSET Batch
        /\ IsFiniteSet(dir.rw \ {run.batch})
        /\ (dir.rw \ {run.batch}) \cup {run.batch} = dir.rw
    BY <2>1, <2>4, Types DEF Locked, Accepted
  <2>6. Append(mem.files, run.batch.ts) \in SortedNames(dir.rw)
    BY <2>4, <2>5, SortedAppend
  <2>7. mem.bytes + Size(run.batch) = TotalSize(dir.rw)
    BY <2>4, <2>5, TotalAdd
  <2>8. Images'
    BY <2>1, <2>2, <2>3, <2>5 DEF QueueInv, Images, Locked, Accepted
  <2>9. Remembers'
    BY <2>1, <2>2, <2>4, <2>6, <2>7 DEF Remembers, Accepted
  <2>10. Holds'
    BY <2>1, <2>5 DEF QueueInv, Holds, HoldsFile
  <2> QED BY <2>8, <2>9, <2>10 DEF QueueInv
<1>3. CASE RenameState
  <2>1. /\ run.pc = "staterename" /\ dir' = SetState(dir, run.batch)
        /\ images' = images \cup {SetState(i, run.batch) : i \in images}
        /\ run' = [run EXCEPT !.pc = "statesync"] /\ UNCHANGED <<mem, snd, posted>>
    BY <1>3 DEF RenameState, RunGoto
  <2>2. run'.pc = "statesync" /\ run'.batch = run.batch
    BY <2>1, Types DEF RunState
  <2>3. Removing' = Removing /\ ~Removing
    BY <2>1 DEF Removing, QueueInv, Images, Locked
  <2>4. /\ run.batch \in dir.rw /\ \A c \in dir.rw \ {run.batch} : c.ts < run.batch.ts
        /\ dir.state.ts < run.batch.ts /\ images = {dir} /\ WellFormed(dir, posted)
    BY <2>1, <2>3, Types DEF QueueInv, Images, Remembers
  <2>5. /\ dir'.rw = dir.rw /\ dir'.state = run.batch /\ WellFormed(dir', posted)
        /\ Checkpointed(dir')
    BY <2>1, <2>4, StateFollows, Types
  <2>6. images' = {dir, dir'}
    BY <2>1, <2>4
  <2>7. Images'
    BY <2>2, <2>3, <2>4, <2>5, <2>6, <2>1 DEF QueueInv, Images, Locked, Accepted
  <2>8. Remembers'
    BY <2>1, <2>2, <2>4, <2>5 DEF QueueInv, Remembers, Accepted, Running
  <2>9. ASSUME NEW s \in Senders PROVE HoldsFile(s)'
    <3>1. HoldsFile(s) /\ snd[s].name \in Nat /\ dir.state.ts \in Nat /\ run.batch.ts \in Nat
      BY <2>4, Types DEF QueueInv, Holds, SendState, Batch
    <3> QED BY <2>1, <2>4, <2>5, <2>6, <3>1 DEF HoldsFile
  <2> QED BY <2>7, <2>8, <2>9 DEF QueueInv, Holds
<1>4. CASE SyncState
  <2>1. /\ run.pc = "statesync" /\ images' = {dir} /\ EnqueueReturns
        /\ UNCHANGED <<dir, mem, snd, posted>>
    BY <1>4 DEF SyncState
  <2>2. run'.pc \in {"flush", "tick"}
    BY <2>1, Types DEF EnqueueReturns, RunState
  <2>3. Removing' = Removing /\ ~Removing
    BY <2>1 DEF Removing, QueueInv, Images, Locked
  <2>4. /\ dir.state = run.batch /\ dir \in images
        /\ \A c \in dir.rw \ {run.batch} : c.ts < run.batch.ts
    BY <2>1, Types DEF QueueInv, Remembers
  <2>5. Checkpointed(dir)
    <3>1. run.batch \in Batch /\ \A c \in dir.rw : c.ts \in Nat
      BY <2>1, Types DEF Locked, Batch
    <3> QED BY <2>4, <3>1 DEF Checkpointed, Batch
  <2>6. Images'
    BY <2>1, <2>2, <2>3, <2>4, <2>5 DEF QueueInv, Images, Locked, Accepted
  <2>7. Remembers'
    BY <2>1, <2>2, <2>4 DEF QueueInv, Remembers, Accepted, Running
  <2>8. Holds'
    BY <2>1, <2>4 DEF QueueInv, Holds, HoldsFile
  <2> QED BY <2>6, <2>7, <2>8 DEF QueueInv
<1> QED BY <1>1, <1>2, <1>3, <1>4

(* The process ends, on the directory there is or one a power loss left. *)
LEMMA EndStep ==
    ASSUME TypeInv, Threads, QueueInv, Harmless, Flush \/ Exit \/ Crash
    PROVE  QueueInv'
<1>1. CASE Flush
  <2>1. /\ run.pc = "flush" /\ run' = [run EXCEPT !.pc = "flushing"]
        /\ snd' = [snd EXCEPT !["flush"].pc = "head"]
        /\ UNCHANGED <<dir, images, mem, posted>>
    BY <1>1 DEF Flush, RunGoto
  <2>2. run'.pc = "flushing"
    BY <2>1, Types DEF RunState
  <2>3. \A s \in Senders : snd[s].pc = "off"
    BY <2>1 DEF Threads, Running, Senders
  <2>4. \A s \in Senders : snd'[s].pc \in {"off", "head"}
    BY <2>1, <2>3, Types DEF SendState, Senders
  <2>5. Images'
    BY <2>1, <2>2, <2>3, <2>4 DEF QueueInv, Images, Locked, Removing, Accepted
  <2>6. Remembers'
    BY <2>1, <2>2 DEF QueueInv, Remembers, Running, Accepted
  <2>7. Holds'
    BY <2>4 DEF Holds, HoldsFile
  <2> QED BY <2>5, <2>6, <2>7 DEF QueueInv
<1>2. CASE Exit \/ Crash
  <2>1. /\ run'.pc = "off" /\ \A s \in Senders : snd'[s].pc = "off"
        /\ UNCHANGED posted
    BY <1>2 DEF Exit, Crash, ProcessEnds, NoRun, NoSend
  <2>2. images' = {dir'} /\ dir' \in images /\ Checkpointed(dir')
    <3>1. CASE Exit
      <4>1. run.pc = "flushing" /\ snd["flush"].pc = "off" /\ UNCHANGED <<dir, images>>
        BY <3>1 DEF Exit
      <4>2. ~Removing
        BY <4>1 DEF Removing, Threads, Running, Senders
      <4> QED BY <4>1, <4>2, Types DEF QueueInv, Images
    <3>2. CASE Crash
      BY <3>2 DEF Crash, Harmless, HarmlessFaults
    <3> QED BY <1>2, <3>1, <3>2
  <2>3. Images'
    BY <2>1, <2>2 DEF QueueInv, Images, Locked, Removing, Accepted
  <2>4. Remembers'
    BY <2>1 DEF Remembers, Running
  <2>5. Holds'
    BY <2>1 DEF Holds, HoldsFile
  <2> QED BY <2>3, <2>4, <2>5 DEF QueueInv
<1> QED BY <1>1, <1>2

(* While mu is free and a sender runs, every change is durable. *)
LEMMA FreeIsDurable ==
    ASSUME TypeInv, Threads, QueueInv, MuFree, NEW s \in Senders, snd[s].pc # "off"
    PROVE  /\ images = {dir} /\ Accepted = dir.rw /\ Running
           /\ run.pc \notin {"sync", "staterename", "statesync"}
           /\ mem.files \in SortedNames(dir.rw) /\ mem.bytes = TotalSize(dir.rw)
           /\ Checkpointed(dir) /\ WellFormed(dir, posted)
<1>1. Running /\ ~Removing /\ run.pc \notin {"sync", "staterename", "statesync", "bindsync"}
  BY DEF Threads, Running, MuFree, Removing
<1>2. images = {dir} /\ Accepted = dir.rw
  BY <1>1 DEF QueueInv, Images, Accepted
<1> QED BY <1>1, <1>2 DEF QueueInv, Images, Remembers

(* sendOne picks the oldest file and finds it where it was. *)
LEMMA PickStep ==
    ASSUME TypeInv, Threads, QueueInv, NEW s \in Senders, SendPick(s)
    PROVE  QueueInv'
<1>1. /\ snd[s].pc = "head" /\ MuFree /\ UNCHANGED <<dir, images, mem, run, posted>>
  BY DEF SendPick
<1>2. CASE SendReturns(s, "sleep")
  <2>1. snd'[s].pc \in {"off", "sleep"} /\ \A r \in Senders \ {s} : snd'[r] = snd[r]
    BY <1>2, Types DEF SendReturns, NoSend
  <2> QED BY <1>1, <2>1, SendMoves DEF HoldsFile
<1>3. CASE mem.files # <<>>
  <2>1. /\ snd'[s].pc = "read" /\ snd'[s].name = Head(mem.files)
        /\ \A r \in Senders \ {s} : snd'[r] = snd[r]
    BY <1>3, Types DEF SendPick, SendState
  <2>2. images = {dir} /\ mem.files \in SortedNames(dir.rw) /\ Checkpointed(dir)
    BY <1>1, FreeIsDurable
  <2>3. PICK b \in dir.rw : b.ts = Head(mem.files)
    BY <1>3, <2>2, SortedHead, Types
  <2>4. Head(mem.files) <= dir.state.ts
    BY <2>2, <2>3 DEF Checkpointed
  <2>5. HoldsFile(s)'
    BY <1>1, <2>1, <2>2, <2>4 DEF HoldsFile
  <2> QED BY <1>1, <2>1, <2>5, SendMoves
<1> QED BY <1>2, <1>3 DEF SendPick

LEMMA ReadStep ==
    ASSUME TypeInv, Threads, HeadIsSent, QueueInv, NEW s \in Senders, SendRead(s)
    PROVE  QueueInv'
<1>1. /\ snd[s].pc = "read" /\ UNCHANGED <<dir, images, mem, run, posted>>
  BY DEF SendRead
<1>2. PICK b \in dir.rw, pc \in {"token", "giveup"} :
        b.ts = snd[s].name /\ snd' = [snd EXCEPT ![s].pc = pc, ![s].body = b]
  BY DEF SendRead
<1>3. /\ snd'[s].pc = pc /\ snd'[s].body = b /\ snd'[s].name = snd[s].name
      /\ \A r \in Senders \ {s} : snd'[r] = snd[r]
  BY <1>2, Types DEF SendState
<1>4. Running /\ ~Removing
  BY <1>1, OneSender DEF Removing, Threads
<1>5. /\ mem.files # <<>> /\ Head(mem.files) = b.ts /\ mem.files \in SortedNames(Accepted)
  BY <1>1, <1>2, <1>4 DEF HeadIsSent, QueueInv, Remembers
<1>6. /\ \E c \in Accepted : c.ts = b.ts
      /\ \A c \in Accepted : b.ts <= c.ts
  BY <1>5, SortedHead, Types
<1>7. Oldest(b, dir.rw) /\ Oldest(b, Accepted)
  <2>1. CASE run.pc # "sync"
    BY <1>6, <2>1 DEF Oldest, Accepted
  <2>2. CASE run.pc = "sync"
    <3>1. /\ Accepted = dir.rw \ {run.batch} /\ \A c \in Accepted : c.ts < run.batch.ts
      BY <2>2 DEF Accepted, QueueInv, Remembers
    <3>2. \A c \in dir.rw : c.ts \in Nat
      BY Types DEF Batch
    <3>3. b # run.batch
      BY <1>6, <3>1, <3>2
    <3> QED BY <1>6, <3>1, <3>2, <3>3 DEF Oldest
  <2> QED BY <2>1, <2>2
<1>8. \A i \in images : Oldest(b, i.rw) /\ snd[s].name <= i.state.ts
  BY <1>1, <1>4, <1>7 DEF QueueInv, Images, Holds, HoldsFile
<1>9. HoldsFile(s)'
  BY <1>1, <1>2, <1>3, <1>8 DEF HoldsFile
<1> QED BY <1>1, <1>2, <1>3, <1>9, SendMoves

(* The other steps that touch no file. *)
LEMMA SendStep ==
    ASSUME TypeInv, QueueInv,
           NEW s \in Senders, SendFails(s) \/ SendAnswered(s) \/ SendRemoveFails(s)
                                \/ ReceiverTakes(s) \/ (s = "deliver" /\ Deliver)
    PROVE  QueueInv'
<1>1. /\ UNCHANGED <<dir, images, mem, run, posted>> /\ snd[s].pc # "rmsync"
      /\ \A r \in Senders \ {s} : snd'[r] = snd[r]
      /\ \/ snd'[s].pc \in {"off", "loop", "head", "sleep"}
         \/ /\ snd[s].pc \in {"post", "taken"} /\ snd'[s].pc \in {"giveup", "remove", "taken"}
            /\ snd'[s].name = snd[s].name /\ snd'[s].body = snd[s].body
  BY Types DEF SendFails, SendAnswered, SendRemoveFails, ReceiverTakes, Deliver,
     SendReturns, SendGoto, NoSend, SendState, Senders
<1>2. HoldsFile(s)'
  BY <1>1 DEF QueueInv, Holds, HoldsFile
<1> QED BY <1>1, <1>2, SendMoves

(* What is posted is the oldest file, and not behind what was posted. *)
LEMMA Posts ==
    ASSUME TypeInv, Threads, QueueInv, NEW s \in Senders, SendPost(s)
    PROVE  /\ posted' = snd[s].body /\ snd[s].body \in Batch
           /\ \A i \in images : /\ Oldest(snd[s].body, i.rw)
                                 /\ WellFormed(i, posted) /\ WellFormed(i, posted')
           /\ posted.ts <= posted'.ts /\ (posted'.ts = posted.ts => posted' = posted)
<1> DEFINE b == snd[s].body
<1>1. /\ posted' = b /\ b \in Batch /\ b.ts \in Nat /\ b.ts = snd[s].name
      /\ \A i \in images : Oldest(b, i.rw) /\ snd[s].name <= i.state.ts
  BY DEF SendPost, TypeInv, WholeBody, QueueInv, Holds, HoldsFile, Batch
<1>2. \A i \in images : WellFormed(i, posted)
  BY DEF QueueInv, Images
<1> HIDE DEF b
<1>3. ASSUME NEW i \in images PROVE WellFormed(i, b)
  <2>1. \A c \in i.rw : c.ts \in Nat
    BY Types DEF Batch
  <2> QED BY <1>1, <1>2, <2>1 DEF WellFormed, NotBefore, Oldest, Distinct
<1>4. posted.ts <= b.ts /\ (b.ts = posted.ts => b = posted)
  BY <1>1, <1>2, Types DEF WellFormed, NotBefore, Oldest
<1> QED BY <1>1, <1>2, <1>3, <1>4 DEF b

LEMMA PostStep ==
    ASSUME TypeInv, Threads, QueueInv, NEW s \in Senders, SendPost(s)
    PROVE  QueueInv'
<1>1. /\ snd[s].pc = "token" /\ UNCHANGED <<dir, images, mem, run>>
      /\ snd'[s].pc = "post" /\ snd'[s].body = snd[s].body /\ snd'[s].name = snd[s].name
      /\ \A r \in Senders \ {s} : snd'[r] = snd[r]
  BY Types DEF SendPost, SendGoto, SendState
<1>2. Accepted' = Accepted /\ Removing' = Removing
  BY <1>1 DEF Accepted, Removing
<1>3. \A i \in images' : WellFormed(i, posted')
  BY <1>1, Posts
<1>4. Images'
  BY <1>1, <1>2, <1>3 DEF QueueInv, Images, Locked
<1>5. Remembers'
  BY <1>1, <1>2 DEF QueueInv, Remembers, Running
<1>6. Holds'
  BY <1>1 DEF QueueInv, Holds, HoldsFile
<1> QED BY <1>4, <1>5, <1>6 DEF QueueInv

(* Where SendRemove finds the directory and leaves it. *)
LEMMA Removes ==
    ASSUME TypeInv, Threads, QueueInv, NEW s \in Senders, SendRemove(s)
    PROVE  /\ images = {dir} /\ images' = {dir, dir'}
           /\ Oldest(snd[s].body, dir.rw) /\ snd[s].body.ts = snd[s].name
           /\ dir'.rw = dir.rw \ {snd[s].body} /\ dir'.state = dir.state
           /\ Checkpointed(dir) /\ Checkpointed(dir')
           /\ WellFormed(dir, posted) /\ WellFormed(dir', posted)
<1>1. /\ snd[s].pc \in {"remove", "giveup"} /\ MuFree
      /\ dir' = DropFile(dir, snd[s].name)
      /\ images' = images \cup {DropFile(i, snd[s].name) : i \in images}
  BY DEF SendRemove
<1>2. images = {dir} /\ Checkpointed(dir) /\ WellFormed(dir, posted)
  BY <1>1, FreeIsDurable
<1>3. Oldest(snd[s].body, dir.rw) /\ snd[s].body.ts = snd[s].name
  BY <1>1, <1>2 DEF QueueInv, Holds, HoldsFile
<1>4. /\ dir'.rw = dir.rw \ {snd[s].body} /\ dir'.state = dir.state
      /\ Checkpointed(dir') /\ WellFormed(dir', posted)
  BY <1>1, <1>2, <1>3, DropOldest, Types
<1> QED BY <1>1, <1>2, <1>3, <1>4

LEMMA RemoveStep ==
    ASSUME TypeInv, Threads, HeadIsSent, QueueInv, NEW s \in Senders, SendRemove(s)
    PROVE  QueueInv'
<1> DEFINE b == snd[s].body
<1>1. /\ snd[s].pc \in {"remove", "giveup"} /\ MuFree /\ UNCHANGED <<run, posted>>
      /\ mem' = [mem EXCEPT !.files = Tail(mem.files), !.bytes = mem.bytes - Size(b)]
      /\ snd' = [snd EXCEPT ![s].pc = "rmsync"]
  BY DEF SendRemove, SendGoto
<1>2. /\ Running /\ Accepted = dir.rw /\ run.pc \notin {"sync", "staterename", "statesync"}
      /\ mem.files \in SortedNames(dir.rw) /\ mem.bytes = TotalSize(dir.rw)
  BY <1>1, FreeIsDurable
<1>3. /\ images = {dir} /\ images' = {dir, dir'}
      /\ b \in dir.rw /\ b.ts = snd[s].name
      /\ dir'.rw = dir.rw \ {b} /\ dir'.state = dir.state
      /\ Checkpointed(dir) /\ Checkpointed(dir')
      /\ WellFormed(dir, posted) /\ WellFormed(dir', posted) /\ Distinct(dir.rw)
  BY Removes DEF Oldest, WellFormed
<1>4. mem.files # <<>> /\ Head(mem.files) = b.ts
  BY <1>1, <1>3 DEF HeadIsSent
<1>5. dir.rw \in SUBSET Batch /\ IsFiniteSet(dir.rw) /\ IsFiniteSet(dir.rw \ {b}) /\ b \in Batch
  BY <1>3, Types, FS_RemoveElement
<1>6. snd'[s].pc = "rmsync" /\ \A r \in Senders \ {s} : snd'[r] = snd[r] /\ snd[r].pc = "off"
  BY <1>1, OneSender, Types DEF SendState
<1> HIDE DEF b
<1>7. Tail(mem.files) \in SortedNames(dir'.rw)
  BY <1>2, <1>3, <1>4, <1>5, SortedTail
<1>8. mem.bytes - Size(b) = TotalSize(dir'.rw)
  <2>1. (dir.rw \ {b}) \cup {b} = dir.rw
    BY <1>3
  <2>2. TotalSize(dir.rw) = TotalSize(dir.rw \ {b}) + Size(b)
    BY <1>5, <2>1, TotalAdd
  <2>3. TotalSize(dir.rw \ {b}) \in Nat /\ Size(b) \in Nat
    BY <1>5, TotalSizeType, SizeType, BatchKinds
  <2> QED BY <1>2, <1>3, <2>2, <2>3
<1>9. Accepted' = dir'.rw /\ Removing' /\ ~Locked
  BY <1>1, <1>2, <1>6 DEF Accepted, Removing, MuFree, Locked
<1>10. Images'
  BY <1>1, <1>2, <1>3, <1>9 DEF QueueInv, Images, Locked
<1>11. /\ mem'.files = Tail(mem.files) /\ mem'.bytes = mem.bytes - Size(b)
       /\ mem'.timestamp = mem.timestamp /\ mem'.previous = mem.previous
  BY <1>1, Types DEF Memory
<1>12. Remembers'
  BY <1>1, <1>2, <1>3, <1>7, <1>8, <1>9, <1>11 DEF QueueInv, Remembers, Running, Locked
<1>13. Holds'
  BY <1>6 DEF Holds, HoldsFile
<1> QED BY <1>10, <1>12, <1>13 DEF QueueInv

LEMMA SyncStep ==
    ASSUME TypeInv, Threads, QueueInv, Harmless, NEW s \in Senders, SendSync(s)
    PROVE  QueueInv'
<1>1. /\ snd[s].pc = "rmsync" /\ images' = {dir} /\ SendReturns(s, "loop")
      /\ UNCHANGED <<dir, run, mem, posted>>
  BY DEF SendSync, Harmless, HarmlessFaults
<1>2. /\ snd'[s].pc \in {"off", "loop"}
      /\ \A r \in Senders \ {s} : snd'[r] = snd[r] /\ snd[r].pc = "off"
  BY <1>1, OneSender, Types DEF SendReturns, NoSend
<1>3. Removing /\ ~Removing' /\ Accepted' = Accepted /\ dir \in images
  BY <1>1, <1>2, Types DEF Removing, Accepted
<1>4. Images'
  BY <1>1, <1>3 DEF QueueInv, Images, Locked
<1>5. Remembers'
  BY <1>1, <1>3 DEF QueueInv, Remembers, Running
<1>6. Holds'
  BY <1>2 DEF Holds, HoldsFile
<1> QED BY <1>4, <1>5, <1>6 DEF QueueInv

LEMMA QueueStep ==
    ASSUME TypeInv, Threads, HeadIsSent, QueueInv, Harmless, [Next]_vars
    PROVE  QueueInv'
<1>1. CASE ReceiverTakesLate \/ UNCHANGED vars
  <2>1. UNCHANGED <<dir, images, run, mem, snd, posted>>
    BY <1>1 DEF ReceiverTakesLate, vars
  <2>2. /\ Locked' = Locked /\ Removing' = Removing /\ Running' = Running
        /\ Accepted' = Accepted
    BY <2>1 DEF Locked, Removing, Running, Accepted
  <2>3. Images'
    BY <2>1, <2>2 DEF QueueInv, Images
  <2>4. Remembers'
    BY <2>1, <2>2 DEF QueueInv, Remembers
  <2>5. Holds'
    BY <2>1 DEF QueueInv, Holds, HoldsFile
  <2> QED BY <2>3, <2>4, <2>5 DEF QueueInv
<1>2. CASE Deliver
  BY <1>2, SendStep DEF Senders
<1> QED
  BY <1>1, <1>2, BootStep, LoopStep, EnqueueStep, EndStep, PickStep, ReadStep, SendStep, PostStep,
     RemoveStep, SyncStep
  DEF Next, Collection, SendOne, Environment

-----------------------------------------------------------------------------
(* What follows from it.                                                   *)

Base == TypeInv /\ Threads /\ HeadIsSent /\ QueueInv

(* The invariant of the queue, which the theorems below rest on. *)
THEOREM QueueInvariant == ASSUME Harmless PROVE Spec => []Base
<1>1. Init => Base
  BY TypeInit, HeadInit, QueueInit DEF Base
<1>2. Base /\ [Next]_vars => Base'
  BY TypeStep, ThreadsStep, HeadStep, QueueStep DEF Base
<1> QED BY <1>1, <1>2, PTL DEF Spec

(* Whenever mu is free a restart would restore exactly what the process    *)
(* remembers: files, QueuedBytes, previous and timestamp.                  *)
THEOREM MemoryIsDisk == ASSUME Harmless PROVE Spec => []MemoryMatchesDisk
<1>1. Base => MemoryMatchesDisk
  <2> SUFFICES ASSUME Base, Running, MuFree
               PROVE  /\ mem.files \in SortedNames(dir.rw)
                      /\ mem.bytes = TotalSize(dir.rw)
                      /\ \E b \in Restored(dir) : /\ mem.previous = b.active
                                                  /\ mem.timestamp = b.ts
    BY DEF MemoryMatchesDisk
  <2>1. run.pc \notin {"sync", "staterename", "statesync"} /\ Accepted = dir.rw
    BY DEF MuFree, Accepted
  <2>2. /\ mem.files \in SortedNames(dir.rw) /\ mem.bytes = TotalSize(dir.rw)
        /\ mem.timestamp = dir.state.ts /\ mem.previous = dir.state.active
    BY <2>1 DEF Base, QueueInv, Remembers
  <2>3. /\ dir \in Directory /\ Checkpointed(dir) /\ WellFormed(dir, posted)
    BY <2>1, Types DEF Base, QueueInv, Images
  <2>4. Restored(dir) = {dir.state}
    BY <2>3, RestoresState
  <2> QED BY <2>2, <2>4
<1> QED BY <1>1, QueueInvariant, PTL

(* How a step changes the directories a power loss may leave. *)
LEMMA DirectorySteps ==
    ASSUME Base, Harmless, [Next]_vars
    PROVE  \/ RenameQueueFile
           \/ \E s \in Senders : SendRemove(s)
           \/ images' = {dir'} /\ dir' \in images
           \/ /\ dir'.rw = dir.rw
              /\ \A i \in images' : \E j \in images : i.rw = j.rw
              /\ \A j \in images : \E i \in images' : i.rw = j.rw
<1>1. dir \in images /\ images \in SUBSET Directory /\ dir \in Directory
  BY Types DEF Base
<1>2. CASE RenameManifest
  <2>1. \A i \in images : SetOwner(i, run.dest).rw = i.rw
    BY <1>1 DEF SetOwner, Directory
  <2> QED BY <1>1, <1>2, <2>1 DEF RenameManifest
<1>3. CASE RenameState
  <2>1. \A i \in images : SetState(i, run.batch).rw = i.rw
    BY <1>1 DEF SetState, Directory
  <2> QED BY <1>1, <1>3, <2>1 DEF RenameState
<1>4. CASE SyncManifest \/ SyncQueueFile \/ SyncState \/ Crash
  BY <1>1, <1>4 DEF SyncManifest, SyncQueueFile, SyncState, Crash
<1>5. ASSUME NEW s \in Senders, SendSync(s)
      PROVE  images' = {dir'} /\ dir' \in images
  BY <1>1, <1>5 DEF SendSync, Harmless, HarmlessFaults
<1>6. CASE UNCHANGED <<dir, images>>
  BY <1>6
<1> QED
  BY <1>2, <1>3, <1>4, <1>5, <1>6
  DEF Next, Boot, Start, Restore, RestoreRefused, Collection, RunLoop, Gather, Stamp, Enqueue,
      EnqueueFails, Join, Flush, Exit, Deliver, SendOne, SendPick, SendRead, SendPost, SendFails,
      SendAnswered, SendRemoveFails, Environment, ReceiverTakes, ReceiverTakesLate, Cancel, vars

(* No queue this program writes, and none a power loss makes of it, is     *)
(* over the cap: restore never refuses one.                                *)
THEOREM CapIsKept == ASSUME Harmless PROVE Spec => []CapHoldsOnDisk
<1>1. Init => CapHoldsOnDisk
  <2> SUFFICES ASSUME Init PROVE TotalSize({}) <= MaxBytes
    BY DEF Init, CapHoldsOnDisk
  <2>1. {p \in {} \X Series : p[2] \in Covers(p[1])} = {}
    OBVIOUS
  <2> QED BY <2>1, FS_EmptySet, BoundsAssumption DEF TotalSize
<1>2. CapHoldsOnDisk /\ Base /\ [Next]_vars => CapHoldsOnDisk'
  <2> SUFFICES ASSUME CapHoldsOnDisk, Base, [Next]_vars PROVE CapHoldsOnDisk'
    OBVIOUS
  <2>1. CASE RenameQueueFile
    <3>1. /\ images = {dir} /\ images' = {dir, dir'} /\ run.batch \in Batch /\ Running
          /\ dir'.rw = dir.rw \cup {run.batch} /\ run.pc = "rename"
          /\ \A c \in dir.rw : c.ts < run.batch.ts
      BY <2>1, Renames DEF Base
    <3>2. mem.bytes = TotalSize(dir.rw) /\ mem.bytes + Size(run.batch) <= MaxBytes
      BY <3>1 DEF Base, QueueInv, Remembers, Accepted
    <3>3. IsFiniteSet(dir.rw) /\ run.batch \notin dir.rw
      BY <3>1, Types DEF Base, Batch
    <3>4. TotalSize(dir'.rw) = TotalSize(dir.rw) + Size(run.batch)
      BY <3>1, <3>3, TotalAdd
    <3> QED BY <3>1, <3>2, <3>4 DEF CapHoldsOnDisk
  <2>2. ASSUME NEW s \in Senders, SendRemove(s) PROVE CapHoldsOnDisk'
    <3>1. images = {dir} /\ images' = {dir, dir'} /\ dir'.rw \in SUBSET dir.rw
      BY <2>2, Removes DEF Base
    <3>2. IsFiniteSet(dir.rw) /\ IsFiniteSet(dir'.rw)
      BY <3>1, Types, FS_Subset DEF Base
    <3>3. /\ TotalSize(dir'.rw) <= TotalSize(dir.rw) /\ TotalSize(dir.rw) \in Nat
          /\ TotalSize(dir'.rw) \in Nat
      BY <3>1, <3>2, TotalSubset, TotalSizeType
    <3> QED BY <3>1, <3>3, BoundsAssumption DEF CapHoldsOnDisk
  <2> QED BY <2>1, <2>2, DirectorySteps DEF CapHoldsOnDisk
<1> QED BY <1>1, <1>2, QueueInvariant, PTL DEF Spec

LEMMA OnlySendPosts ==
    ASSUME [Next]_vars PROVE posted' = posted \/ \E s \in Senders : SendPost(s)
BY DEF Next, Boot, Start, RenameManifest, SyncManifest, Restore, RestoreRefused, Collection,
   RunLoop, Gather, Stamp, Enqueue, RenameQueueFile, SyncQueueFile, RenameState, SyncState,
   EnqueueFails, Join, Flush, Exit, Deliver, SendOne, SendPick, SendRead, SendFails,
   SendAnswered, SendRemove, SendRemoveFails, SendSync, Environment, ReceiverTakes,
   ReceiverTakesLate, Cancel, Crash, vars

(* Batches are posted in order, across retries, crashes and restarts. *)
THEOREM PostsInOrder == ASSUME Harmless PROVE Spec => FIFO
<1>1. Base /\ [Next]_vars => [posted' # posted => posted'.ts > posted.ts]_posted
  <2> SUFFICES ASSUME Base, [Next]_vars, posted' # posted PROVE posted'.ts > posted.ts
    OBVIOUS
  <2>1. PICK s \in Senders : SendPost(s)
    BY OnlySendPosts
  <2>2. /\ posted.ts <= posted'.ts /\ (posted'.ts = posted.ts => posted' = posted)
        /\ posted' \in Batch
    BY <2>1, Posts DEF Base
  <2>3. posted.ts \in Nat /\ posted'.ts \in Nat
    BY <2>2, Types DEF Base, Batch, NoBatch
  <2> QED BY <2>2, <2>3
<1> QED BY <1>1, QueueInvariant, PTL DEF Spec, FIFO

-----------------------------------------------------------------------------
(* The directory implements the durable queue.                             *)

Left == {i.rw : i \in images}

LEMMA QueueImplements ==
    ASSUME Base, Harmless, [Next]_vars PROVE [Q!Next]_(Q!vars)
<1> SUFFICES Q!Next \/ UNCHANGED <<dir.rw, Left, posted>>
  BY DEF Q!vars, Left
<1>1. CASE RenameQueueFile
  <2>1. /\ images = {dir} /\ images' = {dir, dir'} /\ posted' = posted
        /\ dir'.rw = dir.rw \cup {run.batch} /\ run.batch \in Batch
        /\ \A c \in dir.rw : c.ts < run.batch.ts
        /\ run.batch.ts > dir.state.ts
    BY <1>1, Renames DEF Base
  <2>2. \A c \in dir.rw : run.batch.ts > c.ts /\ c # run.batch
    BY <2>1, Types DEF Base, Batch
  <2>3. run.batch.ts > posted.ts
    <3>1. /\ posted.ts <= dir.state.ts /\ posted.ts \in Nat /\ dir.state.ts \in Nat
          /\ run.batch.ts \in Nat
      BY <2>1, Types DEF Base, QueueInv, Images, WellFormed, Batch, NoBatch
    <3> QED BY <2>1, <3>1
  <2>4. Left = {dir.rw} /\ Left' = {dir.rw, dir'.rw}
    BY <2>1 DEF Left
  <2>5. PICK b \in Batch : b = run.batch
    BY <2>1
  <2>6. Q!Accept(b)
    BY <2>1, <2>2, <2>3, <2>4, <2>5 DEF Q!Accept, Q!Durable, Q!Change, Left
  <2>7. b \in dir'.rw \ dir.rw
    BY <2>1, <2>2, <2>5
  <2> QED BY <2>6, <2>7 DEF Q!Next
<1>2. ASSUME NEW s \in Senders, SendRemove(s) PROVE Q!Next
  <2>1. /\ images = {dir} /\ images' = {dir, dir'} /\ posted' = posted
        /\ Oldest(snd[s].body, dir.rw) /\ dir'.rw = dir.rw \ {snd[s].body}
    BY <1>2, Removes DEF Base, SendRemove
  <2>2. Left = {dir.rw} /\ Left' = {dir.rw, dir'.rw}
    BY <2>1 DEF Left
  <2>3. PICK b \in dir.rw : b = snd[s].body
    BY <2>1 DEF Oldest
  <2>4. Q!Depart(b)
    BY <2>1, <2>2, <2>3 DEF Q!Depart, Q!Durable, Q!Change, Q!IsOldest, Oldest, Left
  <2> QED BY <2>4 DEF Q!Next
<1>3. ASSUME NEW s \in Senders, SendPost(s) PROVE Q!Next
  <2> DEFINE b == snd[s].body
  <2>1. /\ posted' = b /\ UNCHANGED <<dir, images>> /\ dir \in images
        /\ \A i \in images : Oldest(b, i.rw)
        /\ posted.ts <= b.ts /\ posted.ts \in Nat /\ b.ts \in Nat
    BY <1>3, Posts, Types DEF Base, SendPost, Batch, NoBatch
  <2> HIDE DEF b
  <2>2. Q!Transmit(b) /\ b \in dir.rw
    BY <2>1 DEF Q!Transmit, Q!IsOldest, Oldest
  <2> QED BY <2>2 DEF Q!Next
<1>4. CASE posted' = posted
  <2>1. CASE images' = {dir'} /\ dir' \in images
    <3>1. Left' = {dir'.rw} /\ dir'.rw \in Left
      BY <2>1 DEF Left
    <3>2. Q!Crash
      BY <1>4, <3>1 DEF Q!Crash, Left
    <3> QED BY <3>2 DEF Q!Next
  <2>2. CASE /\ dir'.rw = dir.rw
             /\ \A i \in images' : \E j \in images : i.rw = j.rw
             /\ \A j \in images : \E i \in images' : i.rw = j.rw
    <3>1. Left' = Left
      BY <2>2 DEF Left
    <3> QED BY <1>4, <2>2, <3>1
  <2> QED BY <1>1, <1>2, <2>1, <2>2, DirectorySteps
<1>5. posted' = posted \/ \E s \in Senders : SendPost(s)
  BY OnlySendPosts
<1> QED BY <1>3, <1>4, <1>5

(* The sender is a durable FIFO queue: every step of the two threads, of   *)
(* the shutdown, of a crash is a step of DurableQueue or leaves the queue  *)
(* alone.                                                                  *)
THEOREM ImplementsDurableQueue == ASSUME Harmless PROVE Spec => IsDurableQueue
<1>1. Init => Q!Init
  <2> SUFFICES ASSUME Init PROVE dir.rw = {} /\ Left = {{}} /\ posted = NoBatch
    BY DEF Q!Init, Left
  <2> QED BY DEF Init, Left
<1>2. Base /\ [Next]_vars => [Q!Next]_(Q!vars)
  BY QueueImplements
<1> QED BY <1>1, <1>2, QueueInvariant, PTL DEF Spec, IsDurableQueue, Q!Spec

-----------------------------------------------------------------------------
(* No series is forgotten.                                                 *)

(* What the oldest file covers is what the next batch covers. *)
LEMMA OldestCovers ==
    ASSUME NEW d, Distinct(d.rw), NEW b, Oldest(b, d.rw), NEW x, d.rw \in SUBSET Batch
    PROVE  StillCovers(d, x) <=> x \in Covers(b)
<1>1. b \in d.rw /\ \A c \in d.rw : c.ts \in Nat /\ b.ts <= c.ts
  BY DEF Oldest, Batch
<1>2. \A c \in d.rw : (\A e \in d.rw : c.ts <= e.ts) => c = b
  BY <1>1 DEF Distinct
<1> QED BY <1>1, <1>2 DEF StillCovers

LEMMA CoveredInit == Init => Covered
BY DEF Init, Covered, Shown, NoSend, NoBatch

(* Steps that the receiver has no part in and that give nothing up. *)
LEMMA CoveredKept ==
    ASSUME Covered, UNCHANGED <<recv, ghosts, posted>>,
           \A s \in Senders :
              /\ snd'[s].pc \in {"post", "taken"} =>
                    snd[s].pc \in {"post", "taken"} /\ snd'[s].body = snd[s].body
              /\ snd'[s].pc \in {"taken", "remove"} =>
                    snd[s].pc \in {"taken", "remove"} /\ snd'[s].body = snd[s].body,
           \A i \in images' : \E j \in images : \A x \in Shown :
              StillCovers(j, x) => StillCovers(i, x)
    PROVE  Covered'
<1>1. Shown' = Shown
  BY DEF Shown
<1> QED BY <1>1 DEF Covered

(* A new file covers at least what the checkpoint had. *)
LEMMA CoveredRename ==
    ASSUME Base, Covered, RenameQueueFile PROVE Covered'
<1>1. /\ images = {dir} /\ images' = {dir, dir'} /\ UNCHANGED <<snd, posted, recv, ghosts>>
      /\ dir'.rw = dir.rw \cup {run.batch} /\ dir'.state = dir.state /\ run.batch \in Batch
      /\ \A c \in dir.rw : c.ts < run.batch.ts
      /\ dir.state.active \subseteq Covers(run.batch)
  BY Renames DEF Base, RenameQueueFile
<1>2. \A c \in dir'.rw : c.ts \in Nat
  BY <1>1, Types DEF Base, Batch
<1>3. ASSUME NEW x, StillCovers(dir, x) PROVE StillCovers(dir', x)
  <2>1. CASE dir.rw = {}
    <3>1. dir'.rw = {run.batch} /\ x \in Covers(run.batch) /\ run.batch.ts \in Nat
      BY <1>1, <1>2, <1>3, <2>1 DEF StillCovers
    <3> QED BY <3>1 DEF StillCovers
  <2>2. CASE dir.rw # {}
    <3>1. PICK b \in dir.rw : x \in Covers(b) /\ \A c \in dir.rw : b.ts <= c.ts
      BY <1>3, <2>2 DEF StillCovers
    <3>2. b \in dir'.rw /\ \A c \in dir'.rw : b.ts <= c.ts
      BY <1>1, <1>2, <3>1
    <3> QED BY <3>1, <3>2 DEF StillCovers
  <2> QED BY <2>1, <2>2
<1> QED BY <1>1, <1>3, CoveredKept

(* The file behind the one that leaves covers what that one had. *)
LEMMA NextCovers ==
    ASSUME Base, NEW s \in Senders, SendRemove(s), NEW x \in snd[s].body.active
    PROVE  StillCovers(dir', x)
<1> DEFINE b == snd[s].body
<1>1. /\ Oldest(b, dir.rw) /\ dir'.rw = dir.rw \ {b} /\ dir'.state = dir.state
      /\ Checkpointed(dir) /\ WellFormed(dir, posted)
  BY Removes DEF Base
<1>2. /\ dir.rw \in SUBSET Batch /\ IsFiniteSet(dir.rw) /\ \A c \in dir.rw : c.ts \in Nat
      /\ IsFiniteSet(dir'.rw) /\ dir'.rw \in SUBSET Batch
  <2>1. dir.rw \in SUBSET Batch /\ IsFiniteSet(dir.rw)
    BY Types DEF Base
  <2> QED BY <1>1, <2>1, FS_RemoveElement DEF Batch
<1>3. CASE dir'.rw = {}
  <2>1. dir.state \in dir.rw
    BY <1>1 DEF WellFormed, EndsInState, Oldest
  <2>2. dir.state = b
    BY <1>1, <1>3, <2>1
  <2> QED BY <1>1, <1>3, <2>2 DEF StillCovers
<1>4. CASE dir'.rw # {}
  <2>1. /\ mem'.files \in SortedNames(dir'.rw)
    <3>1. QueueInv' /\ MuFree /\ Running /\ UNCHANGED run
      BY RemoveStep, FreeIsDurable DEF Base, SendRemove
    <3>2. Running' /\ Accepted' = dir'.rw
      BY <3>1 DEF Running, Accepted, MuFree
    <3> QED BY <3>1, <3>2 DEF QueueInv, Remembers
  <2>2. mem'.files # <<>>
    <3>1. PICK c \in dir'.rw : TRUE
      BY <1>4
    <3>2. \E i \in 1..Len(mem'.files) : mem'.files[i] = c.ts
      BY <1>2, <2>1, <3>1, SortedType
    <3> QED BY <3>2
  <2>3. PICK c \in dir'.rw : c.ts = Head(mem'.files)
    BY <1>2, <2>1, <2>2, SortedHead
  <2>4. \A e \in dir'.rw : c.ts <= e.ts
    BY <1>2, <2>1, <2>2, <2>3, SortedHead
  <2> HIDE DEF b
  <2>5. Adjacent(b, c, dir.rw) /\ b \in dir.rw /\ c \in dir.rw
    BY <1>1, <1>2, <2>3, <2>4 DEF Adjacent, WellFormed, Distinct, Oldest
  <2>6. b.active \subseteq Covers(c)
    BY <1>1, <2>5 DEF WellFormed, Chained
  <2>7. x \in Covers(c)
    BY <2>6 DEF b
  <2> QED BY <1>4, <2>3, <2>4, <2>7 DEF StillCovers
<1> QED BY <1>3, <1>4

LEMMA CoveredRemove ==
    ASSUME Base, Covered, NEW s \in Senders, SendRemove(s) PROVE Covered'
<1> DEFINE b == snd[s].body
<1>1. /\ snd[s].pc \in {"remove", "giveup"} /\ UNCHANGED <<recv, posted>>
      /\ ghosts' = IF snd[s].pc = "giveup" THEN ghosts \cup b.stale ELSE ghosts
      /\ snd' = [snd EXCEPT ![s].pc = "rmsync"]
  BY DEF SendRemove, SendGoto
<1>2. \A r \in Senders : snd'[r].pc \in {"off", "rmsync"}
  BY <1>1, OneSender, Types DEF Base, SendState
<1>3. /\ images = {dir} /\ images' = {dir, dir'}
      /\ Oldest(b, dir.rw) /\ Distinct(dir.rw) /\ dir.rw \in SUBSET Batch
  BY Removes, Types DEF Base, WellFormed
<1>4. Shown' = Shown
  BY <1>1 DEF Shown
<1>5. ASSUME NEW x \in Shown, x \notin ghosts'
      PROVE  StillCovers(dir, x) /\ StillCovers(dir', x)
  <2>1. StillCovers(dir, x)
    BY <1>1, <1>3, <1>5 DEF Covered
  <2>2. x \in b.active
    <3>1. x \in Covers(b)
      BY <1>3, <2>1, OldestCovers
    <3>2. CASE snd[s].pc = "giveup"
      BY <1>1, <1>5, <3>1, <3>2 DEF Covers
    <3>3. CASE snd[s].pc = "remove"
      BY <1>1, <1>5, <3>3 DEF Covered
    <3> QED BY <1>1, <3>2, <3>3
  <2> QED BY <2>1, <2>2, NextCovers
<1> QED BY <1>1, <1>2, <1>3, <1>4, <1>5 DEF Covered

(* What sendOne holds is covered, whatever a power loss leaves. *)
LEMMA HeldCovers ==
    ASSUME Base, NEW s \in Senders,
           snd[s].pc \in {"token", "post", "taken", "remove", "giveup"}
    PROVE  /\ snd[s].body \in Batch
           /\ \A i \in images : \A x : StillCovers(i, x) <=> x \in Covers(snd[s].body)
<1>1. snd[s].body \in Batch
  BY DEF Base, TypeInv, WholeBody
<1>2. ASSUME NEW i \in images, NEW x
      PROVE  StillCovers(i, x) <=> x \in Covers(snd[s].body)
  <2>1. /\ Oldest(snd[s].body, i.rw) /\ Distinct(i.rw) /\ i.rw \in SUBSET Batch
    BY Types DEF Base, QueueInv, Holds, HoldsFile, Images, WellFormed
  <2> QED BY <2>1, OldestCovers
<1> QED BY <1>1, <1>2

LEMMA Timestamps ==
    ASSUME Base
    PROVE  /\ posted.ts \in Nat /\ recv.last.ts \in Nat /\ \A b \in recv.late : b.ts \in Nat
           /\ recv \in Receiver
BY DEF Base, TypeInv, TypeOK, Receiver, Batch, NoBatch

LEMMA CoveredPost ==
    ASSUME Base, Covered, NEW s \in Senders, SendPost(s) PROVE Covered'
<1>1. /\ UNCHANGED <<images, recv, ghosts>> /\ posted' = snd[s].body
      /\ snd' = [snd EXCEPT ![s].pc = "post"] /\ snd[s].pc = "token"
  BY DEF SendPost, SendGoto
<1>2. /\ snd'[s].pc = "post" /\ snd'[s].body = snd[s].body
      /\ \A r \in Senders \ {s} : snd'[r].pc = "off"
  BY <1>1, OneSender, Types DEF Base, SendState
<1>3. posted.ts <= posted'.ts /\ posted'.ts \in Nat
  BY Posts DEF Base, Batch
<1>4. Shown' = Shown
  BY <1>1 DEF Shown
<1> QED BY <1>1, <1>2, <1>3, <1>4, Timestamps DEF Covered

LEMMA CoveredTakes ==
    ASSUME Base, Covered, NEW s \in Senders, ReceiverTakes(s) PROVE Covered'
<1> DEFINE b == snd[s].body
<1>1. /\ snd[s].pc = "post" /\ UNCHANGED <<images, posted>> /\ posted = b /\ b \in Batch
      /\ \A i \in images : \A x : StillCovers(i, x) <=> x \in Covers(b)
  BY HeldCovers DEF ReceiverTakes, Covered
<1>2. ~(b.ts < recv.last.ts)
  BY <1>1, Timestamps DEF Covered
<1>3. /\ recv' = [last |-> b, active |-> (recv.active \ b.stale) \cup b.active,
                  late |-> {c \in recv.late : c.ts > b.ts}]
      /\ ghosts' = ghosts \ Covers(b)
  BY <1>2 DEF ReceiverTakes, Takes
<1>4. recv'.late = {}
  BY <1>1, <1>3, Timestamps DEF Covered
<1>5. Shown' = (recv.active \ b.stale) \cup b.active
  BY <1>3, <1>4 DEF Shown
<1>6. /\ snd'[s].pc = "taken" /\ snd'[s].body = b
      /\ \A r \in Senders \ {s} : snd'[r].pc = "off"
  BY <1>1, OneSender, Types DEF Base, SendState, ReceiverTakes, SendGoto
<1> HIDE DEF b
<1>7. ASSUME NEW i \in images, NEW x \in Shown'
      PROVE  x \in ghosts' \/ (StillCovers(i, x) /\ x \in b.active)
  <2>1. CASE x \in b.active
    BY <1>1, <2>1 DEF Covers
  <2>2. CASE x \in recv.active /\ x \notin b.stale /\ x \notin b.active
    <3>1. x \notin Covers(b)
      BY <2>2 DEF Covers
    <3>2. x \in ghosts
      BY <1>1, <2>2, <3>1 DEF Covered, Shown
    <3> QED BY <1>3, <3>1, <3>2
  <2> QED BY <1>5, <2>1, <2>2
<1>8. \A x \in Shown' : x \in ghosts' \/ x \in b.active
  <2>1. dir \in images
    BY Types DEF Base
  <2> QED BY <1>7, <2>1
<1>9. recv'.last.ts = posted'.ts /\ posted'.ts \in Nat
  BY <1>1, <1>3 DEF Batch
<1> QED BY <1>1, <1>4, <1>6, <1>7, <1>8, <1>9 DEF Covered

LEMMA CoveredLate ==
    ASSUME Base, Covered, ReceiverTakesLate PROVE Covered'
<1>1. /\ UNCHANGED <<images, snd, posted, ghosts>> /\ \E b \in recv.late : Takes(b)
  BY DEF ReceiverTakesLate
<1>2. PICK b \in recv.late : Takes(b)
  BY <1>1
<1>3. ~(b.ts < recv.last.ts) /\ b.ts <= posted.ts
  BY Timestamps DEF Covered
<1>4. recv' = [last |-> b, active |-> (recv.active \ b.stale) \cup b.active,
               late |-> {c \in recv.late : c.ts > b.ts}]
  BY <1>2, <1>3 DEF Takes
<1>5. Shown' \subseteq Shown
  BY <1>4 DEF Shown
<1>6. \A s \in Senders : snd[s].pc \notin {"taken", "remove"}
  BY DEF Covered
<1>7. /\ recv'.last.ts <= posted'.ts
      /\ \A c \in recv'.late : recv'.last.ts < c.ts /\ c.ts <= posted'.ts
  BY <1>1, <1>3, <1>4, Timestamps DEF Covered
<1> QED BY <1>1, <1>5, <1>6, <1>7 DEF Covered

(* Requests under way when their client gave up, or died. *)
LEMMA CoveredLost ==
    ASSUME Base, Covered, NEW bs, MayArriveLate(bs), UNCHANGED <<posted, ghosts>>,
           \A b \in bs : \E s \in Senders : snd[s].pc = "post" /\ snd[s].body = b,
           images' \subseteq images,
           \A s \in Senders : snd'[s].pc \notin {"post", "taken", "remove"}
    PROVE  Covered'
<1>1. CASE recv' = recv
  BY <1>1, CoveredKept
<1>2. CASE recv' = [recv EXCEPT !.late = @ \cup {b \in bs : b.ts > recv.last.ts}]
  <2>1. /\ recv'.last = recv.last /\ recv'.active = recv.active
        /\ recv'.late = recv.late \cup {b \in bs : b.ts > recv.last.ts}
    BY <1>2, Timestamps DEF Receiver
  <2>2. \A b \in bs : b = posted /\ \A i \in images : \A x \in b.active : StillCovers(i, x)
    BY HeldCovers DEF Covered, Covers
  <2>3. ASSUME NEW x \in Shown', NEW i \in images PROVE x \in ghosts \/ StillCovers(i, x)
    <3>1. x \in Shown \/ \E b \in bs : x \in b.active
      BY <2>1 DEF Shown
    <3> QED BY <2>2, <3>1 DEF Covered
  <2>4. /\ recv'.last.ts <= posted'.ts
        /\ \A c \in recv'.late : recv'.last.ts < c.ts /\ c.ts <= posted'.ts
    BY <2>1, <2>2, Timestamps DEF Covered
  <2> QED BY <2>3, <2>4 DEF Covered
<1> QED BY <1>1, <1>2 DEF MayArriveLate

LEMMA CoveredStep ==
    ASSUME Base, Covered, Harmless, [Next]_vars PROVE Covered'
<1>1. /\ dir \in images /\ images \in SUBSET Directory /\ snd \in [Senders -> SendState]
  BY Types DEF Base
<1>2. ASSUME UNCHANGED <<images, snd, recv, ghosts, posted>> PROVE Covered'
  BY <1>2, CoveredKept
<1>3. CASE Boot
  <2>1. CASE RenameManifest
    <3>1. /\ UNCHANGED <<snd, recv, ghosts, posted>>
          /\ images' = images \cup {SetOwner(i, run.dest) : i \in images}
      BY <2>1 DEF RenameManifest
    <3>2. \A i \in images : \A x : StillCovers(i, x) => StillCovers(SetOwner(i, run.dest), x)
      BY <1>1 DEF StillCovers, SetOwner, Directory
    <3> QED BY <3>1, <3>2, CoveredKept
  <2>2. CASE SyncManifest
    BY <1>1, <2>2, CoveredKept DEF SyncManifest
  <2>3. CASE Restore
    <3>1. /\ UNCHANGED <<images, recv, ghosts, posted>>
          /\ snd' = [snd EXCEPT !["deliver"].pc = "loop"]
      BY <2>3 DEF Restore
    <3>2. \A s \in Senders : snd'[s].pc = "loop" \/ snd'[s] = snd[s]
      BY <1>1, <3>1 DEF SendState
    <3> QED BY <3>1, <3>2, CoveredKept
  <2> QED BY <1>2, <1>3, <2>1, <2>2, <2>3 DEF Boot, Start, RestoreRefused
<1>4. CASE Collection
  <2>1. CASE RenameState
    <3>1. /\ UNCHANGED <<snd, recv, ghosts, posted>> /\ run.pc = "staterename"
          /\ images' = images \cup {SetState(i, run.batch) : i \in images}
      BY <2>1 DEF RenameState
    <3>2. images = {dir} /\ dir.rw # {}
      BY <3>1 DEF Base, QueueInv, Images, Remembers, Locked
    <3>3. \A x : StillCovers(dir, x) => StillCovers(SetState(dir, run.batch), x)
      BY <1>1, <3>2 DEF StillCovers, SetState, Directory
    <3> QED BY <3>1, <3>2, <3>3, CoveredKept
  <2>2. CASE SyncQueueFile \/ SyncState
    BY <1>1, <2>2, CoveredKept DEF SyncQueueFile, SyncState
  <2>3. CASE Flush \/ Exit
    <3>1. UNCHANGED <<images, recv, ghosts, posted>>
      BY <2>3 DEF Flush, Exit
    <3>2. \A s \in Senders : snd'[s].pc \in {"head", "off"} \/ snd'[s] = snd[s]
      BY <1>1, <2>3 DEF Flush, Exit, ProcessEnds, NoSend, SendState
    <3> QED BY <3>1, <3>2, CoveredKept
  <2> QED BY <1>2, <1>4, <2>1, <2>2, <2>3, CoveredRename
          DEF Collection, RunLoop, Gather, Stamp, Enqueue, EnqueueFails, Join
<1>5. CASE Deliver
  <2>1. UNCHANGED <<images, recv, ghosts, posted>>
    BY <1>5 DEF Deliver
  <2>2. \A s \in Senders : snd'[s].pc \in {"off", "head", "loop"} \/ snd'[s] = snd[s]
    BY <1>1, <1>5 DEF Deliver, SendGoto, SendState
  <2> QED BY <2>1, <2>2, CoveredKept
<1>6. ASSUME NEW s \in Senders, SendOne(s) PROVE Covered'
  <2>1. CASE SendPick(s) \/ SendRead(s) \/ SendRemoveFails(s) \/ SendSync(s)
    <3>1. UNCHANGED <<recv, ghosts, posted>> /\ images' \subseteq images
      BY <1>1, <2>1 DEF SendPick, SendRead, SendRemoveFails, SendSync
    <3>2. \A r \in Senders : \/ snd'[r].pc \in {"off", "loop", "sleep", "read", "token", "giveup"}
                             \/ snd'[r] = snd[r]
      BY <1>1, <2>1 DEF SendPick, SendRead, SendRemoveFails, SendSync, SendReturns, NoSend,
                        SendState
    <3> QED BY <3>1, <3>2, CoveredKept
  <2>2. CASE SendAnswered(s)
    <3>1. UNCHANGED <<images, recv, ghosts, posted>>
      BY <2>2 DEF SendAnswered
    <3>2. /\ \/ snd[s].pc = "taken" /\ snd'[s].pc = "remove" /\ snd'[s].body = snd[s].body
             \/ snd'[s].pc = "giveup"
          /\ \A r \in Senders \ {s} : snd'[r] = snd[r]
      BY <1>1, <2>2 DEF SendAnswered, SendGoto, SendState
    <3> QED BY <3>1, <3>2, CoveredKept
  <2>3. CASE SendFails(s)
    <3>1. UNCHANGED <<images, posted, ghosts>> /\ SendReturns(s, "sleep") /\ snd[s].pc # "off"
      BY <2>3 DEF SendFails
    <3>2. \A r \in Senders : snd'[r].pc \in {"off", "sleep"}
      BY <1>1, <3>1, OneSender DEF Base, SendReturns, NoSend
    <3>3. CASE UNCHANGED recv
      BY <3>1, <3>2, <3>3, CoveredKept
    <3>4. CASE snd[s].pc = "post" /\ MayArriveLate({snd[s].body})
      <4> DEFINE bs == {snd[s].body}
      <4>1. \A b \in bs : \E r \in Senders : snd[r].pc = "post" /\ snd[r].body = b
        BY <3>4
      <4>2. MayArriveLate(bs)
        BY <3>4
      <4> HIDE DEF bs
      <4> QED BY <3>1, <3>2, <4>1, <4>2, CoveredLost
    <3> QED BY <2>3, <3>3, <3>4 DEF SendFails
  <2> QED BY <1>6, <2>1, <2>2, <2>3, CoveredPost, CoveredRemove DEF SendOne
<1>7. CASE Crash
  <2>1. /\ images' \subseteq images /\ UNCHANGED <<posted, ghosts>> /\ MayArriveLate(OnTheWire)
        /\ \A s \in Senders : snd'[s].pc = "off"
    BY <1>7 DEF Crash, ProcessEnds, NoSend
  <2>2. \A b \in OnTheWire : \E s \in Senders : snd[s].pc = "post" /\ snd[s].body = b
    BY DEF OnTheWire
  <2> QED BY <2>1, <2>2, CoveredLost
<1> QED BY <1>2, <1>3, <1>4, <1>5, <1>6, <1>7, CoveredTakes, CoveredLate
        DEF Next, Environment, Cancel, vars

(* A series the receiver shows is never forgotten: whatever a power loss   *)
(* leaves, the next batch updates it or marks it stale, unless its marker  *)
(* was in a batch that was given up.                                       *)
THEOREM NothingForgotten == ASSUME Harmless PROVE Spec => []NoSilentGhost
<1>1. Covered /\ Base /\ [Next]_vars => Covered'
  BY CoveredStep
<1>2. Covered => NoSilentGhost
  BY DEF Covered, NoSilentGhost, Shown
<1> QED BY <1>1, <1>2, CoveredInit, QueueInvariant, PTL DEF Spec
=============================================================================
