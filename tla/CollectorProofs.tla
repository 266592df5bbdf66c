--------------------------- MODULE CollectorProofs ---------------------------
(***************************************************************************)
(* At most one Collect call per backend, and adapters that are closed once *)
(* and only when idle, for any number of backends, registrations and arms. *)
(*                                                                         *)
(* The invariant adds to the type invariant what the fields of one arm say *)
(* of each other (ArmOK), that an arm with a call in flight is in the map  *)
(* or, once closed, in c.retired (Located), that c.arms holds only a       *)
(* closed arm while the worker of the retired one runs (Held), and that    *)
(* the arm sync is about to replace is closed (CurClosed).                 *)
(***************************************************************************)
EXTENDS Collector, TLAPS

ArmOK(a) ==
    /\ a.calls < 2 /\ (a.busy <=> a.calls = 1)
    /\ a.busy => a.ad = "open"
    /\ a.ad # "twice"
    /\ a.ad = "closed" => a.closed
    /\ a.ad = "open" /\ a.closed => a.busy

Life == \A i \in ArmIds : ArmOK(heap[i])

Located == \A i \in ArmIds :
    /\ heap[i].busy /\ heap[i].closed => retired[heap[i].backend] = i
    /\ heap[i].ad = "open" /\ ~heap[i].closed => arms[heap[i].backend] = i

Held == \A b \in Backends :
    arms[b] # NoArm /\ retired[b] # NoArm /\ heap[retired[b]].busy => heap[arms[b]].closed

CurClosed ==
    /\ cur # {} => pc = "sync" /\ cur \subseteq todo
    /\ \A b \in cur :
          /\ retired[b] \in {NoArm, arms[b]}
          /\ arms[b] # NoArm => heap[arms[b]].closed

TodoMapped == pc \in {"drop", "close"} => \A b \in todo : arms[b] # NoArm

Core == TypeOK /\ Life /\ Located /\ Held
IInv == Core /\ CurClosed /\ TodoMapped

(* The record of an unused address is an arm. *)
LEMMA FreeType == Free \in Arm /\ ArmOK(Free) /\ ~Free.busy /\ Free.ad = "nil"
  BY BackendsAssumption, MaxErrorsAssumption DEF Free, Arm, ArmOK

LEMMA CloseAdType == \A ad \in {"nil", "open", "closed", "twice"} :
                         CloseAd(ad) \in {"nil", "open", "closed", "twice"}
  BY DEF CloseAd

LEMMA OneMoreType == \A n \in 0..MaxErrors : OneMore(n) \in 0..MaxErrors
  BY MaxErrorsAssumption DEF OneMore

(* No arm, no adapter, no call: the invariant holds at first. *)
LEMMA InitInv == Init => IInv
<1> SUFFICES ASSUME Init PROVE IInv
  OBVIOUS
<1>1. TypeOK
  BY FreeType, MaxErrorsAssumption DEF Init, TypeOK
<1>2. Life /\ Located /\ Held
  BY FreeType DEF Init, Life, Located, Held
<1>3. CurClosed /\ TodoMapped
  BY DEF Init, CurClosed, TodoMapped
<1> QED BY <1>1, <1>2, <1>3 DEF IInv, Core

(* A new arm at an unused address: its backend had no arm or a closed one, *)
(* and an arm that may be called is placed only beside an idle retired one. *)
LEMMA PlaceKeeps ==
    ASSUME Core, NEW b \in Backends, NEW closed \in BOOLEAN,
           NEW ads \in SUBSET {"nil", "open"}, Place(b, closed, ads),
           UNCHANGED <<valid, retired, wait, failures>>,
           arms[b] # NoArm => heap[arms[b]].closed,
           closed => ads = {"nil"},
           closed \/ retired[b] = NoArm \/ ~heap[retired[b]].busy,
           pc' \in {"idle", "retire", "sync", "drop", "collect", "close"},
           todo' \in SUBSET Backends, cur' \in SUBSET Backends
    PROVE  Core'
<1> DEFINE i == CHOOSE j \in ArmIds : ~Reachable(j)
<1>1. i \in ArmIds /\ ~Reachable(i)
  BY DEF Place
<1> HIDE DEF i
<1>2. PICK ad \in ads :
        /\ heap' = [heap EXCEPT ![i] = [backend |-> b, reg |-> valid[b],
                       busy |-> FALSE, closed |-> closed, ad |-> ad,
                       errors |-> 0, calls |-> 0]]
        /\ arms' = [arms EXCEPT ![b] = i]
  BY DEF Place, i
<1> DEFINE new == [backend |-> b, reg |-> valid[b], busy |-> FALSE,
                   closed |-> closed, ad |-> ad, errors |-> 0, calls |-> 0]
<1>3. /\ new \in Arm /\ ArmOK(new) /\ new.backend = b /\ ~new.busy
      /\ new.closed = closed /\ (new.ad = "open" => ~closed)
  BY <1>2, MaxErrorsAssumption DEF Core, TypeOK, Arm, ArmOK
<1>4. heap' = [heap EXCEPT ![i] = new] /\ arms' = [arms EXCEPT ![b] = i]
  BY <1>2
<1> HIDE DEF new
<1>5. \A c \in Backends : arms[c] # i /\ retired[c] # i
  BY <1>1 DEF Reachable
<1>6. TypeOK'
  BY <1>1, <1>3, <1>4, <1>5, ArmIdsAssumption DEF Core, TypeOK
<1>7. Life'
  BY <1>3, <1>4 DEF Core, TypeOK, Life
<1>8. Located'
  <2> SUFFICES ASSUME NEW j \in ArmIds
               PROVE  /\ heap'[j].busy /\ heap'[j].closed => retired'[heap'[j].backend] = j
                      /\ heap'[j].ad = "open" /\ ~heap'[j].closed => arms'[heap'[j].backend] = j
    BY DEF Located
  <2>1. CASE j = i
    BY <1>1, <1>3, <1>4, <2>1 DEF Core, TypeOK
  <2>2. CASE j # i
    <3>1. heap'[j] = heap[j] /\ heap[j].backend \in Backends
      BY <1>4, <2>2 DEF Core, TypeOK, Arm
    <3>2. heap[j].ad = "open" /\ ~heap[j].closed => heap[j].backend # b
      BY ArmIdsAssumption DEF Core, Located
    <3> QED BY <1>4, <3>1, <3>2 DEF Core, TypeOK, Located
  <2> QED BY <2>1, <2>2
<1>9. Held'
  BY <1>1, <1>3, <1>4, <1>5 DEF Core, TypeOK, Held
<1> QED BY <1>6, <1>7, <1>8, <1>9 DEF Core

(* closeArm, after the entry of an idle retired arm may have been deleted. *)
LEMMA CloseKeeps ==
    ASSUME Core, NEW b \in Backends, arms[b] # NoArm,
           NEW m, m \in {retired, [retired EXCEPT ![b] = NoArm]},
           m # retired => retired[b] = NoArm \/ ~heap[retired[b]].busy,
           CloseArm(b, m), UNCHANGED <<valid, wait, failures>>,
           arms' \in {arms, [arms EXCEPT ![b] = NoArm]},
           pc' \in {"idle", "retire", "sync", "drop", "collect", "close"},
           todo' \in SUBSET Backends, cur' \in SUBSET Backends
    PROVE  /\ Core'
           /\ heap'[arms[b]].closed
           /\ m[b] = NoArm => retired'[b] \in {NoArm, arms[b]}
<1> DEFINE i == arms[b]
<1>1. i \in ArmIds /\ heap[i] \in Arm /\ ArmOK(heap[i]) /\ heap[i].backend = b
  BY DEF Core, TypeOK, Life
<1>2. CASE heap[i].closed
  <2>1. heap' = heap /\ retired' = m
    BY <1>2 DEF CloseArm
  <2>2. TypeOK'
    BY <2>1 DEF Core, TypeOK
  <2>3. Life'
    BY <2>1 DEF Core, Life
  <2>4. Located'
    BY <2>1, <1>2 DEF Core, TypeOK, Located, Arm
  <2>5. Held'
    BY <2>1 DEF Core, TypeOK, Held
  <2> QED BY <1>2, <2>1, <2>2, <2>3, <2>4, <2>5 DEF Core
<1>3. CASE ~heap[i].closed
  <2> DEFINE new == [heap[i] EXCEPT !.closed = TRUE,
                        !.ad = IF heap[i].busy THEN heap[i].ad ELSE CloseAd(heap[i].ad)]
  <2>1. /\ heap' = [heap EXCEPT ![i] = new]
        /\ retired' = IF heap[i].busy THEN [m EXCEPT ![b] = i] ELSE m
    <3>1. heap' = [heap EXCEPT ![i].closed = TRUE,
                               ![i].ad = IF heap[i].busy THEN @ ELSE CloseAd(@)]
      BY <1>3 DEF CloseArm
    <3>2. retired' = IF heap[i].busy THEN [m EXCEPT ![b] = i] ELSE m
      BY <1>3 DEF CloseArm
    <3>3. heap \in [ArmIds -> Arm]
      BY DEF Core, TypeOK
    <3>4. heap' = [heap EXCEPT ![i] = new]
      BY ONLY <1>1, <3>1, <3>3 DEF Arm
    <3> QED BY <3>2, <3>4
  <2>2. /\ new \in Arm /\ ArmOK(new) /\ new.backend = b /\ new.closed
        /\ new.busy = heap[i].busy
    BY <1>1, <1>3 DEF Arm, ArmOK, CloseAd
  <2> HIDE DEF new
  <2>3. retired[b] # NoArm => ~heap[retired[b]].busy
    BY <1>3 DEF Core, Held
  <2>4. TypeOK'
    BY <1>1, <2>1, <2>2 DEF Core, TypeOK
  <2>5. Life'
    BY <1>1, <2>1, <2>2 DEF Core, TypeOK, Life
  <2>6. Located'
    <3> SUFFICES ASSUME NEW j \in ArmIds
                 PROVE  /\ heap'[j].busy /\ heap'[j].closed => retired'[heap'[j].backend] = j
                        /\ heap'[j].ad = "open" /\ ~heap'[j].closed => arms'[heap'[j].backend] = j
      BY DEF Located
    <3>1. CASE j = i
      BY <1>1, <2>1, <2>2, <3>1 DEF Core, TypeOK
    <3>2. CASE j # i
      <4>1. heap'[j] = heap[j] /\ heap[j].backend \in Backends
        BY <2>1, <3>2 DEF Core, TypeOK, Arm
      <4>2. heap[j].busy /\ heap[j].closed => heap[j].backend # b
        BY <2>3, ArmIdsAssumption DEF Core, Located
      <4>3. heap[j].ad = "open" /\ ~heap[j].closed => heap[j].backend # b
        BY <3>2 DEF Core, Located
      <4> QED BY <2>1, <4>1, <4>2, <4>3 DEF Core, TypeOK, Located
    <3> QED BY <3>1, <3>2
  <2>7. Held'
    BY <1>1, <2>1, <2>2, <2>3 DEF Core, TypeOK, Held
  <2>8. heap'[i].closed /\ (m[b] = NoArm => retired'[b] \in {NoArm, i})
    BY <1>1, <2>1, <2>2 DEF Core, TypeOK
  <2> QED BY <2>4, <2>5, <2>6, <2>7, <2>8 DEF Core
<1> QED BY <1>2, <1>3

(* Steps that leave the heap and the two maps alone. *)
LEMMA SameArms ==
    ASSUME Core, UNCHANGED <<arms, retired, heap>>,
           valid' \in [Backends -> Regs \cup {NoReg}],
           wait' \in [Backends -> {"none", "start", "wait", "ok", "err"}],
           failures' \in [Backends -> 0..MaxErrors],
           pc' \in {"idle", "retire", "sync", "drop", "collect", "close"},
           todo' \in SUBSET Backends, cur' \in SUBSET Backends
    PROVE  Core'
  BY DEF Core, TypeOK, Life, Located, Held

(* Steps that change fields of arms, and no map, and neither close an arm  *)
(* nor give it another backend, nor wake a retired one.                    *)
LEMMA SameMaps ==
    ASSUME Core, UNCHANGED <<arms, retired>>,
           valid' \in [Backends -> Regs \cup {NoReg}],
           wait' \in [Backends -> {"none", "start", "wait", "ok", "err"}],
           failures' \in [Backends -> 0..MaxErrors],
           pc' \in {"idle", "retire", "sync", "drop", "collect", "close"},
           todo' \in SUBSET Backends, cur' \in SUBSET Backends,
           heap' \in [ArmIds -> Arm],
           \A i \in ArmIds :
              /\ ArmOK(heap'[i])
              /\ \/ heap'[i] = Free /\ \A b \in Backends : i \notin {arms[b], retired[b]}
                 \/ /\ heap'[i].closed = heap[i].closed
                    /\ heap'[i].backend = heap[i].backend
                    /\ heap'[i].busy /\ heap[i].closed => heap[i].busy
                    /\ heap'[i].ad = "open" => heap[i].ad = "open"
    PROVE  Core'
<1>1. TypeOK'
  BY DEF Core, TypeOK
<1>2. Life'
  BY DEF Life
<1>3. Located'
  BY FreeType DEF Core, Located
<1>4. Held'
  BY DEF Core, TypeOK, Held
<1> QED BY <1>1, <1>2, <1>3, <1>4 DEF Core

(* Every step keeps the types and what is known of the arms. *)
LEMMA CoreStep == IInv /\ [Next]_vars => Core'
<1> SUFFICES ASSUME IInv, [Next]_vars PROVE Core'
  OBVIOUS
<1> USE DEF IInv
<1>1. CASE BeginScrape
  <2>1. \A i \in ArmIds : \/ heap'[i] = heap[i]
                          \/ /\ heap'[i] = Free
                             /\ \A b \in Backends : i \notin {arms[b], retired[b]}
    BY <1>1 DEF BeginScrape, Collected, Reachable
  <2>2. heap' \in [ArmIds -> Arm]
    BY <1>1, FreeType DEF BeginScrape, Collected, Core, TypeOK
  <2>3. \A i \in ArmIds : ArmOK(heap'[i])
    BY <2>1, FreeType DEF Core, Life
  <2>4. /\ valid' \in [Backends -> Regs \cup {NoReg}]
        /\ failures' \in [Backends -> 0..MaxErrors]
        /\ todo' \in SUBSET Backends
    BY <1>1, MaxErrorsAssumption DEF BeginScrape, Keys, Core, TypeOK
  <2>5. /\ UNCHANGED <<arms, retired, cur, wait>> /\ pc' = "retire"
    BY <1>1 DEF BeginScrape
  <2>6. /\ wait' \in [Backends -> {"none", "start", "wait", "ok", "err"}]
        /\ cur' \in SUBSET Backends
    BY <2>5 DEF Core, TypeOK
  <2> QED BY <2>1, <2>2, <2>3, <2>4, <2>5, <2>6, SameMaps
<1>2. CASE Retire
  <2>1. CASE retired' = retired
    BY <1>2, <2>1, SameArms DEF Retire, Core, TypeOK
  <2>2. ASSUME NEW b \in Backends, ~heap[retired[b]].busy,
               retired' = [retired EXCEPT ![b] = NoArm],
               todo' \in SUBSET Backends, UNCHANGED <<pc, valid, arms, heap, cur, wait, failures>>
        PROVE  Core'
    <3>1. TypeOK'
      BY <2>2 DEF Core, TypeOK
    <3>2. Life' /\ Held'
      BY <2>2 DEF Core, TypeOK, Life, Held
    <3>3. Located'
      <4> SUFFICES ASSUME NEW j \in ArmIds, heap[j].busy, heap[j].closed
                   PROVE  retired'[heap[j].backend] = j
        BY <2>2 DEF Core, Located
      <4>1. retired[heap[j].backend] = j /\ heap[j].backend # b
        BY <2>2 DEF Core, Located
      <4> QED BY <2>2, <4>1 DEF Core, TypeOK
    <3> QED BY <3>1, <3>2, <3>3 DEF Core
  <2>3. CASE todo = {} /\ UNCHANGED retired
    BY <2>1, <2>3
  <2>4. ASSUME NEW b \in todo,
               retired' = IF heap[retired[b]].busy THEN retired
                          ELSE [retired EXCEPT ![b] = NoArm],
               todo' = todo \ {b}, UNCHANGED pc
        PROVE  Core'
    BY <1>2, <2>1, <2>2, <2>4 DEF Retire, Core, TypeOK
  <2> QED BY <1>2, <2>3, <2>4 DEF Retire
<1>3. ASSUME NEW b \in Backends, SyncRetired(b) PROVE Core'
  <2>1. /\ retired[b] # NoArm /\ heap[retired[b]].busy
        /\ Place(b, TRUE, {"nil"}) /\ UNCHANGED <<valid, retired, pc, cur, wait, failures>>
        /\ todo' = todo \ {b}
    BY <1>3 DEF SyncRetired
  <2>2. arms[b] # NoArm => heap[arms[b]].closed
    BY <2>1 DEF Core, Held
  <2>3. /\ pc' \in {"idle", "retire", "sync", "drop", "collect", "close"}
        /\ todo' \in SUBSET Backends /\ cur' \in SUBSET Backends
    BY <2>1 DEF Core, TypeOK
  <2> QED BY <2>1, <2>2, <2>3, PlaceKeeps
<1>4. ASSUME NEW b \in Backends, SyncArm(b) PROVE Core'
  <2> DEFINE m == [retired EXCEPT ![b] = NoArm]
  <2>1. /\ retired[b] = NoArm \/ ~heap[retired[b]].busy
        /\ UNCHANGED <<valid, arms, pc, wait, failures>>
        /\ pc' \in {"idle", "retire", "sync", "drop", "collect", "close"}
        /\ todo' \in SUBSET Backends /\ cur' \in SUBSET Backends
    BY <1>4 DEF SyncArm, Core, TypeOK
  <2>2. CASE heap' = heap /\ retired' = m
    <3>1. TypeOK'
      BY <2>1, <2>2 DEF Core, TypeOK
    <3>2. Life' /\ Held'
      BY <2>1, <2>2 DEF Core, TypeOK, Life, Held
    <3>3. Located'
      <4> SUFFICES ASSUME NEW j \in ArmIds, heap[j].busy, heap[j].closed
                   PROVE  retired'[heap[j].backend] = j
        BY <2>1, <2>2 DEF Core, Located
      <4>1. retired[heap[j].backend] = j /\ heap[j].backend # b
        BY <2>1, ArmIdsAssumption DEF Core, Located
      <4> QED BY <2>2, <4>1 DEF Core, TypeOK
    <3> QED BY <3>1, <3>2, <3>3 DEF Core
  <2>3. CASE arms[b] # NoArm /\ CloseArm(b, m)
    BY <2>1, <2>3, CloseKeeps
  <2> QED BY <1>4, <2>2, <2>3 DEF SyncArm
<1>5. ASSUME NEW b \in Backends, SyncReplace(b) PROVE Core'
  <2>1. /\ b \in cur /\ UNCHANGED <<valid, retired, pc, wait, failures>>
        /\ cur' = {} /\ todo' = todo \ {b}
    BY <1>5 DEF SyncReplace
  <2>2. /\ arms[b] # NoArm => heap[arms[b]].closed
        /\ retired[b] \in {NoArm, arms[b]}
    <3>1. CurClosed
      OBVIOUS
    <3> QED BY <2>1, <3>1, Zenon DEF CurClosed
  <2>3. /\ pc' \in {"idle", "retire", "sync", "drop", "collect", "close"}
        /\ todo' \in SUBSET Backends /\ cur' \in SUBSET Backends
    BY <2>1 DEF Core, TypeOK
  <2>4. CASE StillBusy(b)
    <3>1. Place(b, TRUE, {"nil"})
      BY <1>5, <2>4 DEF SyncReplace
    <3> QED BY <2>1, <2>2, <2>3, <3>1, PlaceKeeps
  <2>5. CASE ~StillBusy(b)
    <3>1. Place(b, FALSE, {"nil", "open"})
      BY <1>5, <2>5 DEF SyncReplace
    <3>2. retired[b] = NoArm \/ ~heap[retired[b]].busy
      BY <2>2, <2>5 DEF StillBusy
    <3> QED BY <2>1, <2>2, <2>3, <3>1, <3>2, PlaceKeeps
  <2> QED BY <2>4, <2>5
<1>6. CASE SyncDone
  BY <1>6, SameArms DEF SyncDone, Keys, Core, TypeOK
<1>7. ASSUME NEW b \in Backends, DropArm(b) PROVE Core'
  <2>1. /\ arms[b] # NoArm /\ CloseArm(b, retired)
        /\ arms' = [arms EXCEPT ![b] = NoArm] /\ todo' = todo \ {b}
        /\ UNCHANGED <<valid, pc, cur, wait, failures>>
    BY <1>7 DEF DropArm, TodoMapped
  <2>2. /\ pc' \in {"idle", "retire", "sync", "drop", "collect", "close"}
        /\ todo' \in SUBSET Backends /\ cur' \in SUBSET Backends
    BY <2>1 DEF Core, TypeOK
  <2> QED BY <2>1, <2>2, CloseKeeps
<1>8. CASE DropDone
  BY <1>8, SameArms DEF DropDone, Core, TypeOK
<1>9. ASSUME NEW b \in Backends, CollectArm(b) PROVE Core'
  <2>1. /\ UNCHANGED <<valid, arms, retired, pc, todo, cur, failures>>
        /\ wait' \in [Backends -> {"none", "start", "wait", "ok", "err"}]
    BY <1>9 DEF CollectArm, Core, TypeOK
  <2>2. CASE heap' = heap
    BY <2>1, <2>2, SameArms DEF Core, TypeOK
  <2>3. ASSUME arms[b] \in ArmIds, MayCollect(heap[arms[b]]),
               heap' = [heap EXCEPT ![arms[b]].busy = TRUE,
                                    ![arms[b]].calls = IF @ < 2 THEN @ + 1 ELSE @]
        PROVE  Core'
    <3> DEFINE i == arms[b]
               n == IF heap[i].calls < 2 THEN heap[i].calls + 1 ELSE heap[i].calls
               new == [heap[i] EXCEPT !.busy = TRUE, !.calls = n]
    <3>1. heap[i] \in Arm /\ ArmOK(heap[i]) /\ heap[i].calls = 0
      BY <2>3 DEF Core, TypeOK, Life, ArmOK, MayCollect, Arm
    <3>2. heap' = [heap EXCEPT ![i] = new]
      BY <2>3 DEF Core, TypeOK
    <3>3. /\ new \in Arm /\ ArmOK(new) /\ new.closed = heap[i].closed /\ ~new.closed
          /\ new.backend = heap[i].backend /\ new.ad = heap[i].ad
      <4>1. n = 1 /\ n \in 0..2
        BY <3>1
      <4> HIDE DEF n
      <4>2. /\ new \in Arm /\ new.calls = 1 /\ new.busy
            /\ new.closed = heap[i].closed
            /\ new.backend = heap[i].backend /\ new.ad = heap[i].ad
        BY <3>1, <4>1 DEF Arm
      <4>3. ~heap[i].closed /\ heap[i].ad = "open"
        BY <2>3, <3>1 DEF ArmOK, MayCollect, Arm
      <4> HIDE DEF new
      <4> QED BY <4>2, <4>3 DEF ArmOK
    <3> HIDE DEF new
    <3>4. heap' \in [ArmIds -> Arm]
      BY <2>3, <3>2, <3>3 DEF Core, TypeOK
    <3>5. \A j \in ArmIds : /\ ArmOK(heap'[j])
                            /\ heap'[j].closed = heap[j].closed
                            /\ heap'[j].backend = heap[j].backend
                            /\ heap'[j].busy /\ heap[j].closed => heap[j].busy
                            /\ heap'[j].ad = "open" => heap[j].ad = "open"
      BY <2>3, <3>2, <3>3 DEF Core, TypeOK, Life
    <3> QED BY <2>1, <3>4, <3>5, SameMaps DEF Core, TypeOK
  <2>4. arms[b] = NoArm => heap' = heap
    BY <1>9, ArmIdsAssumption DEF CollectArm, Core, TypeOK
  <2>5. arms[b] \in ArmIds \/ arms[b] = NoArm
    BY DEF Core, TypeOK
  <2>6. CASE MayCollect(heap[arms[b]]) /\ arms[b] \in ArmIds
    BY <1>9, <2>3, <2>6 DEF CollectArm
  <2>7. CASE ~MayCollect(heap[arms[b]])
    BY <1>9, <2>2, <2>7 DEF CollectArm
  <2> QED BY <2>2, <2>4, <2>5, <2>6, <2>7
<1>10. ASSUME NEW i \in ArmIds, WorkerReturns(i) PROVE Core'
  <2> DEFINE n == heap[i].calls - 1
             ad == IF heap[i].closed THEN CloseAd(heap[i].ad) ELSE heap[i].ad
             new == [heap[i] EXCEPT !.busy = FALSE, !.calls = n, !.ad = ad]
  <2>1. heap[i] \in Arm /\ ArmOK(heap[i]) /\ heap[i].calls = 1 /\ heap[i].ad = "open"
    BY <1>10 DEF WorkerReturns, Core, TypeOK, Life, ArmOK, Arm
  <2>2. /\ heap' = [heap EXCEPT ![i] = new]
        /\ UNCHANGED <<valid, arms, retired, pc, todo, cur, wait, failures>>
    BY <1>10, <2>1 DEF WorkerReturns, Core, TypeOK, Arm
  <2>3. /\ new \in Arm /\ ArmOK(new) /\ new.closed = heap[i].closed
        /\ new.backend = heap[i].backend /\ ~new.busy
    <3>0. n = 0 /\ n \in 0..2 /\ ad \in {"nil", "open", "closed", "twice"}
      BY <2>1, CloseAdType DEF Arm
    <3> HIDE DEF n, ad
    <3>1. /\ new \in Arm /\ new.calls = 0 /\ ~new.busy
          /\ new.closed = heap[i].closed /\ new.backend = heap[i].backend
          /\ new.ad = ad
      BY <2>1, <3>0 DEF Arm
    <3>2. CloseAd("open") = "closed"
      BY DEF CloseAd
    <3> HIDE DEF new
    <3> QED BY <2>1, <3>1, <3>2 DEF ArmOK, ad
  <2> HIDE DEF new
  <2>4. heap' \in [ArmIds -> Arm]
    BY <2>2, <2>3 DEF Core, TypeOK
  <2>5. \A j \in ArmIds : /\ ArmOK(heap'[j])
                          /\ heap'[j].closed = heap[j].closed
                          /\ heap'[j].backend = heap[j].backend
                          /\ heap'[j].busy /\ heap[j].closed => heap[j].busy
                          /\ heap'[j].ad = "open" => heap[j].ad = "open"
    BY <2>1, <2>2, <2>3 DEF Core, TypeOK, Life
  <2> QED BY <2>2, <2>4, <2>5, SameMaps DEF Core, TypeOK
<1>11. ASSUME NEW b \in Backends, WaitEnds(b) PROVE Core'
  <2>1. wait' \in [Backends -> {"none", "start", "wait", "ok", "err"}]
    BY <1>11 DEF WaitEnds, Core, TypeOK
  <2> QED BY <1>11, <2>1, SameArms DEF WaitEnds, Core, TypeOK
<1>12. CASE Report
  <2> DEFINE failed == {b \in Backends : wait[b] = "err"}
  <2>1. /\ heap' = [i \in ArmIds |-> IF \E b \in failed : arms[b] = i
                                     THEN [heap[i] EXCEPT !.errors = OneMore(heap[i].errors)]
                                     ELSE heap[i]]
        /\ failures' = [b \in Backends |-> IF b \in failed THEN OneMore(failures[b])
                                                            ELSE failures[b]]
        /\ pc' = "idle" /\ wait' = [b \in Backends |-> "none"]
        /\ UNCHANGED <<valid, arms, retired, todo, cur>>
    BY <1>12 DEF Report
  <2> HIDE DEF failed
  <2>2. \A i \in ArmIds : /\ heap[i] \in Arm
                          /\ OneMore(heap[i].errors) \in 0..MaxErrors
    BY OneMoreType DEF Core, TypeOK, Arm
  <2>3. heap' \in [ArmIds -> Arm]
    BY <2>1, <2>2 DEF Arm
  <2>4. \A i \in ArmIds : /\ heap'[i].calls = heap[i].calls /\ heap'[i].busy = heap[i].busy
                          /\ heap'[i].closed = heap[i].closed /\ heap'[i].ad = heap[i].ad
                          /\ heap'[i].backend = heap[i].backend
    BY <2>1, <2>2 DEF Arm
  <2>5. \A i \in ArmIds : ArmOK(heap'[i])
    BY <2>4 DEF Core, Life, ArmOK
  <2>6. failures' \in [Backends -> 0..MaxErrors]
    BY <2>1, OneMoreType DEF Core, TypeOK
  <2> QED BY <2>1, <2>3, <2>4, <2>5, <2>6, SameMaps DEF Core, TypeOK
<1>13. CASE BeginClose
  BY <1>13, SameArms DEF BeginClose, Keys, Core, TypeOK
<1>14. CASE CloseReturns \/ UNCHANGED vars
  BY <1>14, SameArms DEF CloseReturns, vars, Core, TypeOK
<1> QED BY <1>1, <1>2, <1>3, <1>4, <1>5, <1>6, <1>7, <1>8, <1>9, <1>10, <1>11,
           <1>12, <1>13, <1>14 DEF Next, Scraper

(* Every step keeps what sync knows of the arm it replaces, and what the   *)
(* two loops that drop arms know of their keys.                            *)
LEMMA LoopStep == IInv /\ [Next]_vars => (CurClosed /\ TodoMapped)'
<1> SUFFICES ASSUME IInv, [Next]_vars PROVE (CurClosed /\ TodoMapped)'
  OBVIOUS
<1> USE DEF IInv
<1>1. CASE BeginScrape
  <2>1. cur = {}
    BY <1>1 DEF BeginScrape, CurClosed
  <2> QED BY <1>1, <2>1 DEF BeginScrape, CurClosed, TodoMapped
<1>2. CASE Retire
  BY <1>2 DEF Retire, CurClosed, TodoMapped
<1>3. ASSUME NEW b \in Backends, SyncRetired(b) PROVE (CurClosed /\ TodoMapped)'
  BY <1>3 DEF SyncRetired, CurClosed, TodoMapped
<1>4. ASSUME NEW b \in Backends, SyncArm(b) PROVE (CurClosed /\ TodoMapped)'
  <2> DEFINE m == [retired EXCEPT ![b] = NoArm]
  <2>1. /\ pc = "sync" /\ pc' = "sync" /\ cur = {} /\ b \in todo /\ arms' = arms
        /\ retired[b] = NoArm \/ ~heap[retired[b]].busy
        /\ m[b] = NoArm
    BY <1>4 DEF SyncArm, Core, TypeOK
  <2>2. CASE cur' = cur
    BY <2>1, <2>2 DEF CurClosed, TodoMapped
  <2>3. CASE arms[b] = NoArm /\ cur' = {b} /\ retired' = m /\ todo' = todo
    BY <2>1, <2>3 DEF CurClosed, TodoMapped
  <2>4. CASE arms[b] # NoArm /\ cur' = {b} /\ CloseArm(b, m) /\ todo' = todo
    <3>1. /\ heap'[arms[b]].closed
          /\ retired'[b] \in {NoArm, arms[b]}
      <4>1. /\ UNCHANGED <<valid, wait, failures>> /\ todo' \in SUBSET Backends
            /\ cur' \in SUBSET Backends
        BY <1>4, <2>4 DEF SyncArm, Core, TypeOK
      <4> HIDE DEF m
      <4>2. m \in {retired, [retired EXCEPT ![b] = NoArm]}
        BY DEF m
      <4> QED BY <2>1, <2>4, <4>1, <4>2, CloseKeeps
    <3> QED BY <2>1, <2>4, <3>1 DEF CurClosed, TodoMapped
  <2> QED BY <1>4, <2>2, <2>3, <2>4 DEF SyncArm
<1>5. ASSUME NEW b \in Backends, SyncReplace(b) PROVE (CurClosed /\ TodoMapped)'
  BY <1>5 DEF SyncReplace, CurClosed, TodoMapped
<1>6. CASE SyncDone
  <2>1. cur = {}
    BY <1>6 DEF SyncDone, CurClosed
  <2> QED BY <1>6, <2>1 DEF SyncDone, Keys, CurClosed, TodoMapped
<1>7. ASSUME NEW b \in Backends, DropArm(b) PROVE (CurClosed /\ TodoMapped)'
  <2>1. cur = {} /\ cur' = {}
    BY <1>7 DEF DropArm, CurClosed
  <2>2. TodoMapped'
    BY <1>7 DEF DropArm, TodoMapped, Core, TypeOK
  <2> QED BY <2>1, <2>2 DEF CurClosed
<1>8. CASE DropDone \/ Report \/ BeginClose
  <2>1. cur = {} /\ cur' = {}
    BY <1>8 DEF DropDone, Report, BeginClose, CurClosed
  <2> QED BY <1>8, <2>1 DEF DropDone, Report, BeginClose, Keys, CurClosed, TodoMapped
<1>9. ASSUME NEW b \in Backends, CollectArm(b) \/ WaitEnds(b)
      PROVE  (CurClosed /\ TodoMapped)'
  <2>1. cur = {} /\ cur' = {}
    BY <1>9 DEF CollectArm, WaitEnds, CurClosed
  <2> QED BY <1>9, <2>1 DEF CollectArm, WaitEnds, CurClosed, TodoMapped
<1>10. ASSUME NEW i \in ArmIds, WorkerReturns(i) PROVE (CurClosed /\ TodoMapped)'
  <2>1. \A j \in ArmIds : heap'[j].closed = heap[j].closed
    BY <1>10 DEF WorkerReturns, Core, TypeOK, Arm
  <2>2. UNCHANGED <<arms, retired, pc, todo, cur>>
    BY <1>10 DEF WorkerReturns
  <2> QED BY <2>1, <2>2 DEF CurClosed, TodoMapped, Core, TypeOK
<1>11. CASE CloseReturns \/ UNCHANGED vars
  BY <1>11 DEF CloseReturns, vars, CurClosed, TodoMapped
<1> QED BY <1>1, <1>2, <1>3, <1>4, <1>5, <1>6, <1>7, <1>8, <1>9, <1>10, <1>11
        DEF Next, Scraper

(* The invariant of collector.go, from which the theorems follow. *)
THEOREM Invariant == Spec => []IInv
<1>1. Init => IInv
  BY InitInv
<1>2. IInv /\ [Next]_vars => IInv'
  BY CoreStep, LoopStep DEF IInv
<1> QED BY <1>1, <1>2, PTL DEF Spec

(* Two Collect calls are never in flight for one backend, although a hung  *)
(* call outlives its scrape and its registration.                          *)
THEOREM OneCollect == Spec => []OneCollectInFlight
<1>1. IInv => OneCollectInFlight
  <2> SUFFICES ASSUME IInv PROVE OneCollectInFlight
    OBVIOUS
  <2>1. \A i \in ArmIds : /\ heap[i] \in Arm /\ heap[i].backend \in Backends
                          /\ heap[i].calls < 2
                          /\ heap[i].calls > 0 => heap[i].busy /\ heap[i].ad = "open"
    BY DEF IInv, Core, TypeOK, Arm, Life, ArmOK
  <2>2. ASSUME NEW i \in ArmIds, NEW j \in ArmIds, heap[i].calls > 0, heap[j].calls > 0,
               heap[i].backend = heap[j].backend
        PROVE  i = j
    <3> DEFINE b == heap[i].backend
    <3>1. i = IF heap[i].closed THEN retired[b] ELSE arms[b]
      BY <2>1, <2>2 DEF IInv, Core, Located
    <3>2. j = IF heap[j].closed THEN retired[b] ELSE arms[b]
      BY <2>1, <2>2 DEF IInv, Core, Located
    <3>3. ~(retired[b] # NoArm /\ arms[b] # NoArm /\ heap[retired[b]].busy
             /\ ~heap[arms[b]].closed)
      BY <2>1 DEF IInv, Core, Held
    <3> QED BY <2>1, <2>2, <3>1, <3>2, <3>3, ArmIdsAssumption
  <2> QED BY <2>1, <2>2 DEF OneCollectInFlight
<1> QED BY <1>1, Invariant, PTL

(* An adapter is closed once, and never under the call that is in it. *)
THEOREM SafeClose == Spec => []CloseIsSafe
<1>1. IInv => CloseIsSafe
  BY DEF IInv, Core, TypeOK, Arm, Life, ArmOK, CloseIsSafe
<1> QED BY <1>1, Invariant, PTL

(* No adapter is forgotten before it is closed. *)
THEOREM NoAdapterLeaks == Spec => []NoLeak
<1>1. IInv => NoLeak
  BY DEF IInv, Core, TypeOK, Arm, Life, ArmOK, Located, NoLeak
<1> QED BY <1>1, Invariant, PTL

(* Every variable keeps its type, and the maps keep arms under their key. *)
THEOREM TypeCorrect == Spec => []TypeOK
<1>1. IInv => TypeOK
  BY DEF IInv, Core
<1> QED BY <1>1, Invariant, PTL

-----------------------------------------------------------------------------
(* What a scrape knows of an arm once sync is past it: it was made for the *)
(* registration the scrape loaded (Synced); an arm without a registration  *)
(* is left to the drop loop (Dropped); and an arm that is waited for is    *)
(* not closed until the scrape has reported (Called).                      *)
Fits(b) == arms[b] # NoArm /\ heap[arms[b]].reg = valid[b]

Synced == pc \in {"sync", "drop", "collect"} =>
    \A b \in Backends : valid[b] # NoReg /\ (pc = "sync" => b \notin todo) => Fits(b)

Dropped == pc \in {"drop", "collect"} =>
    \A b \in Backends : /\ arms[b] # NoArm /\ valid[b] = NoReg => pc = "drop" /\ b \in todo
                        /\ pc = "drop" /\ b \in todo => valid[b] = NoReg

Called == pc = "collect" =>
    \A b \in Backends : /\ wait[b] # "none" => arms[b] # NoArm
                        /\ wait[b] \in {"wait", "ok"} => ~heap[arms[b]].closed

RunInv == Synced /\ Dropped /\ Called

(* An arm in the map keeps its registration under a step that places none  *)
(* there and closes at most some.                                          *)
LEMMA PlaceFits ==
    ASSUME Core, NEW b \in Backends, NEW closed, NEW ads, Place(b, closed, ads),
           valid' = valid
    PROVE  /\ Fits(b)'
           /\ \A c \in Backends : Fits(c) => Fits(c)'
<1> DEFINE i == CHOOSE j \in ArmIds : ~Reachable(j)
<1>1. i \in ArmIds /\ ~Reachable(i)
  BY DEF Place
<1> HIDE DEF i
<1>2. PICK ad \in ads :
        /\ heap' = [heap EXCEPT ![i] = [backend |-> b, reg |-> valid[b],
                       busy |-> FALSE, closed |-> closed, ad |-> ad,
                       errors |-> 0, calls |-> 0]]
        /\ arms' = [arms EXCEPT ![b] = i]
  BY DEF Place, i
<1>3. \A c \in Backends : arms[c] # i
  BY <1>1 DEF Reachable
<1>4. arms'[b] = i /\ heap'[i].reg = valid[b]
  BY <1>1, <1>2 DEF Core, TypeOK
<1>5. \A c \in Backends \ {b} : arms'[c] = arms[c] /\ (arms[c] # NoArm => heap'[arms[c]] = heap[arms[c]])
  BY <1>1, <1>2, <1>3 DEF Core, TypeOK
<1> QED BY <1>1, <1>4, <1>5, ArmIdsAssumption DEF Fits

LEMMA CloseFits ==
    ASSUME Core, NEW b \in Backends, NEW m, CloseArm(b, m), arms[b] # NoArm
    PROVE  /\ \A i \in ArmIds : heap'[i].reg = heap[i].reg
           /\ \A i \in ArmIds \ {arms[b]} : heap'[i] = heap[i]
<1>1. arms[b] \in ArmIds /\ \A i \in ArmIds : heap[i] \in Arm
  BY DEF Core, TypeOK
<1> QED BY <1>1 DEF CloseArm, Core, TypeOK, Arm

(* Every step keeps what the scrape knows of its arms. *)
LEMMA RunStep == IInv /\ RunInv /\ [Next]_vars => RunInv'
<1> SUFFICES ASSUME IInv, RunInv, [Next]_vars PROVE RunInv'
  OBVIOUS
<1> USE DEF IInv, RunInv
<1>0. \A b \in Backends : arms[b] # NoArm => arms[b] \in ArmIds
  BY DEF Core, TypeOK
<1>1. CASE BeginScrape \/ Report \/ BeginClose \/ CloseReturns
  <2>1. pc' \notin {"sync", "drop", "collect"}
    BY <1>1 DEF BeginScrape, Report, BeginClose, CloseReturns
  <2> QED BY <2>1 DEF Synced, Dropped, Called
<1>2. CASE Retire
  BY <1>2 DEF Retire, Synced, Dropped, Called
<1>3. ASSUME NEW b \in Backends, SyncRetired(b) \/ SyncReplace(b) PROVE RunInv'
  <2>1. /\ pc = "sync" /\ pc' = "sync" /\ valid' = valid /\ todo' = todo \ {b}
        /\ \E closed \in BOOLEAN, ads \in SUBSET {"nil", "open"} : Place(b, closed, ads)
    BY <1>3 DEF SyncRetired, SyncReplace
  <2>2. Fits(b)' /\ \A c \in Backends : Fits(c) => Fits(c)'
    BY <2>1, PlaceFits
  <2> QED BY <2>1, <2>2 DEF Synced, Dropped, Called
<1>4. ASSUME NEW b \in Backends, SyncArm(b) PROVE RunInv'
  <2>1. pc = "sync" /\ pc' = "sync" /\ UNCHANGED <<valid, arms>>
    BY <1>4 DEF SyncArm
  <2>2. \A i \in ArmIds : heap'[i].reg = heap[i].reg
    <3>1. (arms[b] # NoArm /\ CloseArm(b, [retired EXCEPT ![b] = NoArm])) \/ heap' = heap
      BY <1>4 DEF SyncArm
    <3> QED BY <3>1, CloseFits
  <2>3. todo' = todo \/ (todo' = todo \ {b} /\ Fits(b))
    BY <1>4 DEF SyncArm, Current, Fits
  <2> QED BY <1>0, <2>1, <2>2, <2>3 DEF Synced, Dropped, Called, Fits
<1>5. CASE SyncDone
  BY <1>5 DEF SyncDone, Keys, Synced, Dropped, Called, Fits
<1>6. ASSUME NEW b \in Backends, DropArm(b) PROVE RunInv'
  <2>1. CASE pc = "close"
    BY <1>6, <2>1 DEF DropArm, Synced, Dropped, Called
  <2>2. CASE pc = "drop"
    <3>1. /\ b \in todo /\ arms[b] # NoArm /\ CloseArm(b, retired)
          /\ arms' = [arms EXCEPT ![b] = NoArm] /\ todo' = todo \ {b}
          /\ pc' = "drop" /\ valid' = valid
      BY <1>6, <2>2 DEF DropArm, TodoMapped
    <3>2. valid[b] = NoReg
      BY <2>2, <3>1 DEF Dropped
    <3>3. \A c \in Backends \ {b} : arms'[c] = arms[c]
      BY <3>1 DEF Core, TypeOK
    <3>4. arms'[b] = NoArm /\ \A i \in ArmIds : heap'[i].reg = heap[i].reg
      BY <3>1, CloseFits DEF Core, TypeOK
    <3> QED BY <1>0, <2>2, <3>1, <3>2, <3>3, <3>4 DEF Synced, Dropped, Called, Fits
  <2> QED BY <1>6, <2>1, <2>2 DEF DropArm
<1>7. CASE DropDone
  BY <1>7 DEF DropDone, Synced, Dropped, Called, Fits
<1>8. ASSUME NEW b \in Backends, CollectArm(b) PROVE RunInv'
  <2>1. /\ pc = "collect" /\ pc' = "collect" /\ UNCHANGED <<valid, arms, todo>>
        /\ wait[b] = "start" /\ arms[b] \in ArmIds
        /\ wait' \in {[wait EXCEPT ![b] = "wait"], [wait EXCEPT ![b] = "err"]}
        /\ wait' = [wait EXCEPT ![b] = "wait"] => ~heap[arms[b]].closed
    BY <1>0, <1>8 DEF CollectArm, MayCollect, Called, Core, TypeOK
  <2>2. \A j \in ArmIds : heap'[j].reg = heap[j].reg /\ heap'[j].closed = heap[j].closed
    <3>1. \/ heap' = heap
          \/ heap' = [heap EXCEPT ![arms[b]].busy = TRUE,
                                  ![arms[b]].calls = IF @ < 2 THEN @ + 1 ELSE @]
      BY <1>8 DEF CollectArm
    <3>2. heap \in [ArmIds -> Arm]
      BY DEF Core, TypeOK
    <3> QED BY ONLY <2>1, <3>1, <3>2 DEF Arm
  <2>3. Synced' /\ Dropped'
    BY <1>0, <2>1, <2>2 DEF Synced, Dropped, Fits
  <2>4. Called'
    BY <1>0, <2>1, <2>2 DEF Called, Core, TypeOK
  <2> QED BY <2>3, <2>4
<1>9. ASSUME NEW i \in ArmIds, WorkerReturns(i) PROVE RunInv'
  <2>1. \A j \in ArmIds : heap'[j].reg = heap[j].reg /\ heap'[j].closed = heap[j].closed
    BY <1>9 DEF WorkerReturns, Core, TypeOK, Arm
  <2>2. UNCHANGED <<valid, arms, pc, todo, wait>>
    BY <1>9 DEF WorkerReturns
  <2> QED BY <1>0, <2>1, <2>2 DEF Synced, Dropped, Called, Fits
<1>10. ASSUME NEW b \in Backends, WaitEnds(b) PROVE RunInv'
  BY <1>10 DEF WaitEnds, Synced, Dropped, Called, Fits, Core, TypeOK
<1>11. CASE UNCHANGED vars
  BY <1>11 DEF vars, Synced, Dropped, Called, Fits
<1> QED BY <1>1, <1>2, <1>3, <1>4, <1>5, <1>6, <1>7, <1>8, <1>9, <1>10, <1>11
        DEF Next, Scraper

(* What a scrape reports as read was read by an open adapter of the very   *)
(* registration the scrape loaded, whatever hung workers of earlier        *)
(* registrations do meanwhile.                                             *)
THEOREM ReportsCurrent == Spec => []ReportsCurrentRun
<1>1. Init => RunInv
  BY DEF Init, RunInv, Synced, Dropped, Called
<1>2. IInv /\ RunInv /\ [Next]_vars => RunInv'
  BY RunStep
<1>3. RunInv => ReportsCurrentRun
  BY DEF RunInv, Synced, Dropped, Called, Fits, ReportsCurrentRun
<1> QED BY <1>1, <1>2, <1>3, Invariant, PTL DEF Spec
=============================================================================
