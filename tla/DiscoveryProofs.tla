---------------------------- MODULE DiscoveryProofs ----------------------------
(***************************************************************************)
(* What discovery reports, for any number of ports, processes and models,  *)
(* any cap and any number of workers.                                      *)
(*                                                                         *)
(* The types need that the rotation starts inside of the targets it goes   *)
(* round (StartOK) and that a second snapshot has an origin (Fetched).     *)
(* That samples carry the right labels needs to know of a probe that has   *)
(* its second snapshot that the process it came from is of the engine that *)
(* was detected, and serves the model that was read before, if the port    *)
(* still does (Bracket).                                                   *)
(***************************************************************************)
EXTENDS Discovery, FiniteSetTheorems, SequenceTheorems, TLAPS

ObsState == [pc : {"idle", "probe"}, unique : SUBSET Targets, start : 0..NumTargets - 1,
             gens : [Targets -> 0..MaxProcs], ports : SUBSET Targets,
             names : SUBSET Targets, elapsed : 1..ForgetAfter + 1, done : BOOLEAN]

ProbeState == [pc : {"wait", "metrics", "before", "again", "after", "done"},
               engine : Engines \cup {Unknown}, model : Models \cup {Unknown},
               label : Models \cup {NoModel}, proc : 0..MaxProcs, res : Result]

Observations == [Targets -> Observation \cup {NoObs}]

StartOK ==
    /\ obs.unique # {} => obs.start < Cardinality(obs.unique)
    /\ obs.unique \cap obs.ports = {}

Fetched == \A t \in Targets : probes[t].pc = "after" => probes[t].proc # 0

IInv == TypeOK /\ StartOK /\ Fetched

-----------------------------------------------------------------------------
(* The operators. *)

LEMMA Sizes ==
    /\ NumTargets \in Nat /\ NumTargets > 0 /\ MaxTargets \in Nat /\ MaxTargets > 0
    /\ Workers \in Nat /\ Workers > 0 /\ Factor \in Nat /\ Factor > 0
    /\ ForgetAfter \in Nat /\ MaxProcs \in Nat
    /\ Factor * MaxTargets \in Nat /\ MaxTargets <= Factor * MaxTargets
<1>1. /\ NumTargets \in Nat /\ NumTargets > 0 /\ MaxTargets \in Nat /\ MaxTargets > 0
      /\ Workers \in Nat /\ Workers > 0 /\ Factor \in Nat /\ Factor > 0
      /\ ForgetAfter \in Nat /\ MaxProcs \in Nat
  BY SizesAssumption
<1>2. \A f, n \in Nat : f > 0 => f * n \in Nat /\ n <= f * n
  OBVIOUS
<1> QED BY <1>1, <1>2

(* Sets of targets are finite. *)
LEMMA TargetsFinite ==
    ASSUME NEW S \in SUBSET Targets
    PROVE  IsFiniteSet(S) /\ Cardinality(S) \in 0..NumTargets
<1>1. IsFiniteSet(Targets) /\ Cardinality(Targets) = NumTargets
  BY Sizes, FS_Interval DEF Targets
<1>2. IsFiniteSet(S) /\ Cardinality(S) <= NumTargets
  BY <1>1, FS_Subset
<1> QED BY <1>2, FS_CardinalityType, Sizes

LEMMA SignaturesFinite == IsFiniteSet(Signatures)
<1>1. IsFiniteSet({"vllm", "llamacpp", "sglang"})
  <2>1. IsFiniteSet({"vllm"}) /\ IsFiniteSet({"llamacpp"}) /\ IsFiniteSet({"sglang"})
    BY FS_Singleton
  <2>2. {"vllm", "llamacpp", "sglang"} = ({"vllm"} \cup {"llamacpp"}) \cup {"sglang"}
    OBVIOUS
  <2>3. IsFiniteSet({"vllm"} \cup {"llamacpp"})
    BY <2>1, FS_Union
  <2>4. IsFiniteSet(({"vllm"} \cup {"llamacpp"}) \cup {"sglang"})
    BY ONLY <2>1, <2>3, FS_Union
  <2> QED BY ONLY <2>2, <2>4
<1>2. IsFiniteSet({"patch0150"}) /\ IsFiniteSet({"native"})
  BY FS_Singleton
<1>3. IsFiniteSet({"patch0150"} \cup {"native"})
  BY <1>2, FS_Union
<1>4. Signatures = {"vllm", "llamacpp", "sglang"} \cup ({"patch0150"} \cup {"native"})
  BY DEF Signatures
<1> QED BY <1>1, <1>3, <1>4, FS_Union

(* Detect succeeds for one signature only, and takes the model from labels *)
(* that name one.                                                          *)
LEMMA DetectFacts ==
    ASSUME NEW b \in Body
    PROVE  LET d == Detect(b) IN
           /\ d.err \in BOOLEAN /\ d.engine \in Engines \cup {Unknown}
           /\ d.model \in Models \cup {NoModel}
           /\ ~d.err => ~b.mlx /\ \E s \in Signatures : b.sigs = {s} /\ d.engine = EngineOf(s)
           /\ ~d.err /\ d.model # NoModel => b.labels = {d.model}
<1> DEFINE matches == IF b.mlx THEN b.sigs \ {"vllm"} ELSE b.sigs
           models == IF matches \subseteq Labelled THEN b.labels ELSE {}
<1>1. CASE b.mlx \/ Cardinality(matches) # 1
  <2>1. Detect(b) = [err |-> TRUE, model |-> NoModel,
                     engine |-> IF b.mlx /\ matches = {} THEN "mlx-serve" ELSE Unknown]
    BY <1>1 DEF Detect
  <2> QED BY <2>1 DEF Engines
<1>2. CASE ~(b.mlx \/ Cardinality(matches) # 1)
  <2>1. /\ b.sigs \subseteq Signatures /\ b.labels \subseteq Models /\ b.mlx \in BOOLEAN
        /\ matches = b.sigs /\ Cardinality(b.sigs) = 1
    BY <1>2 DEF Body
  <2>2. IsFiniteSet(b.sigs)
    BY <2>1, SignaturesFinite, FS_Subset
  <2>3. PICK s : b.sigs = {s}
    BY <2>1, <2>2, FS_Singleton
  <2>4. s \in Signatures
    BY <2>1, <2>3
  <2>5. IsFiniteSet(models)
    BY <2>1, SetsAssumption, FS_Subset, FS_EmptySet
  <2>6. Cardinality(models) = 1 => \E m : models = {m}
    BY <2>5, FS_Singleton
  <2>7. Cardinality(models) = 1 =>
           /\ (CHOOSE m \in models : TRUE) \in Models
           /\ b.labels = {CHOOSE m \in models : TRUE}
    BY <2>1, <2>6
  <2>8. (CHOOSE x \in matches : TRUE) = s
    BY <2>1, <2>3
  <2> DEFINE err == Cardinality(models) > 1
             engine == EngineOf(CHOOSE x \in matches : TRUE)
             model == IF Cardinality(models) = 1 THEN CHOOSE m \in models : TRUE
                      ELSE NoModel
  <2>9. Detect(b) = [err |-> err, engine |-> engine, model |-> model]
    BY <1>2 DEF Detect
  <2>10. /\ Detect(b).err = err /\ Detect(b).err \in BOOLEAN /\ Detect(b).engine = EngineOf(s)
         /\ Detect(b).model = model
    <3> HIDE DEF matches, models
    <3>1. engine = EngineOf(s)
      BY <2>8, Zenon
    <3>2. err \in BOOLEAN
      OBVIOUS
    <3> HIDE DEF err, engine, model
    <3> QED BY <2>9, <3>1, <3>2
  <2> HIDE DEF matches, models
  <2>11. Detect(b).engine \in Engines
    BY <2>4, <2>10 DEF Engines
  <2>12. Detect(b).model \in Models \cup {NoModel}
    BY <2>7, <2>10
  <2>13. Detect(b).model # NoModel => b.labels = {Detect(b).model}
    BY <2>7, <2>10
  <2> QED BY <1>2, <2>3, <2>4, <2>10, <2>11, <2>12, <2>13
<1> QED BY <1>1, <1>2

-----------------------------------------------------------------------------
(* The rotation. *)

(* Targets have different places in it. *)
LEMMA PosInjective ==
    ASSUME IInv, NEW t \in obs.unique, NEW u \in obs.unique, t # u
    PROVE  Pos(t) \in Nat /\ Pos(t) # Pos(u)
<1> DEFINE n == Cardinality(obs.unique)
           Below(x) == {y \in obs.unique : y < x}
<1>1. /\ obs.unique \in SUBSET Targets /\ t \in Nat /\ u \in Nat
      /\ obs.start \in Nat /\ obs.start < n /\ obs.unique \subseteq Nat
  <2>1. obs.unique \in SUBSET Targets /\ obs.start \in 0..NumTargets - 1
    BY DEF IInv, TypeOK
  <2>2. obs.start < n
    BY DEF IInv, StartOK
  <2> QED BY <2>1, <2>2, Sizes DEF Targets
<1>2. IsFiniteSet(obs.unique) /\ n \in Nat
  BY <1>1, TargetsFinite
<1>3. ASSUME NEW x \in obs.unique PROVE /\ IsFiniteSet(Below(x)) /\ Cardinality(Below(x)) \in Nat
                                        /\ Cardinality(Below(x)) < n
  <2>1. Below(x) \in SUBSET obs.unique /\ x \notin Below(x)
    BY <1>1
  <2>2. /\ IsFiniteSet(Below(x)) /\ Cardinality(Below(x)) <= n
        /\ n = Cardinality(Below(x)) => obs.unique = Below(x)
    BY <1>2, <2>1, FS_Subset
  <2> QED BY <1>2, <2>1, <2>2, FS_CardinalityType
<1>4. ASSUME NEW x \in obs.unique, NEW y \in obs.unique, x < y
      PROVE  Cardinality(Below(x)) < Cardinality(Below(y))
  <2>1. Below(x) \in SUBSET Below(y) /\ x \in Below(y) /\ x \notin Below(x)
    BY <1>1, <1>4
  <2>2. IsFiniteSet(Below(y))
    BY <1>3
  <2>3. /\ Cardinality(Below(x)) <= Cardinality(Below(y))
        /\ Cardinality(Below(y)) = Cardinality(Below(x)) => Below(y) = Below(x)
    BY <2>1, <2>2, FS_Subset
  <2>4. Below(y) # Below(x)
    BY <2>1
  <2>5. Cardinality(Below(x)) \in Nat /\ Cardinality(Below(y)) \in Nat
    BY <1>3
  <2> HIDE DEF Below
  <2> QED BY <2>3, <2>4, <2>5
<1> HIDE DEF n
<1>5. Rank(t) # Rank(u)
  <2>1. Rank(t) = Cardinality(Below(t)) /\ Rank(u) = Cardinality(Below(u))
    BY DEF Rank
  <2>2. Rank(t) \in Nat /\ Rank(u) \in Nat
    BY <1>3, <2>1
  <2> HIDE DEF Below
  <2>3. t < u \/ u < t
    BY <1>1
  <2> QED BY <1>4, <2>1, <2>2, <2>3
<1>6. /\ Rank(t) \in Nat /\ Rank(t) < n /\ Rank(u) \in Nat /\ Rank(u) < n
  BY <1>3 DEF Rank
<1>7. \A a, b, s \in Nat : a < n /\ b < n /\ s < n /\ (a + n - s) % n = (b + n - s) % n => a = b
  <2> SUFFICES ASSUME NEW a \in Nat, NEW b \in Nat, NEW s \in Nat, a < n, b < n, s < n,
                      (a + n - s) % n = (b + n - s) % n
               PROVE  a = b
    OBVIOUS
  <2> QED BY <1>2
<1>8. Pos(t) = (Rank(t) + n - obs.start) % n /\ Pos(u) = (Rank(u) + n - obs.start) % n
  BY DEF Pos, n
<1>9. (Rank(t) + n - obs.start) % n \in Nat
  BY <1>1, <1>2, <1>6
<1> QED BY <1>1, <1>5, <1>6, <1>7, <1>8, <1>9

(* A call probes no more than MaxTargets targets. *)
LEMMA KeysBound ==
    ASSUME IInv
    PROVE  Keys \in SUBSET Targets /\ IsFiniteSet(Keys) /\ Cardinality(Keys) <= MaxTargets
<1>1. Keys \in SUBSET Targets
  BY DEF IInv, TypeOK, Keys
<1>2. IsFiniteSet(Keys) /\ Cardinality(Keys) \in Nat
  BY <1>1, TargetsFinite
<1> DEFINE T == 0 .. MaxTargets - 1
           f == [t \in Keys |-> Pos(t)]
<1>3. IsFiniteSet(T) /\ Cardinality(T) = MaxTargets
  BY Sizes, FS_Interval
<1>4. CASE \E t, u \in Keys : t # u
  <2>1. \A t \in Keys : Pos(t) \in T
    <3> SUFFICES ASSUME NEW t \in Keys PROVE Pos(t) \in T
      OBVIOUS
    <3>1. PICK u \in Keys : t # u
      BY <1>4
    <3>2. t \in obs.unique /\ u \in obs.unique /\ Pos(t) < MaxTargets
      BY DEF Keys
    <3>3. Pos(t) \in Nat
      BY <3>1, <3>2, PosInjective
    <3> QED BY <3>2, <3>3, Sizes
  <2>2. \A t, u \in Keys : t # u => Pos(t) # Pos(u)
    BY PosInjective DEF Keys
  <2>3. f \in Injection(Keys, T)
    BY <2>1, <2>2 DEF Injection, IsInjective
  <2> QED BY <1>1, <1>2, <1>3, <2>3, FS_Injection
<1>5. CASE \A t, u \in Keys : t = u
  <2>1. Keys = {} \/ \E t : Keys = {t}
    BY <1>5
  <2>2. Cardinality(Keys) <= 1
    <3>1. \A t : Cardinality({t}) = 1
      BY FS_Singleton
    <3>2. Cardinality({}) = 0
      BY FS_EmptySet
    <3> QED BY <2>1, <3>1, <3>2
  <2> QED BY <1>1, <1>2, <2>2, Sizes
<1> QED BY <1>4, <1>5

-----------------------------------------------------------------------------
(* The merge. *)

LEMMA KeptFacts ==
    ASSUME IInv, NEW t \in Targets, Kept(t)
    PROVE  /\ previous[t] \in Observation
           /\ previous[t].age + obs.elapsed \in 1..ForgetAfter
<1>1. previous[t] \in Observation
  BY DEF IInv, TypeOK, Kept
<1>2. previous[t].age \in 0..ForgetAfter /\ obs.elapsed \in 1..ForgetAfter + 1
  BY <1>1 DEF IInv, TypeOK, Observation
<1>3. previous[t].age + obs.elapsed <= ForgetAfter
  BY DEF Kept
<1> QED BY <1>1, <1>2, <1>3, Sizes

LEMMA AbsentFacts ==
    ASSUME IInv, NEW t \in Targets, Kept(t)
    PROVE  /\ Absent(t) \in Observation /\ Absent(t).age >= 1 /\ Absent(t).age \in Nat
           /\ Absent(t).state = "unavailable" /\ Absent(t) # NoObs
<1> DEFINE a == previous[t].age + obs.elapsed
<1>1. previous[t] \in Observation /\ a \in 1..ForgetAfter
  BY KeptFacts
<1>2. a \in 0..ForgetAfter /\ a >= 1 /\ a \in Nat
  BY <1>1, Sizes
<1>3. Absent(t) = [previous[t] EXCEPT !.age = a, !.changed = FALSE,
                                      !.state = "unavailable", !.from = 0]
  BY DEF Absent
<1> HIDE DEF a
<1>4. Absent(t) \in Observation /\ Absent(t).age = a /\ Absent(t).state = "unavailable"
  BY <1>1, <1>2, <1>3 DEF Observation
<1> QED BY <1>2, <1>4 DEF NoObs

LEMMA FreshFacts ==
    ASSUME IInv, NEW t \in Targets
    PROVE  /\ Fresh(t) \in Observation /\ Fresh(t).age = 0 /\ Fresh(t) # NoObs
           /\ Fresh(t).state = probes[t].res.state /\ Fresh(t).gen = probes[t].res.gen
           /\ Fresh(t).from = probes[t].res.from
           /\ Ready(probes[t].res) => Fresh(t).id = probes[t].res.id
           /\ Fresh(t).changed = Changed(t, Fresh(t).id, probes[t].res)
<1> DEFINE r == probes[t].res
           id == IF r.state = "unavailable" /\ Kept(t) THEN previous[t].id ELSE r.id
           c == Changed(t, id, r)
<1>1. r \in Result
  BY DEF IInv, TypeOK
<1>2. id \in Ident
  BY <1>1, KeptFacts DEF Result, Observation
<1>3. c \in BOOLEAN
  BY DEF Changed
<1>4. Fresh(t) = [id |-> id, state |-> r.state, gen |-> r.gen, from |-> r.from,
                  age |-> 0, changed |-> c]
  BY DEF Fresh
<1>5. Ready(r) => id = r.id
  BY DEF Ready
<1> HIDE DEF r, id, c
<1>6. Fresh(t) \in Observation
  BY <1>1, <1>2, <1>3, <1>4, Sizes DEF Result, Observation
<1>7. /\ Fresh(t).age = 0 /\ Fresh(t).state = r.state /\ Fresh(t).gen = r.gen
      /\ Fresh(t).from = r.from /\ Fresh(t).id = id /\ Fresh(t).changed = c
  BY <1>4
<1>8. Fresh(t) # NoObs
  BY <1>1, <1>7 DEF Result, NoObs
<1> QED BY <1>5, <1>6, <1>7, <1>8 DEF r, c

LEMMA MergedFacts ==
    ASSUME IInv, NEW fresh \in SUBSET Targets
    PROVE  /\ Merged(fresh) \in Observations
           /\ \A t \in Targets :
                Merged(fresh)[t] = IF t \in fresh /\ ~Pinned(t) THEN Fresh(t)
                                   ELSE IF Kept(t) THEN Absent(t) ELSE NoObs
  BY FreshFacts, AbsentFacts DEF Merged, Observations

(* Eviction keeps the cap, and what it does not evict. *)
LEMMA EvictFacts ==
    ASSUME NEW m \in Observations, Evict(m)
    PROVE  /\ previous' \in Observations
           /\ Cardinality(Known(previous')) <= Factor * MaxTargets
           /\ \A t \in Targets : previous'[t] \in {m[t], NoObs}
<1>1. Known(m) \in SUBSET Targets
  BY DEF Known
<1>2. IsFiniteSet(Known(m)) /\ Cardinality(Known(m)) \in Nat
  BY <1>1, TargetsFinite
<1>3. CASE Cardinality(Known(m)) <= Factor * MaxTargets
  <2>1. previous' = m
    BY <1>3 DEF Evict
  <2> QED BY <1>3, <2>1 DEF Observations
<1>4. CASE ~(Cardinality(Known(m)) <= Factor * MaxTargets)
  <2>1. PICK v \in SUBSET Known(m) :
          /\ Cardinality(v) = Cardinality(Known(m)) - Factor * MaxTargets
          /\ previous' = [t \in Targets |-> IF t \in v THEN NoObs ELSE m[t]]
    BY <1>4 DEF Evict
  <2>2. Known(previous') = Known(m) \ v
    BY <2>1 DEF Known
  <2>3. Cardinality(Known(m) \ v) = Cardinality(Known(m)) - Cardinality(Known(m) \cap v)
    BY <1>2, FS_Difference
  <2>4. Known(m) \cap v = v
    OBVIOUS
  <2>5. Cardinality(Known(previous')) <= Factor * MaxTargets
    <3> DEFINE cap == Factor * MaxTargets
    <3>1. Cardinality(v) = Cardinality(Known(m)) - cap /\ cap \in Nat
      BY <2>1, Sizes
    <3> HIDE DEF cap
    <3>2. Cardinality(Known(previous')) = cap
      BY <1>2, <2>2, <2>3, <2>4, <3>1
    <3>3. cap <= cap
      BY <3>1
    <3> QED BY <3>2, <3>3 DEF cap
  <2>6. previous' \in Observations /\ \A t \in Targets : previous'[t] \in {m[t], NoObs}
    BY <2>1 DEF Observations
  <2> QED BY <2>5, <2>6
<1> QED BY <1>3, <1>4

(* Fresh observations are not evicted: there are at most MaxTargets, and   *)
(* all others are older.                                                   *)
LEMMA EvictSparesFresh ==
    ASSUME NEW m \in Observations, Evict(m), NEW F \in SUBSET Targets,
           Cardinality(F) <= MaxTargets,
           \A t \in F : m[t] # NoObs /\ m[t].age = 0,
           \A t \in Known(m) \ F : m[t].age \in Nat /\ m[t].age >= 1
    PROVE  \A t \in F : previous'[t] = m[t]
<1>1. /\ Known(m) \in SUBSET Targets /\ F \subseteq Known(m)
  BY DEF Known
<1>2. /\ IsFiniteSet(Known(m)) /\ Cardinality(Known(m)) \in Nat
      /\ IsFiniteSet(F) /\ Cardinality(F) \in Nat
  BY <1>1, TargetsFinite
<1>3. CASE Cardinality(Known(m)) <= Factor * MaxTargets
  BY <1>3 DEF Evict
<1>4. CASE ~(Cardinality(Known(m)) <= Factor * MaxTargets)
  <2>1. PICK v \in SUBSET Known(m) :
          /\ Cardinality(v) = Cardinality(Known(m)) - Factor * MaxTargets
          /\ OldestFirst(m, v)
          /\ previous' = [t \in Targets |-> IF t \in v THEN NoObs ELSE m[t]]
    BY <1>4 DEF Evict
  <2>2. \A t \in F : t \notin v
    <3> SUFFICES ASSUME NEW t \in F, t \in v PROVE FALSE
      OBVIOUS
    <3>1. \A u \in Known(m) \ v : m[u].age <= 0
      BY <2>1 DEF OldestFirst
    <3>2. \A u \in Known(m) \ v : u \in F
      BY <3>1
    <3>3. Known(m) \ v \in SUBSET (F \ {t})
      BY <3>2
    <3>4. IsFiniteSet(F \ {t}) /\ Cardinality(F \ {t}) = Cardinality(F) - 1
      BY <1>2, FS_RemoveElement
    <3>5. Cardinality(Known(m) \ v) <= Cardinality(F) - 1
      BY <3>3, <3>4, FS_Subset
    <3>6. Cardinality(Known(m) \ v) = Cardinality(Known(m)) - Cardinality(Known(m) \cap v)
      BY <1>2, FS_Difference
    <3>7. Known(m) \cap v = v
      OBVIOUS
    <3> DEFINE cap == Factor * MaxTargets
    <3>8. /\ Cardinality(v) = Cardinality(Known(m)) - cap /\ cap \in Nat
          /\ MaxTargets \in Nat /\ MaxTargets <= cap
      BY <2>1, Sizes
    <3> HIDE DEF cap
    <3>9. Cardinality(Known(m) \ v) = cap
      <4> DEFINE k == Cardinality(Known(m))
      <4>1. Cardinality(Known(m) \ v) = k - (k - cap)
        BY <3>6, <3>7, <3>8, Zenon
      <4>2. k \in Nat
        BY <1>2
      <4> HIDE DEF k
      <4>3. k - (k - cap) = cap
        BY <3>8, <4>2
      <4> QED BY <4>1, <4>3, Zenon
    <3>10. Cardinality(F) <= MaxTargets /\ Cardinality(F) \in Nat
      BY <1>2
    <3> QED BY <3>5, <3>8, <3>9, <3>10
  <2> QED BY <2>1, <2>2
<1> QED BY <1>3, <1>4

(* What Observe returns: some of the merge of results that had come in. *)
LEMMA CollectFacts ==
    ASSUME IInv, Collect
    PROVE  \E fresh \in SUBSET {t \in Keys : probes[t].pc = "done"} :
              /\ Evict(Merged(fresh))
              /\ ~obs.done => fresh = Keys
  BY DEF Collect

-----------------------------------------------------------------------------
(* The types. *)

(* No call is in progress and no result is there. *)
LEMMA Blank ==
    /\ NoResult \in Result /\ NoProbe \in ProbeState /\ NoProbe.res = NoResult
    /\ NoProbe.pc = "wait" /\ NoResult.state = "unavailable"
    /\ \A S \in SUBSET Targets : Idle(S) \in ObsState /\ Idle(S).unique = S
                                 /\ Idle(S).start = 0 /\ Idle(S).ports = {}
<1>1. NoResult \in Result
  BY Sizes DEF NoResult, Result, NoIdent, Ident
<1>2. NoProbe \in ProbeState
  BY <1>1, Sizes DEF NoProbe, ProbeState
<1>3. ASSUME NEW S \in SUBSET Targets PROVE Idle(S) \in ObsState
  <2>1. 0 \in 0..NumTargets - 1 /\ 1 \in 1..ForgetAfter + 1 /\ 0 \in 0..MaxProcs
    BY Sizes
  <2>2. [t \in Targets |-> 0] \in [Targets -> 0..MaxProcs]
    BY <2>1
  <2> QED BY <2>1, <2>2 DEF Idle, ObsState
<1> QED BY <1>1, <1>2, <1>3 DEF Idle, NoProbe, NoResult

LEMMA InitInv == Init => IInv
<1> SUFFICES ASSUME Init PROVE IInv
  OBVIOUS
<1>1. who \in Seq(Body) /\ Len(who) = 0 /\ server \in [Targets -> 0..Len(who)]
  BY DEF Init
<1>2. previous \in Observations /\ Known(previous) = {}
  BY DEF Init, Observations, Known
<1>3. Cardinality(Known(previous)) <= Factor * MaxTargets
  BY <1>2, FS_EmptySet, Sizes
<1>4. cursor \in 0..NumTargets - 1 /\ obs \in ObsState /\ probes \in [Targets -> ProbeState]
  BY Blank, Sizes DEF Init
<1>5. StartOK /\ Fetched
  BY Blank DEF Init, StartOK, Fetched
<1> QED BY <1>1, <1>2, <1>3, <1>4, <1>5, Sizes
        DEF IInv, TypeOK, Observations, ObsState, ProbeState

(* Begin: the rotation starts inside of what there is to probe. *)
LEMMA BeginStep ==
    ASSUME IInv, NEW ports \in SUBSET Targets, NEW names \in SUBSET Targets, Begin(ports, names)
    PROVE  /\ obs' \in ObsState /\ StartOK' /\ cursor' \in 0..NumTargets - 1
           /\ UNCHANGED <<server, who, previous, probes>>
<1>1. PICK up \in {{}, {t \in Targets : server[t] # 0}}, d \in {1, ForgetAfter + 1} :
        LET unique == up \ ports
            n == Cardinality(unique)
            start == IF n = 0 THEN 0 ELSE cursor % n
        IN  /\ obs' = [pc |-> "probe", unique |-> unique, start |-> start,
                       gens |-> [t \in Targets |-> IF t \in unique THEN server[t] ELSE 0],
                       ports |-> ports, names |-> names,
                       elapsed |-> d, done |-> FALSE]
            /\ cursor' = IF n = 0 THEN cursor ELSE NextStart(start, n)
  BY Zenon DEF Begin
<1> DEFINE unique == up \ ports
           n == Cardinality(unique)
           start == IF n = 0 THEN 0 ELSE cursor % n
           gens == [t \in Targets |-> IF t \in unique THEN server[t] ELSE 0]
<1>2. unique \in SUBSET Targets
  OBVIOUS
<1>3. IsFiniteSet(unique) /\ n \in 0..NumTargets /\ (n = 0 <=> unique = {})
  BY <1>2, TargetsFinite, FS_EmptySet
<1>4. gens \in [Targets -> 0..MaxProcs]
  <2>1. \A t \in Targets : server[t] \in 0..MaxProcs /\ 0 \in 0..MaxProcs
    BY Sizes DEF IInv, TypeOK
  <2> QED BY <2>1
<1>5. /\ obs' = [pc |-> "probe", unique |-> unique, start |-> start, gens |-> gens,
                 ports |-> ports, names |-> names, elapsed |-> d, done |-> FALSE]
      /\ cursor' = IF n = 0 THEN cursor ELSE NextStart(start, n)
  BY <1>1, Zenon
<1>6. cursor \in 0..NumTargets - 1 /\ cursor \in Nat
  BY Sizes DEF IInv, TypeOK
<1> HIDE DEF unique, n, gens
<1>7. start \in 0..NumTargets - 1 /\ (n # 0 => start < n) /\ start \in Nat
  BY <1>3, <1>6, Sizes
<1> HIDE DEF start
<1>8. NextStart(start, n) \in 0..NumTargets - 1 \/ n = 0
  <2>1. Min(Workers, Min(n, MaxTargets)) \in Nat
    BY <1>3, Sizes DEF Min
  <2>2. \A x, y \in Nat : y # 0 => x % y \in 0..y - 1
    OBVIOUS
  <2>3. start + Min(Workers, Min(n, MaxTargets)) \in Nat
    BY <1>7, <2>1
  <2>4. n \in Nat /\ n <= NumTargets /\ NumTargets \in Nat
    BY <1>3, Sizes
  <2>5. n # 0 => NextStart(start, n) \in 0..n - 1
    BY <2>2, <2>3, <2>4 DEF NextStart
  <2> QED BY <2>4, <2>5
<1>9. obs' \in ObsState
  <2>1. d \in 1..ForgetAfter + 1
    BY Sizes
  <2> QED BY <1>2, <1>4, <1>5, <1>7, <2>1 DEF ObsState
<1>10. StartOK'
  <2>1. obs'.unique = unique /\ obs'.start = start /\ obs'.ports = ports
    BY <1>5
  <2>2. unique \cap ports = {}
    BY DEF unique
  <2> QED BY <1>3, <1>7, <2>1, <2>2 DEF StartOK, n
<1>11. UNCHANGED <<server, who, previous, probes>>
  BY DEF Begin
<1> QED BY <1>5, <1>6, <1>8, <1>9, <1>10, <1>11

(* Results of probes are results. *)
LEMMA AnsweredType ==
    ASSUME IInv, NEW t \in Targets, NEW res \in Result, Answered(t, res)
    PROVE  \E p \in ProbeState : /\ probes' = [probes EXCEPT ![t] = p]
                                 /\ p.pc = "done" /\ p.res = res
<1> DEFINE p == [NoProbe EXCEPT !.pc = "done", !.res = res]
<1>1. p \in ProbeState /\ p.pc = "done" /\ p.res = res
  BY Blank DEF ProbeState
<1> QED BY <1>1 DEF Answered

LEMMA FailedType ==
    ASSUME IInv, NEW t \in Targets, NEW state \in {"unavailable", "other"}, NEW id \in Ident,
           Failed(t, state, id)
    PROVE  \E p \in ProbeState : /\ probes' = [probes EXCEPT ![t] = p]
                                 /\ p.pc = "done" /\ ~Ready(p.res)
<1> DEFINE r == [NoResult EXCEPT !.state = state, !.id = id, !.gen = <<obs.gens[t], 0>>]
<1>1. obs.gens[t] \in Procs \cup {0}
  BY Sizes DEF IInv, TypeOK, Procs
<1>2. r \in Result /\ ~Ready(r)
  BY <1>1, Blank DEF Result, Ready
<1>3. Answered(t, r)
  BY DEF Failed
<1> HIDE DEF r
<1> QED BY <1>2, <1>3, AnsweredType

(* What Mapped makes of a probe: q, whose result names the engine and the  *)
(* model and, if it is ready, the process it came from.                    *)
MappedTo(q, t, p, engine, model) ==
    /\ probes' = [probes EXCEPT ![t] = q] /\ q.pc = "done"
    /\ q.res.id = <<engine, model>>
    /\ Ready(q.res) => q.res.from = p /\ (HasStartTime => q.res.gen[2] = p)

LEMMA MappedType ==
    ASSUME IInv, NEW t \in Targets, NEW p \in 1..MaxProcs, NEW engine \in Engines \cup {Unknown},
           NEW model \in Models \cup {Unknown}, Mapped(t, p, engine, model)
    PROVE  \E q \in ProbeState : MappedTo(q, t, p, engine, model)
<1> DEFINE r(state) == [id |-> <<engine, model>>, state |-> state,
                        gen |-> <<obs.gens[t], IF HasStartTime THEN p ELSE 0>>,
                        from |-> IF state = "ready" THEN p ELSE 0]
<1>1. PICK state \in {"ready", "unavailable"} : Answered(t, r(state))
  BY DEF Mapped
<1>2. obs.gens[t] \in Procs \cup {0} /\ p \in Procs
  BY Sizes DEF IInv, TypeOK, Procs
<1>3. r(state) \in Result
  BY <1>2 DEF Result, Ident
<1>4. /\ r(state).id = <<engine, model>>
      /\ Ready(r(state)) => r(state).from = p /\ (HasStartTime => r(state).gen[2] = p)
  BY DEF Ready
<1> HIDE DEF r
<1> QED BY <1>1, <1>3, <1>4, AnsweredType DEF MappedTo

LEMMA Server ==
    ASSUME IInv, NEW t \in Targets, server[t] # 0
    PROVE  /\ server[t] \in 1..Len(who) /\ server[t] \in 1..MaxProcs
           /\ who[server[t]] \in Body
<1>1. /\ server[t] \in 0..Len(who) /\ Len(who) \in Nat /\ Len(who) <= MaxProcs
      /\ who \in Seq(Body)
  BY DEF IInv, TypeOK
<1>2. server[t] \in 1..Len(who) /\ server[t] \in 1..MaxProcs
  BY <1>1, Sizes
<1> QED BY <1>1, <1>2

(* A step of a probe changes its own record, and that to another one. *)
LEMMA ProbeStep ==
    ASSUME IInv, NEW t \in Targets, Probe(t)
    PROVE  /\ \E p \in ProbeState : /\ probes' = [probes EXCEPT ![t] = p]
                                    /\ p.pc = "after" => p.proc # 0
           /\ UNCHANGED <<server, who, previous, cursor, obs>>
<1>1. UNCHANGED <<server, who, previous, cursor, obs>>
  BY DEF Probe, Take, FetchMetrics, ModelBefore, FetchAgain, ModelAfter, RequestFails
<1>2. probes \in [Targets -> ProbeState] /\ probes[t] \in ProbeState
  BY DEF IInv, TypeOK, ProbeState
<1>3. /\ probes[t].engine \in Engines \cup {Unknown} /\ probes[t].model \in Models \cup {Unknown}
      /\ probes[t].proc \in 0..MaxProcs
  BY <1>2 DEF ProbeState
<1>4. \A e \in Engines \cup {Unknown} : <<e, Unknown>> \in Ident
  BY DEF Ident
<1>5. CASE Take(t)
  <2>1. probes' = [probes EXCEPT ![t] = [probes[t] EXCEPT !.pc = "metrics"]]
    BY <1>2, <1>5 DEF Take
  <2>2. /\ [probes[t] EXCEPT !.pc = "metrics"] \in ProbeState
        /\ [probes[t] EXCEPT !.pc = "metrics"].pc # "after"
    BY <1>2 DEF ProbeState
  <2> QED BY <1>1, <2>1, <2>2
<1>6. CASE FetchMetrics(t)
  <2> DEFINE d == Detect(who[server[t]])
  <2>1. /\ server[t] \in 1..MaxProcs /\ d.engine \in Engines \cup {Unknown}
        /\ d.model \in Models \cup {NoModel}
    BY <1>6, Server, DetectFacts DEF FetchMetrics
  <2>2. \/ Failed(t, "other", <<d.engine, Unknown>>)
        \/ d.model \in Models /\ Mapped(t, server[t], d.engine, d.model)
        \/ probes' = [probes EXCEPT ![t].pc = "before", ![t].engine = d.engine]
    BY <1>6, <2>1 DEF FetchMetrics
  <2> HIDE DEF d
  <2>3. CASE Failed(t, "other", <<d.engine, Unknown>>)
    BY <1>1, <1>4, <2>1, <2>3, FailedType
  <2>4. CASE d.model \in Models /\ Mapped(t, server[t], d.engine, d.model)
    <3>1. d.model \in Models \cup {Unknown}
      BY <2>4
    <3>2. PICK q \in ProbeState : MappedTo(q, t, server[t], d.engine, d.model)
      BY <2>1, <2>4, <3>1, MappedType
    <3> QED BY <1>1, <3>2 DEF MappedTo
  <2>5. CASE probes' = [probes EXCEPT ![t].pc = "before", ![t].engine = d.engine]
    <3> DEFINE p == [probes[t] EXCEPT !.pc = "before", !.engine = d.engine]
    <3>1. probes' = [probes EXCEPT ![t] = p]
      BY <1>2, <2>5
    <3>2. p \in ProbeState /\ p.pc # "after"
      BY <1>2, <2>1 DEF ProbeState
    <3> HIDE DEF p
    <3> QED BY <1>1, <3>1, <3>2
  <2> QED BY <2>2, <2>3, <2>4, <2>5
<1>7. CASE ModelBefore(t)
  <2>1. PICK m \in Models : probes' = [probes EXCEPT ![t].pc = "again", ![t].model = m]
    BY <1>7 DEF ModelBefore
  <2> DEFINE p == [probes[t] EXCEPT !.pc = "again", !.model = m]
  <2>2. probes' = [probes EXCEPT ![t] = p]
    BY <1>2, <2>1
  <2>3. p \in ProbeState /\ p.pc # "after"
    BY <1>2 DEF ProbeState
  <2> HIDE DEF p
  <2> QED BY <1>1, <2>2, <2>3
<1>8. CASE FetchAgain(t)
  <2> DEFINE d == Detect(who[server[t]])
  <2>1. /\ server[t] \in 0..MaxProcs /\ server[t] # 0
        /\ d.model \in Models \cup {NoModel}
    <3>1. server[t] \in 1..MaxProcs /\ d.model \in Models \cup {NoModel}
      BY <1>8, Server, DetectFacts DEF FetchAgain
    <3> QED BY <3>1, Sizes
  <2>2. \/ probes' = [probes EXCEPT ![t].pc = "after", ![t].proc = server[t], ![t].label = d.model]
        \/ Failed(t, "other", <<probes[t].engine, Unknown>>)
    BY <1>8 DEF FetchAgain
  <2> HIDE DEF d
  <2>3. CASE probes' = [probes EXCEPT ![t].pc = "after", ![t].proc = server[t], ![t].label = d.model]
    <3> DEFINE p == [probes[t] EXCEPT !.pc = "after", !.proc = server[t], !.label = d.model]
    <3>1. probes' = [probes EXCEPT ![t] = p]
      BY <1>2, <2>3
    <3>2. p \in ProbeState /\ p.proc = server[t]
      BY <1>2, <2>1 DEF ProbeState
    <3> HIDE DEF p
    <3> QED BY <1>1, <2>1, <3>1, <3>2
  <2>4. CASE Failed(t, "other", <<probes[t].engine, Unknown>>)
    BY <1>1, <1>3, <1>4, <2>4, FailedType
  <2> QED BY <2>2, <2>3, <2>4
<1>9. CASE ModelAfter(t)
  <2>1. \/ SameModel(t) /\ Mapped(t, probes[t].proc, probes[t].engine, probes[t].model)
        \/ Failed(t, "other", <<probes[t].engine, Unknown>>)
    BY <1>9 DEF ModelAfter
  <2>2. CASE Failed(t, "other", <<probes[t].engine, Unknown>>)
    BY <1>1, <1>3, <1>4, <2>2, FailedType
  <2>3. CASE Mapped(t, probes[t].proc, probes[t].engine, probes[t].model)
    <3>1. probes[t].proc \in 1..MaxProcs
      BY <1>3, <1>9, Sizes DEF ModelAfter, IInv, Fetched
    <3>2. PICK q \in ProbeState :
             MappedTo(q, t, probes[t].proc, probes[t].engine, probes[t].model)
      BY <1>3, <2>3, <3>1, MappedType
    <3> QED BY <1>1, <3>2 DEF MappedTo
  <2> QED BY <2>1, <2>2, <2>3
<1>10. CASE RequestFails(t)
  BY <1>1, <1>3, <1>4, <1>10, FailedType DEF RequestFails
<1> QED BY <1>5, <1>6, <1>7, <1>8, <1>9, <1>10 DEF Probe

(* Every step keeps the types. *)
LEMMA TypeStep == IInv /\ [Next]_vars => IInv'
<1> SUFFICES ASSUME IInv, [Next]_vars PROVE IInv'
  OBVIOUS
<1>1. /\ who \in Seq(Body) /\ Len(who) \in Nat /\ Len(who) <= MaxProcs
      /\ server \in [Targets -> 0..Len(who)] /\ previous \in Observations
      /\ Cardinality(Known(previous)) <= Factor * MaxTargets
      /\ cursor \in 0..NumTargets - 1 /\ obs \in ObsState
      /\ probes \in [Targets -> ProbeState] /\ StartOK /\ Fetched
  BY DEF IInv, TypeOK, Observations, ObsState, ProbeState
<1>2. ASSUME /\ who' \in Seq(Body) /\ Len(who') <= MaxProcs
             /\ server' \in [Targets -> 0..Len(who')] /\ previous' \in Observations
             /\ Cardinality(Known(previous')) <= Factor * MaxTargets
             /\ cursor' \in 0..NumTargets - 1 /\ obs' \in ObsState
             /\ probes' \in [Targets -> ProbeState] /\ StartOK' /\ Fetched'
      PROVE  IInv'
  BY <1>2 DEF IInv, TypeOK, Observations, ObsState, ProbeState
<1>3. ASSUME NEW ports \in SUBSET Pinnable, NEW names \in SUBSET Pinnable, Begin(ports, names)
      PROVE  IInv'
  <2>1. ports \in SUBSET Targets /\ names \in SUBSET Targets
    BY SetsAssumption
  <2>2. /\ obs' \in ObsState /\ StartOK' /\ cursor' \in 0..NumTargets - 1
        /\ UNCHANGED <<server, who, previous, probes>>
    BY <1>3, <2>1, BeginStep
  <2>3. Fetched'
    BY <1>1, <2>2 DEF Fetched
  <2> QED BY <1>1, <1>2, <2>2, <2>3
<1>4. CASE Deadline
  <2>1. obs' = [obs EXCEPT !.done = TRUE] /\ UNCHANGED <<server, who, previous, cursor, probes>>
    BY <1>4 DEF Deadline
  <2>2. /\ obs' \in ObsState /\ obs'.unique = obs.unique /\ obs'.start = obs.start
        /\ obs'.ports = obs.ports
    BY <1>1, <2>1 DEF ObsState
  <2>3. StartOK' /\ Fetched'
    BY <1>1, <2>1, <2>2 DEF StartOK, Fetched
  <2> QED BY <1>1, <1>2, <2>1, <2>2, <2>3
<1>5. ASSUME NEW t \in Targets, Probe(t) PROVE IInv'
  <2>1. UNCHANGED <<server, who, previous, cursor, obs>>
    BY <1>5, ProbeStep
  <2>2. PICK p \in ProbeState : probes' = [probes EXCEPT ![t] = p] /\ (p.pc = "after" => p.proc # 0)
    BY <1>5, ProbeStep
  <2>3. probes' \in [Targets -> ProbeState] /\ StartOK' /\ Fetched'
    BY <1>1, <2>1, <2>2 DEF StartOK, Fetched
  <2> QED BY <1>1, <1>2, <2>1, <2>3
<1>6. CASE Collect
  <2>1. /\ obs' = Idle(obs.unique) /\ probes' = [t \in Targets |-> NoProbe]
        /\ UNCHANGED <<server, who, cursor>>
    BY <1>6 DEF Collect
  <2>2. PICK fresh \in SUBSET {t \in Keys : probes[t].pc = "done"} : Evict(Merged(fresh))
    BY <1>6, CollectFacts
  <2>3. fresh \in SUBSET Targets
    BY KeysBound
  <2>4. /\ previous' \in Observations
        /\ Cardinality(Known(previous')) <= Factor * MaxTargets
    BY <2>2, <2>3, MergedFacts, EvictFacts
  <2>5. obs.unique \in SUBSET Targets
    BY <1>1 DEF ObsState
  <2>6. obs' \in ObsState /\ StartOK'
    <3>1. IsFiniteSet(obs.unique) /\ Cardinality(obs.unique) \in Nat
      BY <2>5, TargetsFinite
    <3>2. obs.unique # {} => Cardinality(obs.unique) # 0
      BY <3>1, FS_EmptySet
    <3>3. /\ obs' \in ObsState /\ obs'.unique = obs.unique /\ obs'.start = 0
          /\ obs'.ports = {}
      BY <2>1, <2>5, Blank
    <3> QED BY <3>1, <3>2, <3>3 DEF StartOK
  <2>7. probes' \in [Targets -> ProbeState] /\ Fetched'
    BY <2>1, Blank DEF Fetched
  <2> QED BY <1>1, <1>2, <2>1, <2>4, <2>6, <2>7
<1>7. ASSUME NEW t \in Targets, NEW body \in Bodies, Listen(t, body) PROVE IInv'
  <2>1. /\ who' = Append(who, body) /\ server' = [server EXCEPT ![t] = Len(who')]
        /\ Len(who) < MaxProcs /\ UNCHANGED <<previous, cursor, obs, probes>>
    BY <1>7 DEF Listen
  <2>2. body \in Body
    BY SetsAssumption
  <2>3. who' \in Seq(Body) /\ Len(who') = Len(who) + 1
    BY <1>1, <2>1, <2>2
  <2>4. Len(who') <= MaxProcs
    BY <1>1, <2>1, <2>3, Sizes
  <2>5. server' \in [Targets -> 0..Len(who')]
    <3>1. Len(who') \in 0..Len(who') /\ \A n \in 0..Len(who) : n \in 0..Len(who')
      BY <1>1, <2>3
    <3> QED BY <1>1, <2>1, <3>1
  <2>6. StartOK' /\ Fetched'
    BY <1>1, <2>1 DEF StartOK, Fetched
  <2> QED BY <1>1, <1>2, <2>1, <2>3, <2>4, <2>5, <2>6
<1>8. ASSUME NEW t \in Targets, Leave(t) PROVE IInv'
  <2>1. server' = [server EXCEPT ![t] = 0] /\ UNCHANGED <<who, previous, cursor, obs, probes>>
    BY <1>8 DEF Leave
  <2>2. server' \in [Targets -> 0..Len(who')]
    <3>1. 0 \in 0..Len(who)
      BY <1>1
    <3> QED BY <1>1, <2>1, <3>1
  <2>3. StartOK' /\ Fetched'
    BY <1>1, <2>1 DEF StartOK, Fetched
  <2> QED BY <1>1, <1>2, <2>1, <2>2, <2>3
<1>9. ASSUME NEW t \in Targets, Label(t) PROVE IInv'
  <2> DEFINE i == server[t]
             new == [who[i] EXCEPT !.labels = who[i].serves]
  <2>1. i \in 1..Len(who) /\ who[i] \in Body
    BY <1>9, Server DEF Label
  <2>2. who' = [who EXCEPT ![i] = new] /\ UNCHANGED <<server, previous, cursor, obs, probes>>
    BY <1>1, <1>9 DEF Label
  <2>3. new \in Body
    BY <2>1 DEF Body
  <2> HIDE DEF new
  <2>4. who' \in Seq(Body) /\ Len(who') = Len(who)
    BY <1>1, <2>1, <2>2, <2>3, ExceptSeq
  <2>5. StartOK' /\ Fetched'
    BY <1>1, <2>2 DEF StartOK, Fetched
  <2> QED BY <1>1, <1>2, <2>2, <2>4, <2>5
<1>10. CASE UNCHANGED vars
  BY <1>10 DEF vars, IInv, TypeOK, StartOK, Fetched, Known, Pos, Rank
<1> QED BY <1>3, <1>4, <1>5, <1>6, <1>7, <1>8, <1>9, <1>10 DEF Next, Observe

(* The invariant of Observe. *)
THEOREM Invariant == Spec => []IInv
  BY InitInv, TypeStep, PTL DEF Spec

(* Every variable keeps its type, and what is retained stays below the cap *)
(* however many ports open and close.                                      *)
THEOREM TypeCorrect == Spec => []TypeOK
<1>1. IInv => TypeOK
  BY DEF IInv
<1> QED BY <1>1, Invariant, PTL

-----------------------------------------------------------------------------
(* What a call of Observe returns. *)

LEMMA OnlyCollectReturns ==
    IInv /\ [Next]_vars /\ Returns => Collect
<1> SUFFICES ASSUME IInv, [Next]_vars, Returns PROVE Collect
  OBVIOUS
<1>1. obs'.pc # obs.pc /\ obs.pc = "probe" /\ obs \in ObsState
  BY DEF Returns, IInv, TypeOK, ObsState
<1>2. obs' # obs /\ obs' # [obs EXCEPT !.done = TRUE]
  BY <1>1 DEF ObsState
<1>3. ~(\E ports \in SUBSET Pinnable, names \in SUBSET Pinnable : Begin(ports, names)) /\ ~Deadline
  BY <1>1, <1>2 DEF Begin, Deadline
<1>4. ASSUME NEW t \in Targets, Probe(t) PROVE FALSE
  BY <1>2, <1>4, ProbeStep
<1>5. ~ \E t \in Targets : Leave(t) \/ Label(t) \/ \E body \in Bodies : Listen(t, body)
  BY <1>2 DEF Leave, Label, Listen
<1> QED BY <1>2, <1>3, <1>4, <1>5 DEF Next, Observe, vars

(* The merge of a call: every entry is fresh, absent or gone. *)
LEMMA Returned ==
    ASSUME IInv, [Next]_vars, Returns
    PROVE  \E fresh \in SUBSET {t \in Keys : probes[t].pc = "done"} :
             /\ Evict(Merged(fresh)) /\ Merged(fresh) \in Observations
             /\ ~obs.done => fresh = Keys
             /\ \A t \in Targets :
                  \/ previous'[t] = NoObs
                  \/ t \in fresh /\ ~Pinned(t) /\ previous'[t] = Fresh(t)
                  \/ Kept(t) /\ previous'[t] = Absent(t)
<1>1. PICK fresh \in SUBSET {t \in Keys : probes[t].pc = "done"} :
        Evict(Merged(fresh)) /\ (~obs.done => fresh = Keys)
  BY OnlyCollectReturns, CollectFacts
<1>2. fresh \in SUBSET Targets
  BY KeysBound
<1>3. /\ Merged(fresh) \in Observations
      /\ \A t \in Targets : Merged(fresh)[t] = IF t \in fresh /\ ~Pinned(t) THEN Fresh(t)
                                               ELSE IF Kept(t) THEN Absent(t) ELSE NoObs
  BY <1>2, MergedFacts
<1>4. \A t \in Targets : previous'[t] \in {Merged(fresh)[t], NoObs}
  BY <1>1, <1>3, EvictFacts
<1>5. \A t \in Targets :
        \/ previous'[t] = NoObs
        \/ t \in fresh /\ ~Pinned(t) /\ previous'[t] = Fresh(t)
        \/ Kept(t) /\ previous'[t] = Absent(t)
  BY <1>3, <1>4
<1> QED BY <1>1, <1>3, <1>5

(* What is reported as ready was probed to the end in this very call, for  *)
(* any deadline, rotation and eviction.                                    *)
THEOREM ReadyWasProbed == Spec => ReadyIsFresh
<1>1. IInv /\ [Next]_vars =>
        [Returns => \A t \in Targets : Ready(previous'[t]) =>
            t \in Keys /\ probes[t].pc = "done" /\ Ready(probes[t].res)]_vars
  <2> SUFFICES ASSUME IInv, [Next]_vars, Returns, NEW t \in Targets, Ready(previous'[t])
               PROVE  t \in Keys /\ probes[t].pc = "done" /\ Ready(probes[t].res)
    OBVIOUS
  <2>1. PICK fresh \in SUBSET {u \in Keys : probes[u].pc = "done"} :
          \/ previous'[t] = NoObs
          \/ t \in fresh /\ previous'[t] = Fresh(t)
          \/ Kept(t) /\ previous'[t] = Absent(t)
    BY Returned
  <2>2. ~Ready(NoObs) /\ (Kept(t) => ~Ready(Absent(t)))
    BY AbsentFacts DEF Ready, NoObs
  <2>3. t \in fresh /\ Ready(Fresh(t))
    BY <2>1, <2>2
  <2> QED BY <2>3, FreshFacts DEF Ready
<1> QED BY <1>1, Invariant, PTL DEF Spec, ReadyIsFresh

(* A pinned port or backend is never reported by discovery as well. *)
THEOREM PinsAlwaysWin == Spec => PinsWin
<1>1. IInv /\ [Next]_vars =>
        [Returns => \A t \in obs.ports \cup obs.names : previous'[t] = NoObs]_vars
  <2> SUFFICES ASSUME IInv, [Next]_vars, Returns, NEW t \in obs.ports \cup obs.names
               PROVE  previous'[t] = NoObs
    OBVIOUS
  <2>1. t \in Targets /\ Pinned(t) /\ ~Kept(t)
    BY DEF IInv, TypeOK, Pinned, Kept
  <2> QED BY <2>1, Returned
<1> QED BY <1>1, Invariant, PTL DEF Spec, PinsWin

(* Every target that a call without a deadline has probed is reported: the *)
(* cap, for any value of it, only evicts what is older.                    *)
THEOREM CapAlwaysSpares == Spec => CapSparesFresh
<1>1. IInv /\ [Next]_vars =>
        [Returns /\ ~obs.done => \A t \in Keys \ obs.names :
            previous'[t] # NoObs /\ previous'[t].age = 0]_vars
  <2> SUFFICES ASSUME IInv, [Next]_vars, Returns, ~obs.done
               PROVE  \A t \in Keys \ obs.names : previous'[t] # NoObs /\ previous'[t].age = 0
    OBVIOUS
  <2> DEFINE m == Merged(Keys)
             F == Keys \ obs.names
  <2>1. Evict(m) /\ m \in Observations
    BY Returned
  <2>2. Keys \in SUBSET Targets /\ IsFiniteSet(Keys) /\ Cardinality(Keys) <= MaxTargets
    BY KeysBound
  <2>3. F \in SUBSET Targets /\ F \in SUBSET Keys
    BY <2>2
  <2>4. Cardinality(F) <= MaxTargets
    <3>1. Cardinality(F) <= Cardinality(Keys)
      BY <2>2, <2>3, FS_Subset
    <3>2. Cardinality(F) \in Nat /\ Cardinality(Keys) \in Nat
      BY <2>2, <2>3, TargetsFinite
    <3> HIDE DEF F
    <3> QED BY <2>2, <3>1, <3>2, Sizes
  <2>5. \A t \in Keys : t \notin obs.ports
    BY DEF Keys, IInv, StartOK
  <2>6. \A t \in F : m[t] = Fresh(t)
    BY <2>2, <2>5, MergedFacts DEF Pinned
  <2>7. \A t \in F : m[t] # NoObs /\ m[t].age = 0
    BY <2>3, <2>6, FreshFacts
  <2>8. \A t \in Known(m) \ F : m[t].age \in Nat /\ m[t].age >= 1
    <3> SUFFICES ASSUME NEW t \in Targets, m[t] # NoObs, t \notin F
                 PROVE  m[t].age \in Nat /\ m[t].age >= 1
      BY DEF Known
    <3>1. ~(t \in Keys /\ ~Pinned(t))
      BY DEF Pinned
    <3>2. Kept(t) /\ m[t] = Absent(t)
      BY <2>2, <3>1, MergedFacts
    <3> QED BY <3>2, AbsentFacts
  <2> HIDE DEF m, F
  <2>9. \A t \in F : previous'[t] = m[t]
    BY <2>1, <2>3, <2>4, <2>7, <2>8, EvictSparesFresh
  <2> QED BY <2>7, <2>9 DEF F
<1> QED BY <1>1, Invariant, PTL DEF Spec, CapSparesFresh

-----------------------------------------------------------------------------
(* Deltas.  With process_start_time_seconds in the telemetry the second    *)
(* part of a generation is the process the samples came from.              *)
Generation(r) == Ready(r) => r.gen[2] = r.from

Generations == \A t \in Targets : Generation(previous[t]) /\ Generation(probes[t].res)

LEMMA ProbeGenerations ==
    ASSUME HasStartTime, IInv, Generations, NEW t \in Targets, Probe(t)
    PROVE  Generations'
<1>1. previous' = previous /\ probes \in [Targets -> ProbeState]
  BY ProbeStep DEF IInv, TypeOK, ProbeState
<1>2. ASSUME NEW p \in ProbeState, probes' = [probes EXCEPT ![t] = p], Generation(p.res)
      PROVE  Generations'
  BY <1>1, <1>2 DEF Generations
<1>3. ASSUME NEW state \in {"unavailable", "other"}, NEW id \in Ident, Failed(t, state, id)
      PROVE  Generations'
  BY <1>2, <1>3, FailedType DEF Generation
<1>4. ASSUME NEW p \in 1..MaxProcs, NEW engine \in Engines \cup {Unknown},
             NEW model \in Models \cup {Unknown}, Mapped(t, p, engine, model)
      PROVE  Generations'
  <2>1. PICK q \in ProbeState : MappedTo(q, t, p, engine, model)
    BY <1>4, MappedType
  <2> QED BY <1>2, <2>1 DEF MappedTo, Generation
<1>5. ASSUME \A u \in Targets : probes'[u].res = probes[u].res PROVE Generations'
  BY <1>1, <1>5 DEF Generations
<1>6. /\ probes[t].engine \in Engines \cup {Unknown} /\ probes[t].model \in Models \cup {Unknown}
      /\ probes[t].proc \in 0..MaxProcs
  BY <1>1 DEF ProbeState
<1>7. \A e \in Engines \cup {Unknown} : <<e, Unknown>> \in Ident
  BY DEF Ident
<1>8. CASE Take(t) \/ ModelBefore(t)
  BY <1>1, <1>5, <1>8 DEF Take, ModelBefore, ProbeState
<1>9. CASE FetchMetrics(t)
  <2> DEFINE d == Detect(who[server[t]])
  <2>1. /\ server[t] \in 1..MaxProcs /\ d.engine \in Engines \cup {Unknown}
        /\ d.model \in Models \cup {NoModel}
    BY <1>9, Server, DetectFacts DEF FetchMetrics
  <2>2. \/ Failed(t, "other", <<d.engine, Unknown>>)
        \/ d.model \in Models /\ Mapped(t, server[t], d.engine, d.model)
        \/ probes' = [probes EXCEPT ![t].pc = "before", ![t].engine = d.engine]
    BY <1>9, <2>1 DEF FetchMetrics
  <2> HIDE DEF d
  <2>3. CASE probes' = [probes EXCEPT ![t].pc = "before", ![t].engine = d.engine]
    BY <1>1, <1>5, <2>3 DEF ProbeState
  <2> QED BY <1>3, <1>4, <1>7, <2>1, <2>2, <2>3
<1>10. CASE FetchAgain(t)
  <2>1. \/ Failed(t, "other", <<probes[t].engine, Unknown>>)
        \/ probes' = [probes EXCEPT ![t].pc = "after", ![t].proc = server[t],
                                    ![t].label = Detect(who[server[t]]).model]
    BY <1>10 DEF FetchAgain
  <2>2. CASE probes' = [probes EXCEPT ![t].pc = "after", ![t].proc = server[t],
                                      ![t].label = Detect(who[server[t]]).model]
    BY <1>1, <1>5, <2>2 DEF ProbeState
  <2> QED BY <1>3, <1>6, <1>7, <2>1, <2>2
<1>11. CASE ModelAfter(t)
  <2>1. probes[t].proc \in 1..MaxProcs
    BY <1>6, <1>11, Sizes DEF ModelAfter, IInv, Fetched
  <2> QED BY <1>3, <1>4, <1>6, <1>7, <1>11, <2>1 DEF ModelAfter
<1>12. CASE RequestFails(t)
  BY <1>3, <1>6, <1>7, <1>12 DEF RequestFails
<1> QED BY <1>8, <1>9, <1>10, <1>11, <1>12 DEF Probe

LEMMA GenerationsStep ==
    ASSUME HasStartTime
    PROVE  IInv /\ Generations /\ [Next]_vars => Generations'
<1> SUFFICES ASSUME IInv, Generations, [Next]_vars PROVE Generations'
  OBVIOUS
<1>1. ASSUME NEW t \in Targets, Probe(t) PROVE Generations'
  BY <1>1, ProbeGenerations
<1>2. CASE Collect
  <2>1. PICK fresh \in SUBSET {t \in Keys : probes[t].pc = "done"} : Evict(Merged(fresh))
    BY <1>2, CollectFacts
  <2>2. fresh \in SUBSET Targets
    BY KeysBound
  <2>3. \A t \in Targets : previous'[t] \in {Fresh(t), NoObs} \/ (Kept(t) /\ previous'[t] = Absent(t))
    BY <2>1, <2>2, MergedFacts, EvictFacts
  <2>4. \A t \in Targets : Generation(previous'[t])
    <3> SUFFICES ASSUME NEW t \in Targets, Ready(previous'[t])
                 PROVE  previous'[t].gen[2] = previous'[t].from
      BY DEF Generation
    <3>1. previous'[t] = Fresh(t)
      BY <2>3, AbsentFacts DEF Ready, NoObs
    <3> QED BY <3>1, FreshFacts DEF Generations, Generation, Ready
  <2>5. \A t \in Targets : Generation(probes'[t].res)
    BY <1>2, Blank DEF Collect, Generation, Ready
  <2> QED BY <2>4, <2>5 DEF Generations
<1>3. ASSUME UNCHANGED <<previous, probes>> PROVE Generations'
  BY <1>3 DEF Generations
<1> QED BY <1>1, <1>2, <1>3 DEF Next, Observe, Begin, Deadline, Leave, Label, Listen, vars

(* If engines report when they started, ChangedAt guards deltas: samples   *)
(* of two calls between which it did not move come from one process.       *)
THEOREM DeltasAlwaysSafe ==
    ASSUME HasStartTime
    PROVE  Spec => DeltasAreSafe
<1>1. Init => Generations
  BY Blank DEF Init, Generations, Generation, Ready, NoObs
<1>2. IInv /\ Generations /\ [Next]_vars => Generations'
  BY GenerationsStep
<1>3. IInv /\ Generations /\ [Next]_vars =>
        [\A t \in Targets :
            Returns /\ Ready(previous'[t]) /\ ~previous'[t].changed =>
            Ready(previous[t]) /\ previous'[t].from = previous[t].from]_vars
  <2> SUFFICES ASSUME IInv, Generations, [Next]_vars, NEW t \in Targets, Returns,
                      Ready(previous'[t]), ~previous'[t].changed
               PROVE  Ready(previous[t]) /\ previous'[t].from = previous[t].from
    OBVIOUS
  <2>1. previous'[t] = Fresh(t)
    <3>1. ~Ready(NoObs) /\ (Kept(t) => ~Ready(Absent(t)))
      BY AbsentFacts DEF Ready, NoObs
    <3> QED BY <3>1, Returned
  <2> DEFINE r == probes[t].res
  <2>2. Ready(r) /\ ~Changed(t, Fresh(t).id, r) /\ Fresh(t).from = r.from
    BY <2>1, FreshFacts DEF Ready
  <2>3. r.gen = previous[t].gen /\ Ready(previous[t])
    BY <2>2 DEF Changed
  <2>4. r.gen[2] = r.from /\ previous[t].gen[2] = previous[t].from
    BY <2>2, <2>3 DEF Generations, Generation
  <2> QED BY <2>1, <2>2, <2>3, <2>4
<1> QED BY <1>1, <1>2, <1>3, Invariant, PTL DEF Spec, DeltasAreSafe

-----------------------------------------------------------------------------
(* Labels.  A process is honest if metrics that match one engine alone are *)
(* that engine's, and labels, where there are any, name what is served.    *)
Honest(b) ==
    /\ ~b.mlx => \A s \in Signatures : b.sigs = {s} => b.engine = EngineOf(s)
    /\ b.labels \in {{}, b.serves}

Serves(p, id) ==
    p \in 1..Len(who) /\ id[1] = who[p].engine /\ {id[2]} = who[p].serves

AllHonest == \A i \in 1..Len(who) : Honest(who[i])

ReadyServes ==
    /\ \A t \in Targets : Ready(previous[t]) => Serves(previous[t].from, previous[t].id)
    /\ \A t \in Targets : Ready(probes[t].res) => Serves(probes[t].res.from, probes[t].res.id)

(* After the second snapshot: it came from a process of the engine that    *)
(* was detected; and while the port serves the model that was read before  *)
(* it, so does the process of the snapshot.                                *)
Bracket ==
    \A t \in Targets : probes[t].pc = "after" =>
        LET p == probes[t] IN
        /\ p.proc \in 1..Len(who) /\ who[p.proc].engine = p.engine
        /\ server[t] # 0 /\ SameModel(t) => who[p.proc].serves = {p.model}

LabelInv == AllHonest /\ ReadyServes /\ Bracket

(* Detect tells the engine of an honest process, and its model if it can.  *)
LEMMA HonestDetect ==
    ASSUME NEW b \in Body, Honest(b), ~Detect(b).err
    PROVE  /\ Detect(b).engine = b.engine
           /\ Detect(b).model # NoModel => b.serves = {Detect(b).model}
<1>1. /\ ~b.mlx /\ \E s \in Signatures : b.sigs = {s} /\ Detect(b).engine = EngineOf(s)
      /\ Detect(b).model # NoModel => b.labels = {Detect(b).model}
  BY DetectFacts
<1> QED BY <1>1 DEF Honest

LEMMA ProbeLabels ==
    ASSUME IInv, LabelInv, NEW t \in Targets, Probe(t)
    PROVE  LabelInv'
<1>1. UNCHANGED <<who, server, previous>> /\ probes \in [Targets -> ProbeState]
  BY ProbeStep DEF IInv, TypeOK, ProbeState
<1>2. AllHonest'
  BY <1>1 DEF LabelInv, AllHonest
<1>3. ASSUME NEW p \in ProbeState, probes' = [probes EXCEPT ![t] = p],
             Ready(p.res) => Serves(p.res.from, p.res.id),
             p.pc = "after" =>
                /\ p.proc \in 1..Len(who) /\ who[p.proc].engine = p.engine
                /\ server[t] # 0 /\ who[server[t]].serves = {p.model} =>
                      who[p.proc].serves = {p.model}
      PROVE  LabelInv'
  <2>1. probes'[t] = p /\ \A u \in Targets \ {t} : probes'[u] = probes[u]
    BY <1>1, <1>3
  <2>2. ReadyServes'
    BY <1>1, <1>3, <2>1 DEF LabelInv, ReadyServes, Serves
  <2>3. Bracket'
    BY <1>1, <1>3, <2>1 DEF LabelInv, Bracket, SameModel
  <2> QED BY <1>2, <2>2, <2>3 DEF LabelInv
<1>4. ASSUME NEW state \in {"unavailable", "other"}, NEW id \in Ident, Failed(t, state, id)
      PROVE  LabelInv'
  <2>1. PICK p \in ProbeState : probes' = [probes EXCEPT ![t] = p] /\ p.pc = "done" /\ ~Ready(p.res)
    BY <1>4, FailedType
  <2> QED BY <1>3, <2>1
<1>5. ASSUME NEW p \in 1..MaxProcs, NEW engine \in Engines \cup {Unknown},
             NEW model \in Models \cup {Unknown}, Mapped(t, p, engine, model),
             Serves(p, <<engine, model>>)
      PROVE  LabelInv'
  <2>1. PICK q \in ProbeState : MappedTo(q, t, p, engine, model)
    BY <1>5, MappedType
  <2> QED BY <1>3, <1>5, <2>1 DEF MappedTo
<1>6. /\ probes[t] \in ProbeState
      /\ probes[t].engine \in Engines \cup {Unknown} /\ probes[t].model \in Models \cup {Unknown}
      /\ probes[t].proc \in 0..MaxProcs
      /\ Ready(probes[t].res) => Serves(probes[t].res.from, probes[t].res.id)
  BY <1>1 DEF ProbeState, LabelInv, ReadyServes
<1>7. \A e \in Engines \cup {Unknown} : <<e, Unknown>> \in Ident
  BY DEF Ident
<1>8. CASE Take(t)
  <2> DEFINE p == [probes[t] EXCEPT !.pc = "metrics"]
  <2>1. probes' = [probes EXCEPT ![t] = p]
    BY <1>1, <1>8 DEF Take
  <2>2. p \in ProbeState /\ p.pc # "after" /\ p.res = probes[t].res
    BY <1>6 DEF ProbeState
  <2> HIDE DEF p
  <2> QED BY <1>3, <1>6, <2>1, <2>2
<1>9. CASE FetchMetrics(t)
  <2> DEFINE b == who[server[t]]
             d == Detect(b)
  <2>1. /\ server[t] \in 1..Len(who) /\ server[t] \in 1..MaxProcs /\ b \in Body
        /\ d.engine \in Engines \cup {Unknown} /\ d.model \in Models \cup {NoModel}
    BY <1>9, Server, DetectFacts DEF FetchMetrics
  <2>2. Honest(b)
    BY <2>1 DEF LabelInv, AllHonest
  <2>3. ~d.err => d.engine = b.engine /\ (d.model # NoModel => b.serves = {d.model})
    BY <2>1, <2>2, HonestDetect
  <2>4. \/ Failed(t, "other", <<d.engine, Unknown>>)
        \/ /\ ~d.err /\ d.model # NoModel /\ Mapped(t, server[t], d.engine, d.model)
        \/ probes' = [probes EXCEPT ![t].pc = "before", ![t].engine = d.engine]
    BY <1>9 DEF FetchMetrics
  <2> HIDE DEF d
  <2>5. CASE Failed(t, "other", <<d.engine, Unknown>>)
    BY <1>4, <1>7, <2>1, <2>5
  <2>6. CASE ~d.err /\ d.model # NoModel /\ Mapped(t, server[t], d.engine, d.model)
    <3>1. d.model \in Models \cup {Unknown}
      BY <2>1, <2>6
    <3>2. Serves(server[t], <<d.engine, d.model>>)
      BY <2>1, <2>3, <2>6 DEF Serves
    <3> QED BY <1>5, <2>1, <2>6, <3>1, <3>2
  <2>7. CASE probes' = [probes EXCEPT ![t].pc = "before", ![t].engine = d.engine]
    <3> DEFINE p == [probes[t] EXCEPT !.pc = "before", !.engine = d.engine]
    <3>1. probes' = [probes EXCEPT ![t] = p]
      BY <1>1, <2>7
    <3>2. p \in ProbeState /\ p.pc # "after" /\ p.res = probes[t].res
      BY <1>6, <2>1 DEF ProbeState
    <3> HIDE DEF p
    <3> QED BY <1>3, <1>6, <3>1, <3>2
  <2> QED BY <2>4, <2>5, <2>6, <2>7
<1>10. CASE ModelBefore(t)
  <2>1. PICK m \in Models : probes' = [probes EXCEPT ![t].pc = "again", ![t].model = m]
    BY <1>10 DEF ModelBefore
  <2> DEFINE p == [probes[t] EXCEPT !.pc = "again", !.model = m]
  <2>2. probes' = [probes EXCEPT ![t] = p]
    BY <1>1, <2>1
  <2>3. p \in ProbeState /\ p.pc # "after" /\ p.res = probes[t].res
    BY <1>6 DEF ProbeState
  <2> HIDE DEF p
  <2> QED BY <1>3, <1>6, <2>2, <2>3
<1>11. CASE FetchAgain(t)
  <2> DEFINE b == who[server[t]]
             d == Detect(b)
  <2>1. /\ server[t] \in 1..Len(who) /\ server[t] \in 0..MaxProcs /\ b \in Body
        /\ d.model \in Models \cup {NoModel}
    <3>1. server[t] # 0 /\ server[t] \in 1..MaxProcs
      BY <1>11, Server DEF FetchAgain
    <3>2. server[t] \in 0..MaxProcs
      BY <3>1, Sizes
    <3> QED BY <3>1, <3>2, Server, DetectFacts
  <2>2. ~d.err => d.engine = b.engine
    BY <2>1, HonestDetect DEF LabelInv, AllHonest
  <2>3. \/ Failed(t, "other", <<probes[t].engine, Unknown>>)
        \/ /\ ~d.err /\ d.engine = probes[t].engine
           /\ probes' = [probes EXCEPT ![t].pc = "after", ![t].proc = server[t], ![t].label = d.model]
    BY <1>11 DEF FetchAgain
  <2> HIDE DEF d
  <2>4. CASE /\ ~d.err /\ d.engine = probes[t].engine
             /\ probes' = [probes EXCEPT ![t].pc = "after", ![t].proc = server[t], ![t].label = d.model]
    <3> DEFINE p == [probes[t] EXCEPT !.pc = "after", !.proc = server[t], !.label = d.model]
    <3>1. probes' = [probes EXCEPT ![t] = p]
      BY <1>1, <2>4
    <3>2. /\ p \in ProbeState /\ p.res = probes[t].res /\ p.proc = server[t]
          /\ p.engine = probes[t].engine
      BY <1>6, <2>1 DEF ProbeState
    <3> HIDE DEF p
    <3> QED BY <1>3, <1>6, <2>1, <2>2, <2>4, <3>1, <3>2
  <2> QED BY <1>4, <1>6, <1>7, <2>3, <2>4
<1>12. CASE ModelAfter(t)
  <2> DEFINE p == probes[t]
  <2>1. p.pc = "after" /\ server[t] # 0
    BY <1>12 DEF ModelAfter
  <2>2. \/ Failed(t, "other", <<p.engine, Unknown>>)
        \/ SameModel(t) /\ Mapped(t, p.proc, p.engine, p.model)
    BY <1>12 DEF ModelAfter
  <2>3. CASE SameModel(t) /\ Mapped(t, p.proc, p.engine, p.model)
    <3>1. /\ p.proc \in 1..Len(who) /\ who[p.proc].engine = p.engine
          /\ who[p.proc].serves = {p.model}
      BY <2>1, <2>3 DEF LabelInv, Bracket
    <3>2. Serves(p.proc, <<p.engine, p.model>>)
      BY <3>1 DEF Serves
    <3>3. p.proc \in 1..MaxProcs
      BY <1>6, <2>1, Sizes DEF IInv, Fetched
    <3> QED BY <1>5, <1>6, <2>3, <3>2, <3>3
  <2> QED BY <1>4, <1>6, <1>7, <2>2, <2>3
<1>13. CASE RequestFails(t)
  BY <1>4, <1>6, <1>7, <1>13 DEF RequestFails
<1> QED BY <1>8, <1>9, <1>10, <1>11, <1>12, <1>13 DEF Probe

(* Processes come, go and get their labels. *)
LEMMA WorldLabels ==
    ASSUME \A b \in Bodies : Honest(b), IInv, LabelInv, NEW t \in Targets,
           Leave(t) \/ Label(t) \/ \E body \in Bodies : Listen(t, body)
    PROVE  LabelInv'
<1>1. /\ UNCHANGED <<previous, probes>> /\ who \in Seq(Body) /\ Len(who) \in Nat
      /\ server \in [Targets -> 0..Len(who)]
  BY DEF Leave, Label, Listen, IInv, TypeOK
<1>2. ASSUME Len(who') >= Len(who), Len(who') \in Nat,
             \A i \in 1..Len(who) : /\ who'[i].engine = who[i].engine
                                    /\ who'[i].serves = who[i].serves
      PROVE  /\ ReadyServes'
             /\ \A i \in 1..Len(who) : i \in 1..Len(who')
  <2>1. \A i \in 1..Len(who) : i \in 1..Len(who')
    BY <1>1, <1>2
  <2>2. \A p, id : Serves(p, id) => Serves(p, id)'
    BY ONLY <1>2, <2>1 DEF Serves
  <2>3. ReadyServes /\ UNCHANGED <<previous, probes>>
    BY <1>1 DEF LabelInv
  <2>4. ReadyServes'
    BY ONLY <2>2, <2>3 DEF ReadyServes
  <2> QED BY <2>1, <2>4
<1>3. CASE Leave(t)
  <2>1. who' = who /\ server' = [server EXCEPT ![t] = 0]
    BY <1>3 DEF Leave
  <2>2. AllHonest' /\ ReadyServes'
    BY <1>1, <2>1 DEF LabelInv, AllHonest, ReadyServes, Serves
  <2>3. Bracket'
    BY <1>1, <2>1 DEF LabelInv, Bracket, SameModel
  <2> QED BY <2>2, <2>3 DEF LabelInv
<1>4. CASE Label(t)
  <2> DEFINE i == server[t]
             new == [who[i] EXCEPT !.labels = who[i].serves]
  <2>1. i \in 1..Len(who) /\ who[i] \in Body
    BY <1>4, Server DEF Label
  <2>2. who' = [who EXCEPT ![i] = new] /\ server' = server
    BY <1>1, <1>4 DEF Label
  <2>3. /\ new \in Body /\ new.labels = who[i].serves /\ new.serves = who[i].serves
        /\ new.engine = who[i].engine /\ new.sigs = who[i].sigs /\ new.mlx = who[i].mlx
    BY <2>1 DEF Body
  <2> HIDE DEF new
  <2>4. /\ Len(who') = Len(who)
        /\ \A j \in 1..Len(who) : who'[j] = IF j = i THEN new ELSE who[j]
    BY <1>1, <2>1, <2>2, <2>3, ExceptSeq
  <2>5. \A j \in 1..Len(who) : who'[j].engine = who[j].engine /\ who'[j].serves = who[j].serves
    BY <2>3, <2>4
  <2>6. AllHonest'
    BY <2>1, <2>3, <2>4 DEF LabelInv, AllHonest, Honest
  <2>7. ReadyServes'
    BY <1>1, <1>2, <2>4, <2>5
  <2>8. Bracket'
    <3> SUFFICES ASSUME NEW u \in Targets, probes[u].pc = "after"
                 PROVE  /\ probes[u].proc \in 1..Len(who')
                        /\ who'[probes[u].proc].engine = probes[u].engine
                        /\ server[u] # 0 /\ who'[server[u]].serves = {probes[u].model}
                             => who'[probes[u].proc].serves = {probes[u].model}
      BY <1>1, <2>2 DEF Bracket, SameModel
    <3>1. server[u] # 0 => server[u] \in 1..Len(who)
      BY Server
    <3> QED BY <2>4, <2>5, <3>1 DEF LabelInv, Bracket, SameModel
  <2> QED BY <2>6, <2>7, <2>8 DEF LabelInv
<1>5. ASSUME NEW body \in Bodies, Listen(t, body) PROVE LabelInv'
  <2>1. /\ who' = Append(who, body) /\ server' = [server EXCEPT ![t] = Len(who')]
        /\ \A m \in body.serves : ~BackToModel(t, m)
    BY <1>5 DEF Listen
  <2>2. body \in Body /\ Honest(body)
    BY SetsAssumption
  <2>3. /\ Len(who') = Len(who) + 1 /\ who'[Len(who')] = body
        /\ \A i \in 1..Len(who) : who'[i] = who[i]
    BY <1>1, <2>1, <2>2
  <2>4. AllHonest'
    BY <1>1, <2>2, <2>3 DEF LabelInv, AllHonest
  <2>5. ReadyServes' /\ \A i \in 1..Len(who) : i \in 1..Len(who')
    BY <1>1, <1>2, <2>3
  <2>6. Bracket'
    <3> SUFFICES ASSUME NEW u \in Targets, probes[u].pc = "after"
                 PROVE  /\ probes[u].proc \in 1..Len(who')
                        /\ who'[probes[u].proc].engine = probes[u].engine
                        /\ server'[u] # 0 /\ who'[server'[u]].serves = {probes[u].model}
                             => who'[probes[u].proc].serves = {probes[u].model}
      BY <1>1 DEF Bracket, SameModel
    <3> DEFINE p == probes[u]
    <3>1. p.proc \in 1..Len(who) /\ who[p.proc].engine = p.engine
      BY DEF LabelInv, Bracket
    <3>2. CASE u # t
      <4>1. server'[u] = server[u] /\ (server[u] # 0 => server[u] \in 1..Len(who))
        BY <1>1, <2>1, <3>2, Server
      <4> QED BY <2>3, <2>5, <3>1, <4>1 DEF LabelInv, Bracket, SameModel
    <3>3. CASE u = t
      <4>1. server'[t] = Len(who') /\ who'[server'[t]] = body
        BY <1>1, <2>1, <2>3
      <4>2. ASSUME body.serves = {p.model} PROVE who[p.proc].serves = {p.model}
        <5>1. ~BackToModel(t, p.model)
          BY <2>1, <4>2
        <5>2. server[t] # 0 /\ SameModel(t)
          BY <3>3, <5>1 DEF BackToModel
        <5> QED BY <3>3, <5>2 DEF LabelInv, Bracket
      <4> QED BY <2>3, <2>5, <3>1, <3>3, <4>1, <4>2
    <3> QED BY <3>2, <3>3
  <2> QED BY <2>4, <2>5, <2>6 DEF LabelInv
<1> QED BY <1>3, <1>4, <1>5

LEMMA LabelStep ==
    ASSUME \A b \in Bodies : Honest(b)
    PROVE  IInv /\ LabelInv /\ [Next]_vars => LabelInv'
<1> SUFFICES ASSUME IInv, LabelInv, [Next]_vars PROVE LabelInv'
  OBVIOUS
<1>1. ASSUME NEW t \in Targets, Probe(t) PROVE LabelInv'
  BY <1>1, ProbeLabels
<1>2. CASE Collect
  <2>1. PICK fresh \in SUBSET {t \in Keys : probes[t].pc = "done"} : Evict(Merged(fresh))
    BY <1>2, CollectFacts
  <2>2. fresh \in SUBSET Targets
    BY KeysBound
  <2>3. \A t \in Targets : previous'[t] \in {Fresh(t), NoObs} \/ (Kept(t) /\ previous'[t] = Absent(t))
    BY <2>1, <2>2, MergedFacts, EvictFacts
  <2>4. who' = who /\ probes' = [t \in Targets |-> NoProbe]
    BY <1>2 DEF Collect
  <2>5. ASSUME NEW t \in Targets, Ready(previous'[t])
        PROVE  Serves(previous'[t].from, previous'[t].id)
    <3>1. previous'[t] = Fresh(t)
      BY <2>3, <2>5, AbsentFacts DEF Ready, NoObs
    <3>2. Ready(probes[t].res) /\ Fresh(t).from = probes[t].res.from /\ Fresh(t).id = probes[t].res.id
      BY <2>5, <3>1, FreshFacts DEF Ready
    <3> QED BY <3>1, <3>2 DEF LabelInv, ReadyServes
  <2>6. \A t \in Targets : ~Ready(probes'[t].res) /\ probes'[t].pc # "after"
    BY <2>4, Blank DEF Ready
  <2> QED BY <2>4, <2>5, <2>6 DEF LabelInv, AllHonest, ReadyServes, Serves, Bracket
<1>3. ASSUME NEW t \in Targets, Leave(t) \/ Label(t) \/ \E body \in Bodies : Listen(t, body)
      PROVE  LabelInv'
  BY <1>3, WorldLabels
<1>4. ASSUME UNCHANGED <<server, who, previous, probes>> PROVE LabelInv'
  BY <1>4 DEF LabelInv, AllHonest, ReadyServes, Serves, Bracket, SameModel
<1> QED BY <1>1, <1>2, <1>3, <1>4 DEF Next, Observe, Begin, Deadline, vars

(* Samples carry the engine and the model of the process they come from,   *)
(* for any processes that are honest and however ports change hands during *)
(* the lookups, unless a port goes back to a model it has served before.   *)
THEOREM LabelsAreRight ==
    ASSUME \A b \in Bodies : Honest(b)
    PROVE  Spec => []SamplesLabelled
<1>1. Init => LabelInv
  BY Blank DEF Init, LabelInv, AllHonest, ReadyServes, Bracket, Ready, NoObs
<1>2. IInv /\ LabelInv /\ [Next]_vars => LabelInv'
  BY LabelStep
<1>3. LabelInv => SamplesLabelled
  BY DEF LabelInv, ReadyServes, Serves, SamplesLabelled
<1> QED BY <1>1, <1>2, <1>3, Invariant, PTL DEF Spec
=============================================================================
