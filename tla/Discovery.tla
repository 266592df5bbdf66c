------------------------------- MODULE Discovery -------------------------------
(***************************************************************************)
(* Automatic discovery: internal/discovery/discovery.go, and the detection *)
(* of engines it rests on, internal/engines/detect.go.                     *)
(*                                                                         *)
(* Observe lists the local listeners, picks the next targets in rotation,  *)
(* lets a few workers probe them until all are done or the deadline has    *)
(* passed, and merges the results into what it remembers of earlier calls  *)
(* (previous), which is also what it returns.  A probe is up to four       *)
(* requests to a port where processes come and go between any two.         *)
(*                                                                         *)
(* Targets are ports, ordered as their URLs are; the backend of a target   *)
(* is its hash, here the target itself.  An error is a state other than    *)
(* "ready"; every diagnostic state but "unavailable" is "other".  Times    *)
(* are relative: an observation has the age of its last probe, and changed *)
(* says whether this call set ChangedAt.                                   *)
(***************************************************************************)
EXTENDS Naturals, Sequences, FiniteSets

CONSTANTS
    NumTargets,    \* ports there are
    Models,        \* what engines serve
    Bodies,        \* what processes there may be: see Body
    MaxTargets,    \* Options.MaxTargets
    Workers,       \* goroutines that probe
    Factor,        \* MaxTargets * Factor observations are retained
    ForgetAfter,   \* Options.ForgetAfter
    HasStartTime,  \* telemetry has process_start_time_seconds
    Pinnable,      \* bound: targets whose port or backend a registration may pin
    MaxProcs       \* bound: processes that ever listen

Targets == 1..NumTargets
Procs == 1..MaxProcs
Unknown == "unknown"
NoModel == ""

(* Detect's candidates by their telemetry, the engine each stands for, and *)
(* those whose metrics carry the model as a label.                         *)
Signatures == {"vllm", "llamacpp", "sglang", "patch0150", "native"}
EngineOf(s) == IF s \in {"patch0150", "native"} THEN "tensorfold" ELSE s
Labelled == {"vllm", "llamacpp", "sglang"}
Engines == {EngineOf(s) : s \in Signatures} \cup {"mlx-serve"}

(* What a process exposes: the signatures its metrics match, whether any   *)
(* has the prefix of mlx-serve, the models its labels name and the models  *)
(* /v1/models lists; and the engine that it really is, or Unknown.         *)
Body == [sigs : SUBSET Signatures, mlx : BOOLEAN, labels : SUBSET Models,
         serves : SUBSET Models, engine : Engines \cup {Unknown}]

ASSUME SizesAssumption ==
    /\ {NumTargets, MaxTargets, Workers, Factor} \subseteq Nat \ {0}
    /\ ForgetAfter \in Nat /\ MaxProcs \in Nat
ASSUME SetsAssumption ==
    /\ HasStartTime \in BOOLEAN /\ Bodies \subseteq Body /\ Pinnable \subseteq Targets
    /\ IsFiniteSet(Models)
ASSUME UnknownAssumption == {Unknown, NoModel} \cap Models = {}

VARIABLES
    server,    \* the process that listens on each port, 0 for none
    who,       \* the body of each process there has been
    previous,  \* Manager.previous
    cursor,    \* Manager.cursor
    obs,       \* the call of Observe: pc, the targets left after filtering
               \* (unique, which stays to see between calls), start of the
               \* rotation, their generations, the pinned ports and
               \* backends, time since the last call, whether ctx is done
    probes     \* the probe of each target in this call

vars == <<server, who, previous, cursor, obs, probes>>

Ident == (Engines \cup {Unknown}) \X (Models \cup {Unknown})
NoIdent == <<Unknown, Unknown>>

Min(a, b) == IF a < b THEN a ELSE b

(* Result: what a probe found, and the process its samples came from. *)
Result == [id : Ident, state : {"ready", "unavailable", "other"},
           gen : (Procs \cup {0}) \X (Procs \cup {0}), from : Procs \cup {0}]
NoResult == [id |-> NoIdent, state |-> "unavailable", gen |-> <<0, 0>>, from |-> 0]

(* Observation: a result, when it was probed and whether it moved ChangedAt. *)
Observation == [id : Ident, state : {"ready", "unavailable", "other"},
                gen : (Procs \cup {0}) \X (Procs \cup {0}), from : Procs \cup {0},
                age : 0..ForgetAfter, changed : BOOLEAN]
NoObs == [id |-> NoIdent, state |-> "none", gen |-> <<0, 0>>, from |-> 0,
          age |-> 0, changed |-> FALSE]

NoProbe == [pc |-> "wait", engine |-> Unknown, model |-> Unknown,
            label |-> NoModel, proc |-> 0, res |-> NoResult]

Idle(unique) == [pc |-> "idle", unique |-> unique, start |-> 0,
                 gens |-> [t \in Targets |-> 0], ports |-> {}, names |-> {},
                 elapsed |-> 1, done |-> FALSE]

Ready(o) == o.state = "ready"
Known(p) == {t \in Targets : p[t] # NoObs}

Init ==
    /\ server = [t \in Targets |-> 0] /\ who = <<>>
    /\ previous = [t \in Targets |-> NoObs] /\ cursor = 0
    /\ obs = Idle({})
    /\ probes = [t \in Targets |-> NoProbe]

-----------------------------------------------------------------------------
(* Observe: the selection of targets. *)

(* The place of t in the rotation, and the targets this call probes. *)
Rank(t) == Cardinality({u \in obs.unique : u < t})
Pos(t) == (Rank(t) + Cardinality(obs.unique) - obs.start) % Cardinality(obs.unique)
Keys == {t \in obs.unique : Pos(t) < MaxTargets}

(* mutant: the next call starts behind every target that was queued *)
NextAll(start, n) == (start + Min(n, MaxTargets)) % n

(* The next call starts behind the targets that certainly got a worker. *)
NextStart(start, n) == (start + Min(Workers, Min(n, MaxTargets))) % n

(* Candidates returns the listening ports with the inode or pid of their   *)
(* listener, or fails.  Ports of pinned registrations are left out.        *)
Begin(ports, names) ==
    /\ obs.pc = "idle"
    /\ \E up \in {{}, {t \in Targets : server[t] # 0}}, d \in {1, ForgetAfter + 1} :
        LET unique == up \ ports
            n == Cardinality(unique)
            start == IF n = 0 THEN 0 ELSE cursor % n
        IN  /\ obs' = [pc |-> "probe", unique |-> unique, start |-> start,
                       gens |-> [t \in Targets |-> IF t \in unique THEN server[t] ELSE 0],
                       ports |-> ports, names |-> names,
                       elapsed |-> d, done |-> FALSE]
            /\ cursor' = IF n = 0 THEN cursor ELSE NextStart(start, n)
    /\ UNCHANGED <<server, who, previous, probes>>

(* ctx is done. *)
Deadline ==
    /\ obs.pc = "probe" /\ ~obs.done
    /\ obs' = [obs EXCEPT !.done = TRUE]
    /\ UNCHANGED <<server, who, previous, cursor, probes>>

-----------------------------------------------------------------------------
(* probe. *)

(* mutant: the first signature that matches is taken *)
FirstMatch(b) ==
    IF b.sigs = {} THEN [err |-> TRUE, engine |-> Unknown, model |-> NoModel]
    ELSE LET s == CHOOSE x \in b.sigs : TRUE
         IN  [err |-> FALSE, engine |-> EngineOf(s),
              model |-> IF s \in Labelled /\ b.labels # {} THEN CHOOSE m \in b.labels : TRUE
                        ELSE NoModel]

(* Detect: one signature, and where its metrics are labelled, not several  *)
(* models.  mlx-serve exposes metrics of vLLM, which are then not vLLM's.  *)
Detect(b) ==
    LET matches == IF b.mlx THEN b.sigs \ {"vllm"} ELSE b.sigs
        models == IF matches \subseteq Labelled THEN b.labels ELSE {}
    IN  IF b.mlx \/ Cardinality(matches) # 1
        THEN [err |-> TRUE, model |-> NoModel,
              engine |-> IF b.mlx /\ matches = {} THEN "mlx-serve" ELSE Unknown]
        ELSE [err |-> Cardinality(models) > 1,
              engine |-> EngineOf(CHOOSE s \in matches : TRUE),
              model |-> IF Cardinality(models) = 1 THEN CHOOSE m \in models : TRUE
                        ELSE NoModel]

Busy == {t \in Targets : probes[t].pc \notin {"wait", "done"}}

(* A free worker takes the next target off the channel. *)
Take(t) ==
    /\ obs.pc = "probe" /\ ~obs.done
    /\ t \in Keys /\ probes[t].pc = "wait"
    /\ \A u \in Keys : probes[u].pc = "wait" => Pos(t) <= Pos(u)
    /\ Cardinality(Busy) < Workers
    /\ probes' = [probes EXCEPT ![t].pc = "metrics"]
    /\ UNCHANGED <<server, who, previous, cursor, obs>>

Answered(t, res) == probes' = [probes EXCEPT ![t] = [NoProbe EXCEPT !.pc = "done", !.res = res]]

(* The samples of process p are mapped under engine and model, or the      *)
(* mapping fails.                                                          *)
Mapped(t, p, engine, model) ==
    \E state \in {"ready", "unavailable"} :
        Answered(t, [id |-> <<engine, model>>, state |-> state,
                     gen |-> <<obs.gens[t], IF HasStartTime THEN p ELSE 0>>,
                     from |-> IF state = "ready" THEN p ELSE 0])

Failed(t, state, id) ==
    Answered(t, [NoResult EXCEPT !.state = state, !.id = id, !.gen = <<obs.gens[t], 0>>])

(* The first FetchMetrics and Detect. *)
FetchMetrics(t) ==
    /\ probes[t].pc = "metrics" /\ server[t] # 0
    /\ LET d == Detect(who[server[t]])
       IN  \/ d.err /\ Failed(t, "other", <<d.engine, Unknown>>)
           \/ ~d.err /\ d.model # NoModel /\ Mapped(t, server[t], d.engine, d.model)
           \/ /\ ~d.err /\ d.model = NoModel
              /\ probes' = [probes EXCEPT ![t].pc = "before", ![t].engine = d.engine]
    /\ UNCHANGED <<server, who, previous, cursor, obs>>

(* /v1/models before the second snapshot names one model. *)
ModelBefore(t) ==
    /\ probes[t].pc = "before" /\ server[t] # 0
    /\ \E m \in Models :
          /\ who[server[t]].serves = {m}
          /\ probes' = [probes EXCEPT ![t].pc = "again", ![t].model = m]
    /\ UNCHANGED <<server, who, previous, cursor, obs>>

(* The second FetchMetrics: Detect must find the engine again.  The model  *)
(* it finds is compared only after the last request.                       *)
FetchAgain(t) ==
    /\ probes[t].pc = "again" /\ server[t] # 0
    /\ LET d == Detect(who[server[t]])
       IN  IF ~d.err /\ d.engine = probes[t].engine
           THEN probes' = [probes EXCEPT ![t].pc = "after", ![t].proc = server[t],
                                         ![t].label = d.model]
           ELSE Failed(t, "other", <<probes[t].engine, Unknown>>)
    /\ UNCHANGED <<server, who, previous, cursor, obs>>

(* mutant: the second answer is not compared *)
AnyModel(t) == TRUE

SameModel(t) == who[server[t]].serves = {probes[t].model}

(* /v1/models after it must name the same model, and so must the labels of *)
(* the second snapshot, if there are any.                                  *)
ModelAfter(t) ==
    /\ probes[t].pc = "after" /\ server[t] # 0
    /\ IF SameModel(t) /\ probes[t].label \in {NoModel, probes[t].model} THEN Mapped(t, probes[t].proc, probes[t].engine, probes[t].model)
       ELSE Failed(t, "other", <<probes[t].engine, Unknown>>)
    /\ UNCHANGED <<server, who, previous, cursor, obs>>

(* A request fails: refused, timed out, or not understood. *)
RequestFails(t) ==
    /\ t \in Busy
    /\ LET pr == probes[t] IN
          Failed(t, IF pr.pc \in {"metrics", "again"} THEN "unavailable" ELSE "other",
                 <<pr.engine, Unknown>>)
    /\ UNCHANGED <<server, who, previous, cursor, obs>>

Probe(t) == Take(t) \/ FetchMetrics(t) \/ ModelBefore(t) \/ FetchAgain(t)
            \/ ModelAfter(t) \/ RequestFails(t)

-----------------------------------------------------------------------------
(* Observe: the merge. *)

(* mutant: a backend that is pinned is not looked for *)
PortsOnly(t) == t \in obs.ports

Pinned(t) == t \in obs.ports \cup obs.names

Kept(t) == /\ previous[t] # NoObs /\ ~Pinned(t)
           /\ previous[t].age + obs.elapsed <= ForgetAfter

(* mutant: the health of a target that was not probed stays *)
StillThere(t) == [previous[t] EXCEPT !.age = @ + obs.elapsed, !.changed = FALSE]

(* A target without a result keeps its identity and loses its samples. *)
Absent(t) == [previous[t] EXCEPT !.age = @ + obs.elapsed, !.changed = FALSE,
                                 !.state = "unavailable", !.from = 0]

(* mutant: a recovery does not count as a change *)
NewIdentity(t, id, r) ==
    \/ ~Kept(t) \/ id # previous[t].id \/ r.gen # previous[t].gen

(* Is ChangedAt set for result r of t, under identity id? *)
Changed(t, id, r) ==
    \/ ~Kept(t) \/ id # previous[t].id \/ r.gen # previous[t].gen
    \/ ~Ready(previous[t]) /\ Ready(r)

(* An endpoint that does not answer keeps the identity it had. *)
Fresh(t) ==
    LET r == probes[t].res
        id == IF r.state = "unavailable" /\ Kept(t) THEN previous[t].id ELSE r.id
    IN  [id |-> id, state |-> r.state, gen |-> r.gen, from |-> r.from,
         age |-> 0, changed |-> Changed(t, id, r)]

Merged(fresh) ==
    [t \in Targets |-> IF t \in fresh /\ ~Pinned(t) THEN Fresh(t)
                       ELSE IF Kept(t) THEN Absent(t) ELSE NoObs]

(* mutant: the newest go first *)
NewestFirst(m, v) == \A t \in v, u \in Known(m) \ v : m[t].age <= m[u].age

OldestFirst(m, v) == \A t \in v, u \in Known(m) \ v : m[t].age >= m[u].age

(* mutant: retained diagnostics are not bounded *)
KeepAll(m) == previous' = m

(* The oldest observations beyond the cap are evicted. *)
Evict(m) ==
    LET excess == Cardinality(Known(m)) - Factor * MaxTargets
    IN  IF Cardinality(Known(m)) <= Factor * MaxTargets THEN previous' = m
        ELSE \E v \in SUBSET Known(m) :
                /\ Cardinality(v) = excess /\ OldestFirst(m, v)
                /\ previous' = [t \in Targets |-> IF t \in v THEN NoObs ELSE m[t]]

(* Every result has come in; or ctx is done, and of the results that have  *)
(* come any may be lost to the select.                                     *)
Collect ==
    /\ obs.pc = "probe"
    /\ LET ended == {t \in Keys : probes[t].pc = "done"} IN
          \/ ended = Keys /\ Evict(Merged(ended))
          \/ obs.done /\ \E fresh \in SUBSET ended : Evict(Merged(fresh))
    /\ obs' = Idle(obs.unique)
    /\ probes' = [t \in Targets |-> NoProbe]
    /\ UNCHANGED <<server, who, cursor>>

-----------------------------------------------------------------------------
(* Processes take over ports and leave them. *)

(* A port that goes back to the model a lookup has read, after having      *)
(* served another one: the bracket cannot tell.                            *)
BackToModel(t, model) ==
    /\ probes[t].pc \in {"again", "after"} /\ probes[t].model = model
    /\ server[t] = 0 \/ ~SameModel(t)

Listen(t, body) ==
    /\ Len(who) < MaxProcs
    /\ \A m \in body.serves : ~BackToModel(t, m)
    /\ who' = Append(who, body)
    /\ server' = [server EXCEPT ![t] = Len(who')]
    /\ UNCHANGED <<previous, cursor, obs, probes>>

Leave(t) ==
    /\ server[t] # 0
    /\ server' = [server EXCEPT ![t] = 0]
    /\ UNCHANGED <<who, previous, cursor, obs, probes>>

(* Metrics get their labels with the first request that is served. *)
Label(t) ==
    /\ server[t] # 0 /\ who[server[t]].labels # who[server[t]].serves
    /\ who' = [who EXCEPT ![server[t]].labels = who[server[t]].serves]
    /\ UNCHANGED <<server, previous, cursor, obs, probes>>

-----------------------------------------------------------------------------
Observe == (\E ports \in SUBSET Pinnable, names \in SUBSET Pinnable : Begin(ports, names)) \/ Deadline
           \/ (\E t \in Targets : Probe(t)) \/ Collect

Next == Observe \/ \E t \in Targets :
            Leave(t) \/ Label(t) \/ \E body \in Bodies : Listen(t, body)

Spec == Init /\ [][Next]_vars

(* Scrapes keep coming, and every request ends by its timeout. *)
FairSpec == Spec /\ WF_vars(Observe)

-----------------------------------------------------------------------------
(* Every variable has its type, and what is retained is bounded. *)
TypeOK ==
    /\ who \in Seq(Body) /\ Len(who) <= MaxProcs
    /\ server \in [Targets -> 0..Len(who)]
    /\ previous \in [Targets -> Observation \cup {NoObs}]
    /\ Cardinality(Known(previous)) <= Factor * MaxTargets
    /\ cursor \in 0..NumTargets - 1
    /\ obs \in [pc : {"idle", "probe"}, unique : SUBSET Targets, start : 0..NumTargets - 1,
                gens : [Targets -> 0..MaxProcs], ports : SUBSET Targets,
                names : SUBSET Targets, elapsed : 1..ForgetAfter + 1, done : BOOLEAN]
    /\ probes \in [Targets -> [pc : {"wait", "metrics", "before", "again", "after", "done"},
                               engine : Engines \cup {Unknown}, model : Models \cup {Unknown},
                               label : Models \cup {NoModel}, proc : 0..MaxProcs, res : Result]]

Returns == obs.pc = "probe" /\ obs'.pc = "idle"

(* What discovery reports as ready was probed to the end in this very      *)
(* call: whatever the deadline cut off, no older measurement stays.        *)
ReadyIsFresh ==
    [][Returns => \A t \in Targets : Ready(previous'[t]) =>
          t \in Keys /\ probes[t].pc = "done" /\ Ready(probes[t].res)]_vars

(* Without a deadline every target that was probed and is not pinned is    *)
(* reported: the cap only evicts older observations.                       *)
CapSparesFresh ==
    [][Returns /\ ~obs.done => \A t \in Keys \ obs.names :
          previous'[t] # NoObs /\ previous'[t].age = 0]_vars

(* A pinned port or backend is not reported by discovery as well, although *)
(* it was discovered and remembered before it was pinned.                  *)
PinsWin ==
    [][Returns => \A t \in obs.ports \cup obs.names : previous'[t] = NoObs]_vars

(* Samples are labelled with the engine and the one model of the process   *)
(* they come from, although the port may change hands during the lookup;   *)
(* those of a compatibility layer, of a process that looks like several    *)
(* engines, or of one with several models are not exposed at all.          *)
SamplesLabelled ==
    \A t \in Targets : Ready(previous[t]) =>
        LET body == who[previous[t].from]
        IN  previous[t].id[1] = body.engine /\ {previous[t].id[2]} = body.serves

(* ChangedAt guards deltas: if a target is ready and ChangedAt has not     *)
(* moved since the call before, it was ready then, and the samples of both *)
(* calls come from one process.                                            *)
DeltasAreSafe ==
    [][\A t \in Targets :
          Returns /\ Ready(previous'[t]) /\ ~previous'[t].changed =>
          Ready(previous[t]) /\ previous'[t].from = previous[t].from]_vars

(* The deadline passed before every worker could take its first target. *)
Early == obs.done /\ \E t \in Keys : Pos(t) < Workers /\ probes[t].pc = "wait"

(* Slow targets do not keep others from being probed: a target of a set    *)
(* that stays the same is probed again and again, however often the        *)
(* deadline falls, as long as the workers get to start.                    *)
NoTargetStarves ==
    \A t \in Targets :
        <>[]~Early /\ <>[][obs'.unique = obs.unique]_vars /\ <>[](t \in obs.unique)
            => []<>(probes[t].pc = "metrics")
=============================================================================
