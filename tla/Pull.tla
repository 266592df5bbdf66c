--------------------------------- MODULE Pull ---------------------------------
(***************************************************************************)
(* The pull adapters: internal/adapter/adapter.go with its vllm, sglang,   *)
(* llamacpp and tensorfold packages, the selections and sums of            *)
(* internal/promtext, Sample.Validate of internal/metrics, and report of   *)
(* internal/collector.                                                     *)
(*                                                                         *)
(* An engine has data-parallel workers, each with counters of its own that *)
(* start again when the worker does; the ranks of a worker run one batch   *)
(* and each may report it.  A scrape reads one /metrics body, picks the    *)
(* series of the registered model and of one rank per group, adds them up  *)
(* per worker, and exposes what validates.                                 *)
(*                                                                         *)
(* A body is a set of families, a family a set of series with labels; a    *)
(* label that is absent is "".  Of the canonical measurements the token    *)
(* counters, the cache usage and the time to first token are kept: the     *)
(* others (seconds, requests, speculation) go through the same Value.      *)
(***************************************************************************)
EXTENDS Naturals, FiniteSets, FiniteSetsExt

CONSTANTS
    Arms,          \* engines and their registrations: see Arm
    ModelSets,     \* the sets of models an engine may be launched with
    MaxWork,       \* bound: pieces of work done in all
    MaxRestarts    \* bound: restarts, departures and relaunches in all

Models == UNION ModelSets
Absent == ""   \* a label or an option that is not set
Expositions == {"vllm", "sglang", "llamacpp", "native", "patch0150"}
Groups == {"tp", "pp", "ep"}
Kinds == {"prefill", "decode", "cached", "stream", "batch"}

(* The registration's adapter and served_model ("" if not set); what the   *)
(* engine puts into the body, whether it labels models, its workers, the   *)
(* ranks that report for each, the histogram series of each and their      *)
(* bucket bounds, and the counters an old build does not have.             *)
Arm == [adapter : {"vllm", "sglang", "llamacpp", "tensorfold"}, served : Models \cup {Absent},
        exposes : SUBSET Expositions, labelled : BOOLEAN,
        workers : SUBSET {Absent, "0", "1"}, ranks : SUBSET [Groups -> {Absent, "0", "1"}],
        bounds : UNION {[h -> {"coarse", "fine"}] : h \in SUBSET {"stream", "batch"}},
        lacks : SUBSET Kinds]

(* Only vLLM and SGLang have several workers, and one of the ranks that    *)
(* report for a worker is the one to count: SGLang's ranks all report, one *)
(* of them is the first of each of its groups; of other engines one does.  *)
FirstRank(r) == \A g \in Groups : r[g] \in {Absent, "0"}
OneReporter(a) ==
    \E r \in a.ranks : \A q \in a.ranks : (a.adapter = "sglang" => FirstRank(q)) <=> q = r

ASSUME ArmsAssumption ==
    \A a \in Arms : /\ a \in Arm /\ a.workers # {} /\ OneReporter(a)
                    /\ a.adapter \notin {"vllm", "sglang"} => a.workers = {Absent}
ASSUME ModelsAssumption == Absent \notin Models /\ IsFiniteSet(Models)
ASSUME BoundsAssumption == MaxWork \in Nat /\ MaxRestarts \in Nat

VARIABLES
    arm,      \* the registration and its engine; it stays as it is
    models,   \* the models the engine was launched with
    up,       \* its workers that are there
    count,    \* the work of each worker and model since the worker started
    out,      \* what the last scrape exposed
    shown,    \* observer: the last value of every series ever exposed
    since,    \* observer: work since the worker's counters were last exposed
    used      \* observer of the bounds: work and restarts so far

vars == <<arm, models, up, count, out, shown, since, used>>

-----------------------------------------------------------------------------
(* The engine's body (external).                                           *)

(* The token counters of each exposition: family, label that tells its     *)
(* series apart, and the kind of work it counts.                           *)
Counters(x) ==
    CASE x = "vllm" -> {<<"generation_tokens", Absent, "decode">>,
                        <<"prompt_tokens_by_source", "local_compute", "prefill">>,
                        <<"prompt_tokens_by_source", "local_cache_hit", "cached">>,
                        <<"prompt_tokens_cached", Absent, "cached">>}
      [] x = "sglang" -> {<<"generation_tokens", Absent, "decode">>,
                          <<"realtime_tokens", "prefill_compute", "prefill">>,
                          <<"realtime_tokens", "prefill_cache", "cached">>,
                          <<"realtime_tokens", "decode", "decode">>}
      [] x = "llamacpp" -> {<<"tokens_predicted", Absent, "decode">>,
                            <<"prompt_tokens", Absent, "prefill">>,
                            <<"prompt_tokens_cached", Absent, "cached">>}
      [] x = "native" -> {<<"generation_tokens", Absent, "decode">>,
                          <<"health:cached_tokens", Absent, "cached">>}
      [] x = "patch0150" -> {<<"completion_tokens", Absent, "decode">>,
                             <<"cached_tokens", Absent, "cached">>}

(* The cache of a worker is six tenths full, whatever it does. *)
Usage == 6
Full == 10
HasUsage == {"vllm", "sglang"}
HasTTFT == {"vllm", "sglang", "native"}

Reporters == up \X models \X arm.ranks
Labels(r, mode) == [model |-> IF arm.labelled THEN r[2] ELSE Absent, worker |-> r[1],
                    rank |-> r[3], mode |-> mode]

Family(x, name) ==
    IF x \notin arm.exposes \/ (name = "usage" /\ x \notin HasUsage) THEN {}
    ELSE IF name = "usage"
         THEN {[labels |-> Labels(r, Absent), val |-> Usage] : r \in Reporters}
         ELSE {[labels |-> Labels(p[1], p[2][2]), val |-> count[<<p[1][1], p[1][2]>>][p[2][3]]] :
                  p \in Reporters \X {c \in Counters(x) : c[1] = name /\ c[3] \notin arm.lacks}}

(* First tokens of streamed requests are fast, below the one finite bound; *)
(* those of others are not.                                                *)
Histograms(x) ==
    {[labels |-> Labels(p[1], p[2]), bounds |-> arm.bounds[p[2]],
      count |-> count[<<p[1][1], p[1][2]>>][p[2]],
      le |-> IF p[2] = "stream" THEN count[<<p[1][1], p[1][2]>>][p[2]] ELSE 0] :
        p \in {q \in Reporters \X DOMAIN arm.bounds : x \in arm.exposes \cap HasTTFT}}

-----------------------------------------------------------------------------
(* promtext and adapter: selection and sums.                               *)

AnyMode == "any"

LabelValues(f) == {s.labels.model : s \in f} \ {Absent}

(* SelectModel: which models' series are taken, or that the registration   *)
(* does not fit.                                                           *)
Mismatch(reported) ==
    IF arm.served = Absent THEN Cardinality(reported) > 1
    ELSE reported # {} /\ arm.served \notin reported

(* mutant: the series of every model are taken *)
EveryModel(reported) == Models \cup {Absent}

SelectModel(reported) ==
    IF arm.served = Absent \/ reported = {} THEN Models \cup {Absent} ELSE {arm.served}

(* mutant: every rank is counted *)
AnyRank(x, l) == TRUE

(* rankZero: one reporter per tensor, pipeline and expert-parallel group. *)
RankZero(x, l) == x = "sglang" => FirstRank(l.rank)

Selected(x, f, chosen, mode) ==
    {s \in f : /\ s.labels.model \in chosen /\ RankZero(x, s.labels)
               /\ mode = AnyMode \/ s.labels.mode = mode}

(* mutant: workers are added up *)
OneWorker(x, l) == Absent

(* The worker label of NewWorkerBuilder; NewBuilder has none. *)
Worker(x, l) == IF x \in {"vllm", "sglang"} THEN l.worker ELSE Absent

WorkerID(w) == IF w = Absent THEN "default" ELSE w

(* mutant: a worker that is not there counts as zero *)
EachKnown(x, f) == {Worker(x, s.labels) : s \in f} \cup {Absent}

(* each: the workers that have a series among the selected. *)
Each(x, f) == {Worker(x, s.labels) : s \in f}

Of(x, f, w) == {s \in f : Worker(x, s.labels) = w}

Value(d, phase, x, f) ==
    {[def |-> d, phase |-> phase, worker |-> WorkerID(w),
      val |-> SumFunction([s \in Of(x, f, w) |-> s.val])] : w \in Each(x, f)}

(* Histogram: the bounds of the series that are added must agree. *)
SameBounds(f) == \A s, t \in f : s.bounds = t.bounds

Histogram(x, f) ==
    {[worker |-> WorkerID(w), count |-> SumFunction([s \in Of(x, f, w) |-> s.count]),
      le |-> SumFunction([s \in Of(x, f, w) |-> s.le])] : w \in Each(x, f)}

-----------------------------------------------------------------------------
(* The mappings.                                                           *)

Row(d, phase, family, mode) == [def |-> d, phase |-> phase, family |-> family, mode |-> mode]

VLLMRows ==
    {Row("tokens", "prefill", "prompt_tokens_by_source", "local_compute"),
     Row("tokens", "decode", "generation_tokens", AnyMode),
     Row("cached", "none", "prompt_tokens_cached", AnyMode),
     Row("usage", "none", "usage", AnyMode)}

SGLangRows ==
    {Row("tokens", "prefill", "realtime_tokens", "prefill_compute"),
     Row("tokens", "decode", "realtime_tokens", "decode"),
     Row("cached", "none", "realtime_tokens", "prefill_cache"),
     Row("usage", "none", "usage", AnyMode)}

LlamacppRows ==
    {Row("tokens", "prefill", "prompt_tokens", AnyMode),
     Row("tokens", "decode", "tokens_predicted", AnyMode),
     Row("cached", "none", "prompt_tokens_cached", AnyMode)}

NativeRows ==
    {Row("tokens", "decode", "generation_tokens", AnyMode),
     Row("cached", "none", "health:cached_tokens", AnyMode)}

Patch0150Rows ==
    {Row("tokens", "decode", "completion_tokens", AnyMode),
     Row("cached", "none", "cached_tokens", AnyMode)}

(* The calls of Value each mapping makes. *)
Rows(x) ==
    CASE x = "vllm" -> VLLMRows
      [] x = "sglang" -> SGLangRows
      [] x = "llamacpp" -> LlamacppRows
      [] x = "native" -> NativeRows
      [] x = "patch0150" -> Patch0150Rows

(* The family each mapping takes for the engine's, and for its models. *)
Characteristic(x) ==
    CASE x = "llamacpp" -> "tokens_predicted"
      [] x = "patch0150" -> "completion_tokens"
      [] OTHER -> "generation_tokens"

Has(x) == Family(x, Characteristic(x)) # {}

(* TensorFold's adapter maps whichever of its two expositions is there. *)
Mapping ==
    IF arm.adapter # "tensorfold" THEN arm.adapter
    ELSE IF Has("native") THEN "native" ELSE "patch0150"

BothTensorFold == arm.adapter = "tensorfold" /\ Has("native") /\ Has("patch0150")

NoResult == [err |-> "down", samples |-> {}, hists |-> {}]

(* Map: the body is this engine's, the registration fits it, and its       *)
(* series can be added up.                                                 *)
Map ==
    LET x == Mapping
        reported == LabelValues(Family(x, Characteristic(x)))
        chosen == SelectModel(reported)
        Taken(row) == Selected(x, Family(x, row.family), chosen, row.mode)
        hist == Selected(x, Histograms(x), chosen, AnyMode)
    IN  IF ~Has(x) \/ BothTensorFold THEN NoResult
        ELSE IF Mismatch(reported) THEN [NoResult EXCEPT !.err = "mismatch"]
        ELSE IF \E w \in Each(x, hist) : ~SameBounds(Of(x, hist, w)) THEN NoResult
        ELSE [err |-> "none", hists |-> Histogram(x, hist),
              samples |-> UNION {Value(row.def, row.phase, x, Taken(row)) : row \in Rows(x)}]

-----------------------------------------------------------------------------
(* The collector's report.                                                 *)

(* Sample.Validate: a ratio is at most one, buckets add up. *)
Valid(s) == s.def = "usage" => s.val <= Full
ValidHist(h) == h.le <= h.count

Key(s) == <<s.def, s.phase, s.worker>>

(* A second sample of a series is dropped. *)
Deduplicated(ss) == {CHOOSE s \in ss : Key(s) = k : k \in {Key(s) : s \in ss}}

Measurements == {<<"tokens", "prefill">>, <<"tokens", "decode">>, <<"cached", "none">>}

Report(res) ==
    LET valid == {s \in res.samples : Valid(s)}
    IN  [up |-> res.err = "none", mismatch |-> res.err = "mismatch", fresh |-> TRUE,
         samples |-> Deduplicated(valid),
         hists |-> {h \in res.hists : ValidHist(h)},
         available |-> {m \in Measurements : \E s \in valid : <<s.def, s.phase>> = m}]

NoOut == [up |-> FALSE, mismatch |-> FALSE, fresh |-> FALSE, samples |-> {}, hists |-> {},
          available |-> {}]

NoWork == [k \in Kinds |-> 0]

Launched(ms) == up' = arm.workers /\ models' = ms

Init ==
    /\ arm \in Arms
    /\ up = arm.workers
    /\ models \in {ms \in ModelSets : arm.labelled \/ Cardinality(ms) = 1}
    /\ count = [p \in arm.workers \X Models |-> NoWork]
    /\ since = count
    /\ out = NoOut /\ shown = [k \in {} |-> 0]
    /\ used = [work |-> 0, restarts |-> 0]

(* Samples are counters of the registered arm by series. *)
Stored(samples) ==
    LET new == {s \in samples : s.def # "usage"}
        keys == {Key(s) : s \in new}
    IN  [k \in keys \cup DOMAIN shown |->
            IF k \in keys THEN (CHOOSE s \in new : Key(s) = k).val ELSE shown[k]]

(* Pull.Collect and report: FetchMetrics may fail. *)
Scrape ==
    /\ \E res \in {NoResult, Map} :
          /\ out' = Report(res)
          /\ shown' = Stored(out'.samples)
          /\ since' = [p \in DOMAIN since |->
                          IF out'.up /\ p[1] \in up THEN NoWork ELSE since[p]]
    /\ UNCHANGED <<arm, models, up, count, used>>

-----------------------------------------------------------------------------
(* The engine (external): it works, its workers restart, leave and come    *)
(* back, and it is launched again with other models.                       *)

Stale == out' = [out EXCEPT !.fresh = FALSE]

Work(w, m, k) ==
    /\ w \in up /\ m \in models /\ used.work < MaxWork
    /\ count' = [count EXCEPT ![<<w, m>>][k] = @ + 1]
    /\ since' = [since EXCEPT ![<<w, m>>][k] = @ + 1]
    /\ used' = [used EXCEPT !.work = @ + 1]
    /\ Stale /\ UNCHANGED <<arm, models, up, shown>>

Started(ws) == count' = [p \in DOMAIN count |-> IF p[1] \in ws THEN NoWork ELSE count[p]]

Disturbed == /\ used.restarts < MaxRestarts
             /\ used' = [used EXCEPT !.restarts = @ + 1]
             /\ Stale /\ UNCHANGED <<arm, shown, since>>

Leave(w) == Disturbed /\ w \in up /\ up' = up \ {w} /\ UNCHANGED <<models, count>>

Restart(w) == Disturbed /\ up' = up \cup {w} /\ Started({w}) /\ UNCHANGED models

Relaunch(ms) ==
    /\ Disturbed
    /\ arm.labelled \/ Cardinality(ms) = 1
    /\ Launched(ms) /\ Started(arm.workers)

Next == \/ Scrape
        \/ \E w \in arm.workers : Leave(w) \/ Restart(w) \/
               \E m \in models, k \in Kinds : Work(w, m, k)
        \/ \E ms \in ModelSets : Relaunch(ms)

Spec == Init /\ [][Next]_vars

-----------------------------------------------------------------------------
(* Every variable has its type. *)
TypeOK ==
    /\ arm \in Arms /\ models \in ModelSets /\ up \subseteq arm.workers
    /\ count \in [arm.workers \X Models -> [Kinds -> 0..MaxWork]]
    /\ since \in [arm.workers \X Models -> [Kinds -> 0..MaxWork]]
    /\ out.hists \subseteq [worker : {"default", "0", "1"}, count : 0..MaxWork, le : 0..MaxWork]
    /\ out.samples \subseteq [def : {"tokens", "cached", "usage"},
                              phase : {"prefill", "decode", "none"},
                              worker : {"default", "0", "1"}, val : 0..MaxWork + Full]
    /\ \A k \in DOMAIN shown : shown[k] \in 0..MaxWork
    /\ ~out.up => out.samples \cup out.hists \cup out.available = {}
    /\ used \in [work : 0..MaxWork, restarts : 0..MaxRestarts]

(* What the measurement is about, and the models that are this arm's. *)
KindOf(m) == IF m[1] = "cached" THEN "cached" ELSE m[2]
Counted == IF arm.labelled /\ arm.served # Absent THEN {arm.served} ELSE Models
Done(f, ws, ks) == SumFunction([p \in ws \X Counted \X ks |-> f[<<p[1], p[2]>>][p[3]]])

Exposed(m) == {s \in out.samples : <<s.def, s.phase>> = m}

(* One model: the one that is registered or, where none is, the only one.  *)
OneModel ==
    arm.labelled => IF arm.served = Absent THEN Cardinality(models) = 1 ELSE arm.served \in models

(* Every piece of work is exposed once: each worker's series is the work   *)
(* of that worker for the arm's one model, whichever ranks, other models   *)
(* and kinds of tokens are in the body; a cache's usage is its own, and a  *)
(* histogram has as many observations as there were.                       *)
CountsOnce ==
    out.fresh /\ out.up =>
        /\ OneModel
        /\ \A m \in Measurements : \A s \in Exposed(m) :
              \E w \in up : WorkerID(w) = s.worker /\ s.val = Done(count, {w}, {KindOf(m)})
        /\ \A w \in up : Mapping \in HasUsage =>
              \E s \in Exposed(<<"usage", "none">>) : s.worker = WorkerID(w) /\ s.val = Usage
        /\ \A h \in out.hists : \E w \in up :
              /\ WorkerID(w) = h.worker
              /\ h.count = Done(count, {w}, DOMAIN arm.bounds)
              /\ h.le = Done(count, {w}, {"stream"} \cap DOMAIN arm.bounds)

Measured(m) ==
    \E c \in Counters(Mapping) : c[3] = KindOf(m) /\ c[3] \notin arm.lacks

(* Absent is not zero: an arm that is up says of a measurement that it is  *)
(* available, and exposes it for each of its workers, if and only if the   *)
(* engine's exposition has it.                                             *)
AbsentIsNotZero ==
    out.fresh /\ out.up => \A m \in Measurements :
        /\ m \in out.available <=> Measured(m)
        /\ {s.worker : s \in Exposed(m)} = {WorkerID(w) : w \in {v \in up : Measured(m)}}

(* What a reader of the counters takes for their increase. *)
Increase(k) ==
    IF k \notin DOMAIN shown THEN 0
    ELSE IF shown'[k] >= shown[k] THEN shown'[k] - shown[k] ELSE shown'[k]

(* Reset boundaries are kept: the increase that Prometheus computes from   *)
(* one scrape of a series to the next, resets included, never exceeds the  *)
(* work that was done meanwhile, whichever workers restarted, left or came *)
(* back in between and whatever failed.                                    *)
RateNeverOvercounts ==
    [][out'.fresh => \A m \in Measurements :
          LET keys == {k \in DOMAIN shown' : <<k[1], k[2]>> = m}
              increase == [k \in keys |-> Increase(k)]
          IN  SumFunction(increase) <= Done(since, arm.workers, {KindOf(m)})]_vars
=============================================================================
