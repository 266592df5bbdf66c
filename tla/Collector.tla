------------------------------ MODULE Collector ------------------------------
(***************************************************************************)
(* The life of an arm: internal/collector/collector.go.                    *)
(*                                                                         *)
(* A scrape (Collect, serialised by c.mu) loads the registrations, makes   *)
(* the arms match them (sync), calls every adapter in a worker goroutine   *)
(* of its own, waits for each worker or its timeout, and reports.  A       *)
(* worker whose adapter ignores its context outlives the scrape; nobody    *)
(* waits for it, so its arm is retired when its registration changes, and  *)
(* the backend gets a placeholder until the worker returns.                *)
(*                                                                         *)
(* The scraper and the workers share an arm under its mutex life.  A step  *)
(* is one section under life with the map updates after it, which only the *)
(* scraper makes.  Registrations are values compared as a whole.           *)
(***************************************************************************)
EXTENDS Integers, FiniteSets

CONSTANTS
    Backends,       \* the keys of the maps
    Regs,           \* what a registration of a backend may say
    ArmIds,         \* the addresses of arms
    MaxErrors       \* bound: where the error counters saturate

ASSUME MaxErrorsAssumption == MaxErrors \in Nat

NoReg == "no registration"
NoArm == "no arm"

ASSUME BackendsAssumption == Backends # {}
ASSUME ArmIdsAssumption == NoArm \notin ArmIds
ASSUME RegsAssumption == NoReg \notin Regs

VARIABLES
    valid,    \* the registrations the last scrape loaded
    arms,     \* c.arms
    retired,  \* c.retired
    heap,     \* the arms: reg, busy, closed, the adapter and errors,
              \* and how many Collect calls are really in the adapter
    pc,       \* where the scraper is
    todo,     \* the keys its current loop has left
    cur,      \* the key whose arm sync has just closed
    wait,     \* the goroutine of each key: its state, then its outcome
    failures  \* observer: failed attempts since the registration appeared

vars == <<valid, arms, retired, heap, pc, todo, cur, wait, failures>>

(* ad is "nil", "open", "closed", or "twice" when it was closed again.     *)
Arm == [backend : Backends, reg : Regs \cup {NoReg}, busy : BOOLEAN,
        closed : BOOLEAN, ad : {"nil", "open", "closed", "twice"},
        errors : 0..MaxErrors, calls : 0..2]

(* The record of an unused address. *)
Free == [backend |-> CHOOSE b \in Backends : TRUE, reg |-> NoReg,
         busy |-> FALSE, closed |-> FALSE, ad |-> "nil", errors |-> 0,
         calls |-> 0]

CloseAd(ad) == CASE ad = "open" -> "closed" [] ad = "nil" -> "nil" [] OTHER -> "twice"

OneMore(n) == IF n < MaxErrors THEN n + 1 ELSE n

Keys(m) == {b \in Backends : m[b] # NoArm}

(* What keeps an arm from being collected as garbage. *)
Reachable(i) ==
    \/ \E b \in Backends : i \in {arms[b], retired[b]}
    \/ heap[i].calls > 0

Init ==
    /\ valid = [b \in Backends |-> NoReg]
    /\ arms = [b \in Backends |-> NoArm]
    /\ retired = [b \in Backends |-> NoArm]
    /\ heap = [i \in ArmIds |-> Free]
    /\ pc = "idle"
    /\ todo = {} /\ cur = {}
    /\ wait = [b \in Backends |-> "none"]
    /\ failures = [b \in Backends |-> 0]

-----------------------------------------------------------------------------
(* An address nobody holds may be given to a new arm.  One whose adapter   *)
(* was not closed keeps its record, for NoLeak.                            *)
Collected ==
    [i \in ArmIds |-> IF Reachable(i) \/ heap[i].ad \in {"open", "twice"}
                      THEN heap[i] ELSE Free]

(* Collect takes c.mu and loads the directory, where launchers have        *)
(* written and removed registrations meanwhile.                            *)
BeginScrape ==
    /\ pc = "idle"
    /\ valid' \in [Backends -> Regs \cup {NoReg}]
    /\ failures' = [b \in Backends |-> IF valid'[b] = valid[b] THEN failures[b] ELSE 0]
    /\ pc' = "retire" /\ todo' = Keys(retired)
    /\ heap' = Collected
    /\ UNCHANGED <<arms, retired, cur, wait>>

-----------------------------------------------------------------------------
(* sync. *)

(* Forget a retired arm whose worker has returned. *)
Retire ==
    /\ pc = "retire"
    /\ \/ /\ todo = {}
          /\ pc' = "sync"
          /\ todo' = {b \in Backends : valid[b] # NoReg}
          /\ UNCHANGED retired
       \/ \E b \in todo :
             /\ retired' = IF heap[retired[b]].busy THEN retired
                           ELSE [retired EXCEPT ![b] = NoArm]
             /\ todo' = todo \ {b}
             /\ UNCHANGED pc
    /\ UNCHANGED <<valid, arms, heap, cur, wait, failures>>

(* c.arms[b] = &arm{...} *)
Place(b, closed, ads) ==
    /\ \E i \in ArmIds : ~Reachable(i)
    /\ LET i == CHOOSE j \in ArmIds : ~Reachable(j) IN \E ad \in ads :
        /\ heap' = [heap EXCEPT ![i] =
                       [backend |-> b, reg |-> valid[b], busy |-> FALSE,
                        closed |-> closed, ad |-> ad, errors |-> 0,
                        calls |-> 0]]
        /\ arms' = [arms EXCEPT ![b] = i]

(* The worker of the retired arm of b still runs: a placeholder, with no   *)
(* adapter and already closed.                                             *)
SyncRetired(b) ==
    /\ pc = "sync" /\ cur = {} /\ b \in todo
    /\ retired[b] # NoArm /\ heap[retired[b]].busy
    /\ Place(b, TRUE, {"nil"})
    /\ todo' = todo \ {b}
    /\ UNCHANGED <<valid, retired, pc, cur, wait, failures>>

(* mutant: an arm is kept without a look at closed *)
SameRegistration(a, r) == a.reg = r

(* mutant: an arm is kept without a look at its registration *)
NotClosed(a, r) == ~a.closed

(* old.reg == r && !closed *)
Current(a, r) == a.reg = r /\ ~a.closed

(* mutant: the adapter is closed under its worker *)
CloseArmNow(b, m) ==
    LET i == arms[b] IN
        IF heap[i].closed THEN heap' = heap /\ retired' = m
        ELSE /\ heap' = [heap EXCEPT ![i].closed = TRUE, ![i].ad = CloseAd(@)]
             /\ retired' = m

(* mutant: a busy arm is forgotten *)
CloseArmForgets(b, m) ==
    LET i == arms[b] IN
        /\ heap' = IF heap[i].busy \/ heap[i].closed THEN heap ELSE
              [heap EXCEPT ![i].closed = TRUE, ![i].ad = CloseAd(@)]
        /\ retired' = m

(* mutant: a busy arm is retired before it is marked closed *)
CloseArmLate(b, m) ==
    LET i == arms[b] IN
        IF heap[i].closed THEN heap' = heap /\ retired' = m
        ELSE IF heap[i].busy THEN heap' = heap /\ retired' = [m EXCEPT ![b] = i]
        ELSE /\ heap' = [heap EXCEPT ![i].closed = TRUE, ![i].ad = CloseAd(@)]
             /\ retired' = m

(* closeArm, with retired map m: the adapter is closed here, or left to    *)
(* the worker that is in it.                                               *)
CloseArm(b, m) ==
    LET i == arms[b]
        busy == heap[i].busy
    IN  IF heap[i].closed THEN heap' = heap /\ retired' = m
        ELSE /\ heap' = [heap EXCEPT ![i].closed = TRUE,
                                     ![i].ad = IF busy THEN @ ELSE CloseAd(@)]
             /\ retired' = IF busy THEN [m EXCEPT ![b] = i] ELSE m

(* The retired arm of b, if any, is done: forget it.  Keep an arm that is  *)
(* current, close any other.                                               *)
SyncArm(b) ==
    /\ pc = "sync" /\ cur = {} /\ b \in todo
    /\ retired[b] # NoArm => ~heap[retired[b]].busy
    /\ LET m == [retired EXCEPT ![b] = NoArm] IN
          CASE arms[b] = NoArm ->
                 cur' = {b} /\ heap' = heap /\ retired' = m /\ todo' = todo
            [] arms[b] # NoArm /\ Current(heap[arms[b]], valid[b]) ->
                 cur' = cur /\ heap' = heap /\ retired' = m /\ todo' = todo \ {b}
            [] OTHER ->
                 cur' = {b} /\ CloseArm(b, m) /\ todo' = todo
    /\ UNCHANGED <<valid, arms, pc, wait, failures>>

(* mutant: busy is not read again after closeArm *)
NeverBusy(b) == FALSE

(* busy, read again after closeArm *)
StillBusy(b) == arms[b] # NoArm /\ heap[arms[b]].busy

(* The closed arm of b is replaced: by a placeholder while its worker      *)
(* runs, else by a new arm, whose adapter may be missing or fail to start. *)
SyncReplace(b) ==
    /\ pc = "sync" /\ b \in cur
    /\ IF StillBusy(b) THEN Place(b, TRUE, {"nil"})
                       ELSE Place(b, FALSE, {"nil", "open"})
    /\ cur' = {} /\ todo' = todo \ {b}
    /\ UNCHANGED <<valid, retired, pc, wait, failures>>

SyncDone ==
    /\ pc = "sync" /\ todo = {}
    /\ pc' = "drop" /\ todo' = {b \in Keys(arms) : valid[b] = NoReg}
    /\ UNCHANGED <<valid, arms, retired, heap, cur, wait, failures>>

(* The registration of b is gone: close its arm and delete it. *)
DropArm(b) ==
    /\ pc \in {"drop", "close"} /\ b \in todo
    /\ CloseArm(b, retired)
    /\ arms' = [arms EXCEPT ![b] = NoArm]
    /\ todo' = todo \ {b}
    /\ UNCHANGED <<valid, pc, cur, wait, failures>>

-----------------------------------------------------------------------------
(* Collect and collectArm. *)

DropDone ==
    /\ pc = "drop" /\ todo = {}
    /\ pc' = "collect"
    /\ wait' = [b \in Backends |-> IF arms[b] = NoArm THEN "none" ELSE "start"]
    /\ UNCHANGED <<valid, arms, retired, heap, todo, cur, failures>>

(* mutant: busy is not looked at *)
IgnoresBusy(a) == ~a.closed /\ a.ad # "nil"

(* collectArm starts a worker: the arm is neither busy nor closed, and has *)
(* an adapter.                                                             *)
MayCollect(a) == ~a.busy /\ ~a.closed /\ a.ad # "nil"

CollectArm(b) ==
    /\ pc = "collect" /\ wait[b] = "start"
    /\ LET i == arms[b] IN
          IF MayCollect(heap[i])
          THEN /\ heap' = [heap EXCEPT ![i].busy = TRUE,
                                       ![i].calls = IF @ < 2 THEN @ + 1 ELSE @]
               /\ wait' = [wait EXCEPT ![b] = "wait"]
          ELSE /\ wait' = [wait EXCEPT ![b] = "err"]
               /\ UNCHANGED heap
    /\ UNCHANGED <<valid, arms, retired, pc, todo, cur, failures>>

(* The adapter's Collect returns to its worker, in this scrape or in a     *)
(* later one.                                                              *)
WorkerReturns(i) ==
    /\ heap[i].calls > 0
    /\ heap' = [heap EXCEPT ![i].busy = FALSE, ![i].calls = @ - 1,
                            ![i].ad = IF heap[i].closed THEN CloseAd(@) ELSE @]
    /\ UNCHANGED <<valid, arms, retired, pc, todo, cur, wait, failures>>

(* mutant: the scrape waits for the worker, whatever the context says *)
WaitsForWorker(b) ==
    /\ pc = "collect" /\ wait[b] = "wait"
    /\ ~heap[arms[b]].busy
    /\ \E out \in {"ok", "err"} : wait' = [wait EXCEPT ![b] = out]
    /\ UNCHANGED <<valid, arms, retired, heap, pc, todo, cur, failures>>

(* The result, good or bad, arrives in time; or the context is done first. *)
WaitEnds(b) ==
    /\ pc = "collect" /\ wait[b] = "wait"
    /\ \/ ~heap[arms[b]].busy /\ wait' = [wait EXCEPT ![b] = "ok"]
       \/ wait' = [wait EXCEPT ![b] = "err"]
    /\ UNCHANGED <<valid, arms, retired, heap, pc, todo, cur, failures>>

(* wg.Wait returns; report counts a failed attempt in its arm. *)
Report ==
    /\ pc = "collect"
    /\ \A b \in Backends : wait[b] \in {"none", "ok", "err"}
    /\ LET failed == {b \in Backends : wait[b] = "err"} IN
          /\ heap' = [i \in ArmIds |->
                IF \E b \in failed : arms[b] = i
                THEN [heap[i] EXCEPT !.errors = OneMore(@)] ELSE heap[i]]
          /\ failures' = [b \in Backends |->
                IF b \in failed THEN OneMore(failures[b]) ELSE failures[b]]
    /\ pc' = "idle"
    /\ wait' = [b \in Backends |-> "none"]
    /\ UNCHANGED <<valid, arms, retired, todo, cur>>

(* Close, when the exporter stops. *)
BeginClose ==
    /\ pc = "idle"
    /\ pc' = "close" /\ todo' = Keys(arms)
    /\ UNCHANGED <<valid, arms, retired, heap, cur, wait, failures>>

(* Close has closed every arm and unlocks c.mu.  Late workers are left,    *)
(* and a scrape that waited for c.mu meanwhile.                            *)
CloseReturns ==
    /\ pc = "close" /\ todo = {}
    /\ pc' = "idle"
    /\ UNCHANGED <<valid, arms, retired, heap, todo, cur, wait, failures>>

-----------------------------------------------------------------------------
Scraper ==
    \/ Retire \/ SyncDone \/ DropDone \/ Report
    \/ \E b \in Backends : SyncRetired(b) \/ SyncArm(b) \/ SyncReplace(b)
                           \/ DropArm(b) \/ CollectArm(b) \/ WaitEnds(b)

Next ==
    \/ BeginScrape \/ Scraper \/ BeginClose \/ CloseReturns
    \/ \E i \in ArmIds : WorkerReturns(i)

Spec == Init /\ [][Next]_vars

(* The scraper runs, and its waits end by the timeout at the latest: a     *)
(* worker may hang for ever.                                               *)
FairSpec == Spec /\ WF_vars(Scraper)

-----------------------------------------------------------------------------
(* Every variable has its type; an arm is kept under its own backend, and  *)
(* what is in c.retired has been closed by closeArm.                       *)
TypeOK ==
    /\ valid \in [Backends -> Regs \cup {NoReg}]
    /\ arms \in [Backends -> ArmIds \cup {NoArm}]
    /\ retired \in [Backends -> ArmIds \cup {NoArm}]
    /\ heap \in [ArmIds -> Arm]
    /\ pc \in {"idle", "retire", "sync", "drop", "collect", "close"}
    /\ todo \in SUBSET Backends /\ cur \in SUBSET Backends
    /\ wait \in [Backends -> {"none", "start", "wait", "ok", "err"}]
    /\ failures \in [Backends -> 0..MaxErrors]
    /\ \A b \in Backends :
          /\ arms[b] # NoArm => heap[arms[b]].backend = b
          /\ retired[b] # NoArm => heap[retired[b]].backend = b /\ heap[retired[b]].closed

(* Only one Collect call is in flight per backend, also while a hung one   *)
(* of an earlier registration has not returned.                            *)
OneCollectInFlight ==
    /\ \A i \in ArmIds : heap[i].calls < 2
    /\ \A i, j \in ArmIds :
          heap[i].calls > 0 /\ heap[j].calls > 0
              /\ heap[i].backend = heap[j].backend => i = j

(* An adapter is closed only after its Collect has returned, once, and     *)
(* Collect is never called on a closed one.                                *)
CloseIsSafe ==
    \A i \in ArmIds : /\ heap[i].calls > 0 => heap[i].ad = "open"
                       /\ heap[i].ad # "twice"

(* No open adapter is lost: it belongs to an arm in the map, or its worker *)
(* will close it.                                                          *)
NoLeak == \A i \in ArmIds : heap[i].ad = "open" =>
              (\E b \in Backends : arms[b] = i) \/ (heap[i].calls > 0 /\ heap[i].closed)

(* What a scrape reports for a backend was read by an adapter made for the *)
(* registration that the same scrape loaded.                               *)
ReportsCurrentRun ==
    \A b \in Backends : pc = "collect" /\ wait[b] = "ok" =>
        arms[b] # NoArm /\ heap[arms[b]].reg = valid[b] /\ ~heap[arms[b]].closed

(* A scrape ends although adapters hang. *)
ScrapeEnds == pc \in {"retire", "sync", "drop", "collect"} ~> pc = "idle"

(* If scrapes keep coming and no worker hangs for ever, a registration     *)
(* that stays has, again and again, an open arm of its own when a scrape   *)
(* calls the adapters: a placeholder does not outlive the worker it stands *)
(* in for.  (The adapter may still be missing, fail or be slow.)           *)
Heals ==
    []<>(pc = "retire") /\ (\A i \in ArmIds : []<>(heap[i].calls = 0)) =>
        \A b \in Backends, r \in Regs : <>[](valid[b] = r) =>
            []<>(/\ pc = "collect" /\ arms[b] # NoArm
                 /\ heap[arms[b]].reg = r /\ ~heap[arms[b]].closed)

(* llme_exporter_scrape_errors_total counts the failed attempts since the  *)
(* registration of the arm appeared.  It is stated of an exporter that     *)
(* serves: Close drops the arms and their counters.                        *)
ErrorsCounted ==
    pc = "idle" => \A b \in Keys(arms) : heap[arms[b]].errors = failures[b]
=============================================================================
