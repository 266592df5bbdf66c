----------------------------- MODULE RemoteWrite -----------------------------
(***************************************************************************)
(* The durable remote-write queue: internal/remotewrite/sender.go and      *)
(* encode.go.                                                              *)
(*                                                                         *)
(* The process that owns a queue directory (flock) has two threads: the    *)
(* collection loop of Run, which gathers a snapshot, stamps it, turns      *)
(* vanished series into stale markers and writes a queue file per          *)
(* snapshot, and the delivery loop, which posts the oldest file and then   *)
(* removes it.  They share the mutex mu and the directory.  On shutdown    *)
(* Run joins the delivery loop, enqueues an empty snapshot and calls       *)
(* sendOne once more itself.                                               *)
(*                                                                         *)
(* A snapshot is the set of series that have a value in it, and weighs one *)
(* byte per series and marker.  A directory operation is visible at once   *)
(* (dir) but survives a power loss only after a directory sync: images     *)
(* holds every directory a power loss may leave.  No reader looks at a     *)
(* .pending- file, so writing one belongs to the step before its rename.   *)
(* The backoff, the ticker and the wake channel only decide how long a     *)
(* thread sleeps: a sleeping thread may go on at any time.                 *)
(***************************************************************************)
EXTENDS Integers, Sequences, FiniteSets

CONSTANTS
    Series,         \* the time series a snapshot may hold
    Destinations,   \* (URL, host) pairs the process may be started with
    MaxTs,          \* bound: the collection loop stamps at most MaxTs
    MaxBatch,       \* maxBatch, the largest snapshot that is queued
    MaxBytes,       \* Options.MaxBytes, the cap of the queue
    Faults          \* which storage operations may fail:

(* "write", "read", "remove": a queue file is not written, read, removed.  *)
(* "sync", "rmsync": the directory sync after the rename, the removal of   *)
(* one fails.  "state": the checkpoint is not renamed or not synced.       *)
(* "torn": a crash falls between a queue file and its checkpoint.          *)
HarmlessFaults == {"write", "read", "remove"}
AllFaults == HarmlessFaults \cup {"sync", "rmsync", "state", "torn"}

ASSUME SeriesAssumption == IsFiniteSet(Series)
ASSUME BoundsAssumption == /\ MaxTs \in Nat /\ MaxBatch \in Nat
                           /\ MaxBytes \in Nat /\ MaxBytes >= MaxBatch
ASSUME FaultsAssumption == Faults \subseteq AllFaults

VARIABLES
    dir,     \* the queue directory as every process sees it
    images,  \* the directories a power loss may leave
    run,     \* the thread of New and Run: its pc, the destination it was
             \* started with, ctx, and the request it is building
    mem,     \* Sender.files, QueuedBytes, previous and timestamp
    snd,     \* the callers of sendOne: pc, name and body of each
    recv,    \* the receiver: the newest batch it took, the series whose
             \* last sample is a value, requests still under way to it
    posted,  \* observer: the last batch any process posted
    ghosts   \* observer: series whose marker was in a batch given up

vars == <<dir, images, run, mem, snd, recv, posted, ghosts>>

-----------------------------------------------------------------------------
NoDest == "none"
ASSUME DestinationsAssumption == NoDest \notin Destinations

Senders == {"deliver", "flush"}

Batch == [ts : Nat, active : SUBSET Series, stale : SUBSET Series,
          to : Destinations]
NoBatch == [ts |-> 0, active |-> {}, stale |-> {}, to |-> NoDest]

Covers(b) == b.active \cup b.stale
Size(b) == Cardinality(Covers(b))
TotalSize(bs) == Cardinality({p \in bs \X Series : p[2] \in Covers(p[1])})

(* mutant: a series that is new is marked *)
MarkNew(cur, prev) == cur \ prev

(* withStale: a marker for each series that has vanished. *)
Vanished(cur, prev) == prev \ cur

(* rename(2) of a finished temporary file onto a queue file, the           *)
(* checkpoint, the manifest; unlink(2) of a queue file.                    *)
AddFile(d, b)  == [d EXCEPT !.rw = {c \in d.rw : c.ts # b.ts} \cup {b}]
SetState(d, b) == [d EXCEPT !.state = b]
SetOwner(d, o) == [d EXCEPT !.owner = o]
DropFile(d, n) == [d EXCEPT !.rw = {c \in d.rw : c.ts # n}]

Names(bs) == {b.ts : b \in bs}
Increasing(q) == \A i, j \in DOMAIN q : i < j => q[i] < q[j]

(* restore: the names of the queue files, sorted (the one such sequence). *)
SortedNames(bs) ==
    {q \in [1..Cardinality(bs) -> Names(bs)] :
        Increasing(q) /\ {q[i] : i \in DOMAIN q} = Names(bs)}

(* restore: the newer of the checkpoint and the newest queue file, the     *)
(* file where their timestamps are equal.                                  *)
Restored(d) ==
    LET newest == {b \in d.rw : \A c \in d.rw : c.ts <= b.ts}
    IN  IF \E b \in newest : b.ts >= d.state.ts THEN newest ELSE {d.state}

(* mu is held from enqueue's first to its last directory operation, and    *)
(* from sendOne's removal to its directory sync.                           *)
MuFree ==
    /\ run.pc \notin {"rename", "sync", "staterename", "statesync"}
    /\ \A s \in Senders : snd[s].pc # "rmsync"

Running == run.pc \notin {"off", "bind", "bindsync", "restore"}

(* What a process that is not running holds. *)
NoRun == [pc |-> "off", dest |-> NoDest, cancelled |-> FALSE,
          closing |-> FALSE, batch |-> NoBatch]
NoMem == [files |-> <<>>, bytes |-> 0, previous |-> {}, timestamp |-> 0]
NoSend == [pc |-> "off", name |-> 0, body |-> NoBatch]

Init ==
    /\ dir = [rw |-> {}, state |-> NoBatch, owner |-> NoDest]
    /\ images = {dir}
    /\ run = NoRun /\ mem = NoMem /\ snd = [s \in Senders |-> NoSend]
    /\ recv = [last |-> NoBatch, active |-> {}, late |-> {}]
    /\ posted = NoBatch /\ ghosts = {}

-----------------------------------------------------------------------------
(* New and restore: bind the directory to the destination, then read it.   *)

RunGoto(pc) == run' = [run EXCEPT !.pc = pc]

(* mutant: the manifest is not compared *)
AnyOwner(d) == TRUE

(* restore: the manifest is absent or names this destination. *)
MayOwn(d) == dir.owner \in {NoDest, d}

Start(d) ==
    /\ run.pc = "off"
    /\ MayOwn(d)
    /\ run' = [NoRun EXCEPT !.dest = d,
                  !.pc = IF dir.owner = NoDest THEN "bind" ELSE "restore"]
    /\ UNCHANGED <<dir, images, mem, snd, recv, posted, ghosts>>

(* atomicWrite of the manifest: the rename, then the directory sync. *)
RenameManifest ==
    /\ run.pc = "bind"
    /\ dir' = SetOwner(dir, run.dest)
    /\ images' = images \cup {SetOwner(i, run.dest) : i \in images}
    /\ RunGoto("bindsync")
    /\ UNCHANGED <<mem, snd, recv, posted, ghosts>>

SyncManifest ==
    /\ run.pc = "bindsync"
    /\ images' = {dir}
    /\ RunGoto("restore")
    /\ UNCHANGED <<dir, mem, snd, recv, posted, ghosts>>

(* The directory is read and Run starts its two loops. *)
Restore ==
    /\ run.pc = "restore"
    /\ TotalSize(dir.rw) <= MaxBytes
    /\ \E q \in SortedNames(dir.rw), b \in Restored(dir) :
          mem' = [files |-> q, bytes |-> TotalSize(dir.rw),
                  previous |-> b.active, timestamp |-> b.ts]
    /\ RunGoto("loop")
    /\ snd' = [snd EXCEPT !["deliver"].pc = "loop"]
    /\ UNCHANGED <<dir, images, recv, posted, ghosts>>

(* The queue is over the cap: New fails and the process exits. *)
RestoreRefused ==
    /\ run.pc = "restore"
    /\ TotalSize(dir.rw) > MaxBytes
    /\ run' = NoRun
    /\ UNCHANGED <<dir, images, mem, snd, recv, posted, ghosts>>

-----------------------------------------------------------------------------
(* Run: collect, enqueue, and the shutdown sequence.                       *)

(* The loop condition; the select between the ticker and ctx. *)
RunLoop ==
    /\ \/ run.pc = "loop" /\ RunGoto(IF run.cancelled THEN "join" ELSE "collect")
       \/ run.pc = "tick" /\ RunGoto("loop")
       \/ run.pc = "tick" /\ run.cancelled /\ RunGoto("join")
    /\ UNCHANGED <<dir, images, mem, snd, recv, posted, ghosts>>

(* collect: Gather and encodeFamilies yield any set of series, or fail.    *)
(* The guard on timestamp bounds the model.                                *)
Gather ==
    /\ run.pc = "collect"
    /\ \/ RunGoto("tick")
       \/ /\ mem.timestamp < MaxTs
          /\ \E cur \in SUBSET Series :
                run' = [run EXCEPT !.pc = "stamp", !.batch.active = cur]
    /\ UNCHANGED <<dir, images, mem, snd, recv, posted, ghosts>>

(* mutant: the wall clock is trusted *)
WallClock(now) == now

(* mutant: a duration is taken for an instant *)
Elapsed(now) == now - mem.timestamp

NextTimestamp(now) ==
    IF now >= mem.timestamp + 1 THEN now ELSE mem.timestamp + 1

(* The wall clock may stand anywhere, before timestamp too. *)
Stamp ==
    /\ run.pc = "stamp"
    /\ MuFree
    /\ \E now \in 1..MaxTs :
          run' = [run EXCEPT !.pc = "enqueue", !.batch.ts = NextTimestamp(now)]
    /\ UNCHANGED <<dir, images, mem, snd, recv, posted, ghosts>>

(* mutant: the batch in hand is not counted *)
QueueNotFull(b) == Size(b) <= MaxBatch /\ mem.bytes <= MaxBytes

(* enqueue: the snapshot, and the queue with it, stay below their caps. *)
Fits(b) == Size(b) <= MaxBatch /\ mem.bytes + Size(b) <= MaxBytes

(* enqueue returns: to collect's caller, or to the shutdown sequence. *)
EnqueueReturns ==
    run' = [run EXCEPT !.pc = IF run.closing THEN "flush" ELSE "tick",
                       !.batch = NoBatch]

(* enqueue skips a request that is empty, drops one that does not fit, and *)
(* writes any other.                                                       *)
Enqueue ==
    /\ run.pc = "enqueue"
    /\ MuFree
    /\ LET b == [run.batch EXCEPT !.to = run.dest, !.stale =
                    Vanished(run.batch.active, mem.previous)]
       IN  IF Covers(b) # {} /\ Fits(b)
           THEN run' = [run EXCEPT !.pc = "rename", !.batch = b]
           ELSE EnqueueReturns
    /\ UNCHANGED <<dir, images, mem, snd, recv, posted, ghosts>>

RenameQueueFile ==
    /\ run.pc = "rename"
    /\ dir' = AddFile(dir, run.batch)
    /\ images' = images \cup {AddFile(i, run.batch) : i \in images}
    /\ RunGoto("sync")
    /\ UNCHANGED <<mem, snd, recv, posted, ghosts>>

(* The queue file is durable: the snapshot is accepted. *)
SyncQueueFile ==
    /\ run.pc = "sync"
    /\ images' = {dir}
    /\ mem' = [files |-> Append(mem.files, run.batch.ts),
               bytes |-> mem.bytes + Size(run.batch),
               previous |-> run.batch.active, timestamp |-> run.batch.ts]
    /\ RunGoto("staterename")
    /\ UNCHANGED <<dir, snd, recv, posted, ghosts>>

RenameState ==
    /\ run.pc = "staterename"
    /\ dir' = SetState(dir, run.batch)
    /\ images' = images \cup {SetState(i, run.batch) : i \in images}
    /\ RunGoto("statesync")
    /\ UNCHANGED <<mem, snd, recv, posted, ghosts>>

SyncState ==
    /\ run.pc = "statesync"
    /\ images' = {dir}
    /\ EnqueueReturns
    /\ UNCHANGED <<dir, mem, snd, recv, posted, ghosts>>

(* atomicWrite fails before the rename or at the directory sync after it.  *)
(* Nothing is undone: what was renamed stays in the directory.             *)
EnqueueFails ==
    /\ \/ run.pc = "rename" /\ "write" \in Faults
       \/ run.pc = "sync" /\ "sync" \in Faults
       \/ run.pc \in {"staterename", "statesync"} /\ "state" \in Faults
    /\ EnqueueReturns
    /\ UNCHANGED <<dir, images, mem, snd, recv, posted, ghosts>>

(* mutant: Run does not wait for the delivery loop *)
JoinAtOnce == TRUE

(* <-done *)
DeliverDone == snd["deliver"].pc = "off"

(* The delivery loop has returned: enqueue(nil). *)
Join ==
    /\ run.pc = "join"
    /\ DeliverDone
    /\ run' = [run EXCEPT !.pc = "stamp", !.closing = TRUE]
    /\ UNCHANGED <<dir, images, mem, snd, recv, posted, ghosts>>

(* The one bounded delivery attempt of the shutdown. *)
Flush ==
    /\ run.pc = "flush"
    /\ RunGoto("flushing")
    /\ snd' = [snd EXCEPT !["flush"].pc = "head"]
    /\ UNCHANGED <<dir, images, mem, recv, posted, ghosts>>

ProcessEnds == run' = NoRun /\ mem' = NoMem /\ snd' = [s \in Senders |-> NoSend]

Exit ==
    /\ run.pc = "flushing"
    /\ snd["flush"].pc = "off"
    /\ ProcessEnds
    /\ UNCHANGED <<dir, images, recv, posted, ghosts>>

-----------------------------------------------------------------------------
(* sendOne, called by deliver and by the shutdown sequence ("flush"), and  *)
(* the loop of deliver around it.                                          *)

SendGoto(s, pc) == snd' = [snd EXCEPT ![s].pc = pc]

(* mutant: deliver ends when sendOne fails or finds nothing *)
EndsAsleep(s, pc) ==
    snd' = [snd EXCEPT ![s] =
               [NoSend EXCEPT !.pc = IF pc = "loop" /\ s = "deliver"
                                     THEN pc ELSE "off"]]

(* sendOne returns: the flush is over, deliver goes on at pc. *)
SendReturns(s, pc) ==
    snd' = [snd EXCEPT ![s] =
               [NoSend EXCEPT !.pc = IF s = "flush" THEN "off" ELSE pc]]

(* mutant: deliver never looks at ctx *)
CtxIgnored == FALSE

CtxDone == run.cancelled

(* deliver: the loop condition, and the select of the timer and ctx. *)
Deliver ==
    /\ \/ /\ snd["deliver"].pc = "loop"
          /\ SendGoto("deliver", IF CtxDone THEN "off" ELSE "head")
       \/ snd["deliver"].pc = "sleep" /\ SendGoto("deliver", "loop")
       \/ /\ snd["deliver"].pc = "sleep" /\ CtxDone
          /\ SendGoto("deliver", "off")
    /\ UNCHANGED <<dir, images, run, mem, recv, posted, ghosts>>

SendPick(s) ==
    /\ snd[s].pc = "head"
    /\ MuFree
    /\ IF mem.files = <<>> THEN SendReturns(s, "sleep")
       ELSE snd' = [snd EXCEPT ![s].pc = "read", ![s].name = Head(mem.files)]
    /\ UNCHANGED <<dir, images, run, mem, recv, posted, ghosts>>

(* ReadFile, without mu.  Nothing bounds how long a batch has waited, so   *)
(* any may be past MaxAge: then it is given up.                            *)
SendRead(s) ==
    /\ snd[s].pc = "read"
    /\ \E b \in dir.rw, pc \in {"token", "giveup"} :
          /\ b.ts = snd[s].name
          /\ snd' = [snd EXCEPT ![s].pc = pc, ![s].body = b]
    /\ UNCHANGED <<dir, images, run, mem, recv, posted, ghosts>>

(* The request is built, its token read, and put on the wire. *)
SendPost(s) ==
    /\ snd[s].pc = "token"
    /\ posted' = snd[s].body
    /\ SendGoto(s, "post")
    /\ UNCHANGED <<dir, images, run, mem, recv, ghosts>>

(* A request given up by its client may reach the receiver later. *)
MayArriveLate(bs) ==
    recv' \in {recv, [recv EXCEPT !.late = @ \cup {b \in bs : b.ts > recv.last.ts}]}

(* The file or the token cannot be read, the transport fails or times out, *)
(* or the answer is 5xx or 429.                                            *)
SendFails(s) ==
    /\ \/ /\ snd[s].pc = "read"
          /\ "read" \in Faults \/ snd[s].name \notin Names(dir.rw)
          /\ UNCHANGED recv
       \/ snd[s].pc \in {"token", "taken"} /\ UNCHANGED recv
       \/ snd[s].pc = "post" /\ MayArriveLate({snd[s].body})
    /\ SendReturns(s, "sleep")
    /\ UNCHANGED <<dir, images, run, mem, posted, ghosts>>

(* A 2xx answer; any other that is not retryable gives the batch up. *)
SendAnswered(s) ==
    /\ \/ snd[s].pc = "taken" /\ SendGoto(s, "remove")
       \/ snd[s].pc = "post" /\ SendGoto(s, "giveup")
    /\ UNCHANGED <<dir, images, run, mem, recv, posted, ghosts>>

(* Under mu the file is removed and the head of files popped. *)
SendRemove(s) ==
    /\ snd[s].pc \in {"remove", "giveup"}
    /\ MuFree
    /\ snd[s].name \in Names(dir.rw)
    /\ dir' = DropFile(dir, snd[s].name)
    /\ images' = images \cup {DropFile(i, snd[s].name) : i \in images}
    /\ mem' = [mem EXCEPT !.files = Tail(@), !.bytes = @ - Size(snd[s].body)]
    /\ ghosts' = IF snd[s].pc = "giveup" THEN ghosts \cup snd[s].body.stale
                                         ELSE ghosts
    /\ SendGoto(s, "rmsync")
    /\ UNCHANGED <<run, recv, posted>>

SendRemoveFails(s) ==
    /\ snd[s].pc \in {"remove", "giveup"}
    /\ MuFree
    /\ "remove" \in Faults \/ snd[s].name \notin Names(dir.rw)
    /\ SendReturns(s, "sleep")
    /\ UNCHANGED <<dir, images, run, mem, recv, posted, ghosts>>

(* The directory sync, which may fail; mu is unlocked. *)
SendSync(s) ==
    /\ snd[s].pc = "rmsync"
    /\ \/ images' = {dir} /\ SendReturns(s, "loop")
       \/ "rmsync" \in Faults /\ UNCHANGED images /\ SendReturns(s, "sleep")
    /\ UNCHANGED <<dir, run, mem, recv, posted, ghosts>>

-----------------------------------------------------------------------------
(* The environment: the receiver, the signal, crashes.                     *)

(* The receiver refuses, as Prometheus does, samples older than its newest. *)
Takes(b) ==
    IF b.ts < recv.last.ts THEN UNCHANGED recv
    ELSE recv' = [last |-> b, active |-> (recv.active \ b.stale) \cup b.active,
                  late |-> {c \in recv.late : c.ts > b.ts}]

(* It takes a request, whose answer may get lost. *)
ReceiverTakes(s) ==
    /\ snd[s].pc = "post"
    /\ Takes(snd[s].body)
    /\ ghosts' = IF snd[s].body.ts < recv.last.ts THEN ghosts
                 ELSE ghosts \ Covers(snd[s].body)
    /\ SendGoto(s, "taken")
    /\ UNCHANGED <<dir, images, run, mem, posted>>

ReceiverTakesLate ==
    /\ \E b \in recv.late : Takes(b)
    /\ UNCHANGED <<dir, images, run, mem, snd, posted, ghosts>>

(* SIGINT or SIGTERM, or the HTTP server fails. *)
Cancel ==
    /\ Running /\ ~run.cancelled
    /\ run' = [run EXCEPT !.cancelled = TRUE]
    /\ UNCHANGED <<dir, images, mem, snd, recv, posted, ghosts>>

OnTheWire == {snd[s].body : s \in {r \in Senders : snd[r].pc = "post"}}

Checkpointed(d) == \A b \in d.rw : b.ts <= d.state.ts

(* A power loss, or a kill whose directory is written back before the next *)
(* start.                                                                  *)
Crash ==
    /\ dir' \in images /\ images' = {dir'}
    /\ Checkpointed(dir') \/ "torn" \in Faults
    /\ ProcessEnds
    /\ MayArriveLate(OnTheWire)
    /\ UNCHANGED <<posted, ghosts>>

-----------------------------------------------------------------------------
Boot == (\E d \in Destinations : Start(d)) \/ RenameManifest \/ SyncManifest
        \/ Restore \/ RestoreRefused

Collection == RunLoop \/ Gather \/ Stamp \/ Enqueue \/ RenameQueueFile
              \/ SyncQueueFile \/ RenameState \/ SyncState \/ EnqueueFails
              \/ Join \/ Flush \/ Exit

SendOne(s) == SendPick(s) \/ SendRead(s) \/ SendPost(s) \/ SendFails(s)
              \/ SendAnswered(s) \/ SendRemove(s) \/ SendRemoveFails(s)
              \/ SendSync(s)

Environment == (\E s \in Senders : ReceiverTakes(s)) \/ ReceiverTakesLate
               \/ Cancel \/ Crash

Next == Boot \/ Collection \/ Deliver \/ (\E s \in Senders : SendOne(s))
        \/ Environment

Spec == Init /\ [][Next]_vars

(* Each thread keeps running: Gather returns and the HTTP client times out *)
(* (both are bounded by timeouts).  Nothing is assumed of the receiver.    *)
FairSpec == Spec /\ WF_vars(Collection) /\ WF_vars(Deliver)
                 /\ \A s \in Senders : WF_vars(SendOne(s))

(* A batch that is tried again and again is read, posted (the token file   *)
(* is readable), taken, acknowledged and removed one day.                  *)
ReceiverIsUp == LET s == "deliver" IN
    /\ SF_vars(SendRead(s)) /\ SF_vars(SendPost(s)) /\ SF_vars(ReceiverTakes(s))
    /\ SF_vars(SendAnswered(s)) /\ SF_vars(SendRemove(s))

-----------------------------------------------------------------------------
(* Properties.                                                             *)

Directory == [rw : SUBSET Batch, state : Batch \cup {NoBatch},
              owner : Destinations \cup {NoDest}]
Draft == [ts : Nat, active : SUBSET Series, stale : SUBSET Series,
          to : Destinations \cup {NoDest}]
RunPC == {"off", "bind", "bindsync", "restore", "loop", "collect", "tick",
          "stamp", "enqueue", "rename", "sync", "staterename", "statesync",
          "join", "flush", "flushing"}
RunState == [pc : RunPC, dest : Destinations \cup {NoDest},
             cancelled : BOOLEAN, closing : BOOLEAN, batch : Draft]
Memory == [files : Seq(Nat), bytes : Int, previous : SUBSET Series,
           timestamp : Nat]
SendPC == {"off", "loop", "head", "read", "token", "post", "taken", "remove",
           "giveup", "rmsync", "sleep"}
SendState == [pc : SendPC, name : Nat, body : Batch \cup {NoBatch}]
Receiver == [last : Batch \cup {NoBatch}, active : SUBSET Series,
             late : SUBSET Batch]

(* Every variable has the type its Go counterpart has. *)
TypeOK ==
    /\ dir \in Directory /\ images \in SUBSET Directory
    /\ run \in RunState /\ mem \in Memory /\ snd \in [Senders -> SendState]
    /\ recv \in Receiver /\ posted \in Batch \cup {NoBatch}
    /\ ghosts \in SUBSET Series

(* Whenever mu is free, Sender.files, QueuedBytes, previous and timestamp  *)
(* are what restore would read from the directory: a crash between two     *)
(* operations loses nothing the process remembered.                        *)
MemoryMatchesDisk ==
    Running /\ MuFree =>
        /\ mem.files \in SortedNames(dir.rw)
        /\ mem.bytes = TotalSize(dir.rw)
        /\ \E b \in Restored(dir) : /\ mem.previous = b.active
                                    /\ mem.timestamp = b.ts

(* From the moment sendOne picks a file until it removes it, the file is   *)
(* the head of files: files[1:] pops what was sent, and never an empty     *)
(* slice, although mu is not held in between.                              *)
HeadIsSent ==
    \A s \in Senders :
        snd[s].pc \in {"read", "token", "post", "taken", "remove", "giveup"} =>
            mem.files # <<>> /\ Head(mem.files) = snd[s].name

(* A process that starts on directory d will send a value or a stale       *)
(* marker for series x in its next batch.                                  *)
StillCovers(d, x) ==
    IF d.rw = {} THEN x \in d.state.active
    ELSE \E b \in d.rw : x \in Covers(b) /\ \A c \in d.rw : b.ts <= c.ts

(* A series the receiver shows is never forgotten: whatever directory a    *)
(* power loss leaves at this point, the next batch a restarted process     *)
(* sends either updates the series or marks it stale.  Excepted are series *)
(* whose marker was in a batch that expired or was rejected.               *)
NoSilentGhost ==
    \A i \in images : \A x \in recv.active : x \in ghosts \/ StillCovers(i, x)

(* The cap holds for every directory a power loss may leave, so restore    *)
(* never refuses a queue this program wrote under the same cap.            *)
CapHoldsOnDisk == \A i \in images : TotalSize(i.rw) <= MaxBytes

(* Batches are posted in the order of their timestamps across retries,     *)
(* crashes and restarts: one is only ever followed by itself, byte for     *)
(* byte, or by a newer one.                                                *)
FIFO == [][posted' # posted => posted'.ts > posted.ts]_posted

(* The directory as a DurableQueue. *)
Q == INSTANCE DurableQueue WITH
        Batches <- Batch, Nothing <- NoBatch,
        queue <- dir.rw, survivors <- {i.rw : i \in images}, out <- posted

(* The sender is a durable FIFO queue: whatever the two threads, the       *)
(* shutdown, crashes and failing writes do, only the oldest file is posted *)
(* or removed, it is posted only once no power loss can take it away, new  *)
(* files come behind all others, and a power loss undoes at most one       *)
(* change, at one end.                                                     *)
IsDurableQueue == Q!Spec

(* A batch is only posted to the destination it was collected for. *)
RightReceiver ==
    \A s \in Senders : snd[s].pc \in {"post", "taken"} => snd[s].body.to = run.dest

(* Shutdown never waits indefinitely for a receiver, whatever fails. *)
ShutdownEnds == run.cancelled ~> run.pc = "off"

(* The oldest batch does not stay at the head of the queue for ever if the *)
(* storage and the receiver work again and again.                          *)
AtHead(t) == mem.files # <<>> /\ Head(mem.files) = t
HeadLeaves == ReceiverIsUp => \A t \in 1..(MaxTs + 1) : AtHead(t) ~> ~AtHead(t)
=============================================================================
