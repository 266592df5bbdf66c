-------------------------- MODULE RemoteWriteProofs --------------------------
(***************************************************************************)
(* Theorems about RemoteWrite, for every set of series and destinations,   *)
(* every bound and every set of faults.                                    *)
(***************************************************************************)
EXTENDS RemoteWrite, FiniteSetTheorems, TLAPS

(* What types alone do not say: directories hold finitely many files, a    *)
(* started process has a destination, and what enqueue writes and sendOne  *)
(* sends are whole batches.                                                *)
Finite == \A i \in images \cup {dir} : IsFiniteSet(i.rw)
Started == run.pc # "off" => run.dest \in Destinations
WholeBatch ==
    run.pc \in {"rename", "sync", "staterename", "statesync"} => run.batch \in Batch
WholeBody ==
    \A s \in Senders :
        snd[s].pc \in {"token", "post", "taken", "remove", "giveup", "rmsync"}
            => snd[s].body \in Batch
TypeInv == TypeOK /\ Finite /\ Started /\ WholeBatch /\ WholeBody /\ dir \in images

(* The size of a batch is a natural number: it carries finitely many       *)
(* series.                                                                 *)
LEMMA SizeType ==
    ASSUME NEW b \in Draft PROVE Size(b) \in Nat
<1>1. Covers(b) \subseteq Series
  BY DEF Covers, Draft
<1>2. IsFiniteSet(Covers(b))
  BY <1>1, SeriesAssumption, FS_Subset
<1> QED BY <1>2, FS_CardinalityType DEF Size

(* So is the size of a finite queue. *)
LEMMA TotalSizeType ==
    ASSUME NEW bs, IsFiniteSet(bs) PROVE TotalSize(bs) \in Nat
<1>1. IsFiniteSet(bs \X Series)
  BY SeriesAssumption, FS_Product
<1>2. IsFiniteSet({p \in bs \X Series : p[2] \in Covers(p[1])})
  BY <1>1, FS_Subset
<1> QED BY <1>2, FS_CardinalityType DEF TotalSize

(* Directory operations keep a directory a directory with finitely many    *)
(* files.                                                                  *)
LEMMA DirectoryOps ==
    ASSUME NEW d \in Directory, IsFiniteSet(d.rw)
    PROVE  /\ \A b \in Batch : /\ AddFile(d, b) \in Directory
                               /\ IsFiniteSet(AddFile(d, b).rw)
                               /\ SetState(d, b) \in Directory
                               /\ IsFiniteSet(SetState(d, b).rw)
           /\ \A o \in Destinations : /\ SetOwner(d, o) \in Directory
                                      /\ IsFiniteSet(SetOwner(d, o).rw)
           /\ \A n \in Nat : /\ DropFile(d, n) \in Directory
                             /\ IsFiniteSet(DropFile(d, n).rw)
<1>1. ASSUME NEW b \in Batch
      PROVE  /\ AddFile(d, b) \in Directory /\ IsFiniteSet(AddFile(d, b).rw)
             /\ SetState(d, b) \in Directory /\ IsFiniteSet(SetState(d, b).rw)
  <2>1. IsFiniteSet({c \in d.rw : c.ts # b.ts})
    BY FS_Subset
  <2>2. IsFiniteSet({c \in d.rw : c.ts # b.ts} \cup {b})
    BY <2>1, FS_AddElement
  <2> QED BY <2>2 DEF AddFile, SetState, Directory
<1>2. ASSUME NEW o \in Destinations
      PROVE  SetOwner(d, o) \in Directory /\ IsFiniteSet(SetOwner(d, o).rw)
  BY DEF SetOwner, Directory
<1>3. ASSUME NEW n \in Nat
      PROVE  DropFile(d, n) \in Directory /\ IsFiniteSet(DropFile(d, n).rw)
  <2>1. IsFiniteSet({c \in d.rw : c.ts # n})
    BY FS_Subset
  <2> QED BY <2>1 DEF DropFile, Directory
<1> QED BY <1>1, <1>2, <1>3

LEMMA BatchKinds ==
    /\ Batch \subseteq Draft /\ NoBatch \in Draft
    /\ NoRun.batch = NoBatch /\ NoSend.body = NoBatch
BY DEF Batch, Draft, NoBatch, NoRun, NoSend

(* Init establishes the typing invariant. *)
LEMMA TypeInit == Init => TypeInv
<1> SUFFICES ASSUME Init PROVE TypeInv
  OBVIOUS
<1>1. IsFiniteSet({})
  BY FS_EmptySet
<1> QED BY <1>1 DEF Init, TypeInv, TypeOK, Finite, Started, WholeBatch, WholeBody,
        Directory, NoRun, NoMem, NoSend, NoBatch, Draft, Senders,
        RunState, RunPC, Memory, SendState, SendPC, Receiver

(* What moving a sender's or Run's program counter leaves alone. *)
LEMMA GotoTypes ==
    ASSUME TypeOK
    PROVE  /\ \A s \in Senders, pc \in SendPC : SendGoto(s, pc) =>
                 /\ snd' \in [Senders -> SendState]
                 /\ snd'[s].pc = pc /\ snd'[s].body = snd[s].body
                 /\ \A r \in Senders \ {s} : snd'[r] = snd[r]
           /\ \A s \in Senders, pc \in SendPC : SendReturns(s, pc) =>
                 /\ snd' \in [Senders -> SendState]
                 /\ snd'[s].pc \in {"off", pc}
                 /\ \A r \in Senders \ {s} : snd'[r] = snd[r]
           /\ \A pc \in RunPC : RunGoto(pc) =>
                 /\ run' \in RunState
                 /\ run'.pc = pc /\ run'.dest = run.dest
                 /\ run'.batch = run.batch
<1>1. ASSUME NEW s \in Senders, NEW pc \in SendPC, SendGoto(s, pc)
      PROVE  /\ snd' \in [Senders -> SendState]
             /\ snd'[s].pc = pc /\ snd'[s].body = snd[s].body
             /\ \A r \in Senders \ {s} : snd'[r] = snd[r]
  BY <1>1 DEF TypeOK, SendGoto, SendState
<1>2. ASSUME NEW s \in Senders, NEW pc \in SendPC, SendReturns(s, pc)
      PROVE  /\ snd' \in [Senders -> SendState]
             /\ snd'[s].pc \in {"off", pc}
             /\ \A r \in Senders \ {s} : snd'[r] = snd[r]
  BY <1>2 DEF TypeOK, SendReturns, SendState, NoSend, SendPC
<1>3. ASSUME NEW pc \in RunPC, RunGoto(pc)
      PROVE  /\ run' \in RunState
             /\ run'.pc = pc /\ run'.dest = run.dest /\ run'.batch = run.batch
  BY <1>3 DEF TypeOK, RunGoto, RunState
<1> QED BY <1>1, <1>2, <1>3

(* Every step keeps it, whatever the faults. *)
LEMMA TypeStep == TypeInv /\ HeadIsSent /\ [Next]_vars => TypeInv'
<1> SUFFICES ASSUME TypeInv, HeadIsSent, [Next]_vars PROVE TypeInv'
  OBVIOUS
<1> USE DEF TypeInv, TypeOK, Finite, Started, WholeBatch, WholeBody
<1>1. ASSUME NEW d \in Destinations, Start(d) PROVE TypeInv'
  BY <1>1, BatchKinds DEF Start, NoRun, RunState, RunPC
<1>2. CASE RenameManifest
  <2>1. run.dest \in Destinations
    BY <1>2 DEF RenameManifest
  <2>2. \A i \in images : SetOwner(i, run.dest) \in Directory /\ IsFiniteSet(SetOwner(i, run.dest).rw)
    BY <2>1, DirectoryOps
  <2>3. RunGoto("bindsync") /\ UNCHANGED <<mem, snd, recv, posted, ghosts>>
    BY <1>2 DEF RenameManifest
  <2>4. /\ run' \in RunState /\ run'.pc = "bindsync" /\ run'.dest = run.dest
        /\ run'.batch = run.batch
    BY <2>3, GotoTypes DEF RunPC
  <2>5. /\ dir' \in images' /\ images' \subseteq Directory
        /\ \A i \in images' : IsFiniteSet(i.rw)
    BY <1>2, <2>2 DEF RenameManifest
  <2> QED BY <2>1, <2>3, <2>4, <2>5
<1>3. CASE SyncManifest
  BY <1>3, GotoTypes DEF SyncManifest, RunPC
<1>4. CASE Restore
  <2>1. IsFiniteSet(dir.rw) /\ TotalSize(dir.rw) \in Nat
    BY TotalSizeType
  <2>2. PICK q \in SortedNames(dir.rw), b \in Restored(dir) :
          mem' = [files |-> q, bytes |-> TotalSize(dir.rw),
                  previous |-> b.active, timestamp |-> b.ts]
    BY <1>4 DEF Restore
  <2>3. b \in Batch \cup {NoBatch}
    BY <2>2 DEF Restored, Directory
  <2>4. Names(dir.rw) \subseteq Nat
    BY DEF Names, Directory, Batch
  <2>5. Cardinality(dir.rw) \in Nat
    BY <2>1, FS_CardinalityType
  <2>6. q \in Seq(Nat)
    BY <2>2, <2>4, <2>5 DEF SortedNames
  <2>7. b.active \in SUBSET Series /\ b.ts \in Nat
    BY <2>3 DEF Batch, NoBatch
  <2>8. mem' \in Memory
    BY <2>1, <2>2, <2>6, <2>7 DEF Memory
  <2>9. run' \in RunState /\ run'.pc = "loop" /\ run'.dest = run.dest
    BY <1>4, GotoTypes DEF Restore, RunPC
  <2>10. SendGoto("deliver", "loop")
    BY <1>4 DEF Restore, SendGoto
  <2>11. snd' \in [Senders -> SendState] /\ WholeBody'
    BY <2>10, GotoTypes DEF Senders, SendPC
  <2> QED BY <1>4, <2>8, <2>9, <2>11 DEF Restore
<1>5. CASE RestoreRefused
  BY <1>5, BatchKinds DEF RestoreRefused, NoRun, RunState, RunPC
<1>6. CASE RunLoop
  BY <1>6, GotoTypes DEF RunLoop, RunPC
<1>7. CASE Gather
  <2>1. CASE RunGoto("tick")
    BY <1>7, <2>1, GotoTypes DEF Gather, RunPC
  <2>2. ASSUME NEW cur \in SUBSET Series,
               run' = [run EXCEPT !.pc = "stamp", !.batch.active = cur]
        PROVE  TypeInv'
    <3>1. [run.batch EXCEPT !.active = cur] \in Draft
      BY DEF RunState, Draft
    <3>2. run' \in RunState /\ run'.pc = "stamp" /\ run'.dest = run.dest
      BY <2>2, <3>1 DEF RunState, RunPC
    <3> QED BY <1>7, <3>2 DEF Gather
  <2> QED BY <1>7, <2>1, <2>2 DEF Gather
<1>8. CASE Stamp
  <2>1. PICK now \in 1..MaxTs :
          run' = [run EXCEPT !.pc = "enqueue", !.batch.ts = NextTimestamp(now)]
    BY <1>8 DEF Stamp
  <2>2. NextTimestamp(now) \in Nat
    BY <2>1, BoundsAssumption DEF NextTimestamp, Memory
  <2>3. [run.batch EXCEPT !.ts = NextTimestamp(now)] \in Draft
    BY <2>2 DEF RunState, Draft
  <2>4. run' \in RunState /\ run'.pc = "enqueue" /\ run'.dest = run.dest
    BY <2>1, <2>3 DEF RunState, RunPC
  <2> QED BY <1>8, <2>4 DEF Stamp
<1>9. CASE Enqueue
  <2> DEFINE b == [run.batch EXCEPT !.to = run.dest, !.stale =
                      Vanished(run.batch.active, mem.previous)]
  <2>1. b \in Batch
    BY <1>9 DEF Enqueue, RunState, Draft, Batch, Memory, Vanished
  <2>2. CASE run' = [run EXCEPT !.pc = "rename", !.batch = b]
    <3>1. /\ run' \in RunState /\ run'.pc = "rename" /\ run'.dest = run.dest
          /\ run'.batch \in Batch
      BY <2>1, <2>2, BatchKinds DEF RunState, RunPC
    <3> QED BY <1>9, <3>1 DEF Enqueue
  <2>3. CASE EnqueueReturns
    BY <1>9, <2>3, BatchKinds DEF Enqueue, EnqueueReturns, RunState, RunPC
  <2> QED BY <1>9, <2>2, <2>3 DEF Enqueue
<1>10. CASE RenameQueueFile
  <2>1. /\ run' \in RunState /\ run'.pc = "sync" /\ run'.dest = run.dest
        /\ run'.batch = run.batch /\ run.batch \in Batch
    BY <1>10, GotoTypes DEF RenameQueueFile, RunPC
  <2>2. \A i \in images \cup {dir} : /\ AddFile(i, run.batch) \in Directory
                                     /\ IsFiniteSet(AddFile(i, run.batch).rw)
    BY <2>1, DirectoryOps
  <2> QED BY <1>10, <2>1, <2>2 DEF RenameQueueFile
<1>11. CASE SyncQueueFile
  <2>1. /\ run' \in RunState /\ run'.pc = "staterename" /\ run'.dest = run.dest
        /\ run'.batch = run.batch /\ run.batch \in Batch
    BY <1>11, GotoTypes DEF SyncQueueFile, RunPC
  <2>2. Size(run.batch) \in Nat
    BY <2>1, SizeType, BatchKinds
  <2>3. mem' \in Memory
    BY <1>11, <2>1, <2>2 DEF SyncQueueFile, Memory, Batch
  <2> QED BY <1>11, <2>1, <2>3 DEF SyncQueueFile
<1>12. CASE RenameState
  <2>1. /\ run' \in RunState /\ run'.pc = "statesync" /\ run'.dest = run.dest
        /\ run'.batch = run.batch /\ run.batch \in Batch
    BY <1>12, GotoTypes DEF RenameState, RunPC
  <2>2. \A i \in images \cup {dir} : /\ SetState(i, run.batch) \in Directory
                                     /\ IsFiniteSet(SetState(i, run.batch).rw)
    BY <2>1, DirectoryOps
  <2> QED BY <1>12, <2>1, <2>2 DEF RenameState
<1>13. CASE SyncState
  BY <1>13, BatchKinds DEF SyncState, EnqueueReturns, RunState, RunPC
<1>14. CASE EnqueueFails
  BY <1>14, BatchKinds DEF EnqueueFails, EnqueueReturns, RunState, RunPC
<1>15. CASE Join
  BY <1>15 DEF Join, RunState, RunPC
<1>16. CASE Flush
  BY <1>16, GotoTypes DEF Flush, RunPC, Senders, SendGoto, SendPC
<1>17. CASE Exit
  BY <1>17, BatchKinds DEF Exit, ProcessEnds, NoRun, NoMem, NoSend, RunState, RunPC, Memory, SendState, SendPC
<1>18. CASE Deliver
  BY <1>18, GotoTypes DEF Deliver, Senders, SendPC
<1>19. ASSUME NEW s \in Senders, SendPick(s) PROVE TypeInv'
  <2>1. CASE SendReturns(s, "sleep")
    BY <1>19, <2>1, GotoTypes DEF SendPick, SendPC
  <2>2. CASE mem.files # <<>>
    <3>1. Head(mem.files) \in Nat
      BY <2>2 DEF Memory
    <3>2. /\ snd' \in [Senders -> SendState] /\ snd'[s].pc = "read"
          /\ \A r \in Senders \ {s} : snd'[r] = snd[r]
      BY <1>19, <2>2, <3>1 DEF SendPick, SendState, SendPC
    <3> QED BY <1>19, <3>2 DEF SendPick
  <2> QED BY <1>19, <2>1, <2>2 DEF SendPick
<1>20. ASSUME NEW s \in Senders, SendRead(s) PROVE TypeInv'
  <2>1. PICK b \in dir.rw, pc \in {"token", "giveup"} :
          snd' = [snd EXCEPT ![s].pc = pc, ![s].body = b]
    BY <1>20 DEF SendRead
  <2>2. b \in Batch
    BY DEF Directory
  <2>3. /\ snd' \in [Senders -> SendState] /\ snd'[s].body = b
        /\ \A r \in Senders \ {s} : snd'[r] = snd[r]
    <3>1. snd \in [Senders -> SendState]
      BY DEF TypeOK
    <3> QED BY ONLY <2>1, <2>2, <3>1, s \in Senders DEF SendState, SendPC
  <2> QED BY <1>20, <2>2, <2>3 DEF SendRead
<1>21. ASSUME NEW s \in Senders, SendPost(s) PROVE TypeInv'
  BY <1>21, GotoTypes DEF SendPost, SendPC
<1>22. ASSUME NEW s \in Senders, SendFails(s) PROVE TypeInv'
  BY <1>22, GotoTypes DEF SendFails, MayArriveLate, SendPC, Receiver
<1>23. ASSUME NEW s \in Senders, SendAnswered(s) PROVE TypeInv'
  BY <1>23, GotoTypes DEF SendAnswered, SendPC
<1>24. ASSUME NEW s \in Senders, SendRemove(s) PROVE TypeInv'
  <2>1. /\ snd' \in [Senders -> SendState] /\ snd'[s].body = snd[s].body
        /\ \A r \in Senders \ {s} : snd'[r] = snd[r]
    BY <1>24, GotoTypes DEF SendRemove, SendPC
  <2>2. snd[s].body \in Batch /\ snd[s].name \in Nat
    BY <1>24 DEF SendRemove, SendState
  <2>3. Size(snd[s].body) \in Nat
    BY <2>2, SizeType, BatchKinds
  <2>4. Tail(mem.files) \in Seq(Nat)
    BY <1>24 DEF Memory, SendRemove, HeadIsSent
  <2>5. mem' = [mem EXCEPT !.files = Tail(mem.files),
                          !.bytes = mem.bytes - Size(snd[s].body)]
    BY <1>24 DEF SendRemove
  <2>6. mem.bytes - Size(snd[s].body) \in Int
    BY <2>3 DEF Memory
  <2>7. mem' \in Memory
    <3>1. mem \in Memory
      OBVIOUS
    <3> QED BY ONLY <3>1, <2>4, <2>5, <2>6 DEF Memory
  <2>8. \A i \in images \cup {dir} : /\ DropFile(i, snd[s].name) \in Directory
                                     /\ IsFiniteSet(DropFile(i, snd[s].name).rw)
    BY <2>2, DirectoryOps
  <2>9. ghosts' \in SUBSET Series
    BY <1>24, <2>2 DEF SendRemove, Batch
  <2> QED BY <1>24, <2>1, <2>2, <2>7, <2>8, <2>9 DEF SendRemove
<1>25. ASSUME NEW s \in Senders, SendRemoveFails(s) PROVE TypeInv'
  BY <1>25, GotoTypes DEF SendRemoveFails, SendPC
<1>26. ASSUME NEW s \in Senders, SendSync(s) PROVE TypeInv'
  BY <1>26, GotoTypes DEF SendSync, SendPC
<1>27. ASSUME NEW s \in Senders, ReceiverTakes(s) PROVE TypeInv'
  BY <1>27, GotoTypes DEF ReceiverTakes, Takes, SendPC, Batch, Receiver
<1>28. CASE ReceiverTakesLate
  BY <1>28 DEF ReceiverTakesLate, Takes, Batch, Receiver
<1>29. CASE Cancel
  BY <1>29 DEF Cancel, Running, RunState
<1>30. CASE Crash
  <2>1. recv' \in Receiver
    BY <1>30 DEF Crash, MayArriveLate, OnTheWire, Receiver
  <2>2. run' = NoRun /\ mem' = NoMem /\ snd' = [s \in Senders |-> NoSend]
    BY <1>30 DEF Crash, ProcessEnds
  <2>3. run' \in RunState /\ run'.pc = "off" /\ mem' \in Memory
    BY <2>2, BatchKinds DEF NoRun, NoMem, RunState, RunPC, Memory
  <2>4. snd' \in [Senders -> SendState] /\ WholeBody'
    BY <2>2, BatchKinds DEF NoSend, SendState, SendPC
  <2> QED BY <1>30, <2>1, <2>3, <2>4 DEF Crash
<1>31. CASE UNCHANGED vars
  BY <1>31 DEF vars
<1> QED
  BY <1>1, <1>2, <1>3, <1>4, <1>5, <1>6, <1>7, <1>8, <1>9, <1>10, <1>11, <1>12,
     <1>13, <1>14, <1>15, <1>16, <1>17, <1>18, <1>19, <1>20, <1>21, <1>22,
     <1>23, <1>24, <1>25, <1>26, <1>27, <1>28, <1>29, <1>30, <1>31
  DEF Next, Boot, Collection, SendOne, Environment

(* Run and the senders take turns: only Run's own thread runs before the   *)
(* delivery loop is started, the delivery loop has ended once Run closes,  *)
(* and the last attempt is made while Run waits for it.                    *)
Threads ==
    /\ ~Running => \A s \in Senders : snd[s].pc = "off"
    /\ Running /\ run.closing => snd["deliver"].pc = "off"
    /\ run.pc \in {"flush", "flushing"} => run.closing
    /\ run.pc \in {"bind", "bindsync", "restore", "loop", "collect", "tick", "join"}
          => ~run.closing
    /\ snd["flush"].pc # "off" => run.pc = "flushing"

LEMMA HeadInit == Init => Threads /\ HeadIsSent
BY DEF Init, Threads, HeadIsSent, Running, NoRun, NoSend, Senders

LEMMA ThreadsStep == TypeInv /\ Threads /\ [Next]_vars => Threads'
<1> SUFFICES ASSUME TypeOK, Threads, [Next]_vars PROVE Threads'
  BY DEF TypeInv
<1> USE DEF Threads, Running, TypeOK, RunState, RunPC, SendState, SendPC, Senders
<1>1. CASE Boot
  <2>1. ASSUME NEW d \in Destinations, Start(d) PROVE Threads'
    BY <2>1 DEF Start, NoRun
  <2>2. CASE RenameManifest \/ SyncManifest
    BY <2>2 DEF RenameManifest, SyncManifest, RunGoto
  <2>3. CASE Restore
    <3>1. run'.pc = "loop" /\ run'.closing = run.closing
      BY <2>3 DEF Restore, RunGoto
    <3>2. snd'["flush"] = snd["flush"]
      BY <2>3 DEF Restore
    <3> QED BY <2>3, <3>1, <3>2 DEF Restore
  <2>4. CASE RestoreRefused
    BY <2>4 DEF RestoreRefused, NoRun
  <2> QED BY <1>1, <2>1, <2>2, <2>3, <2>4 DEF Boot
<1>2. CASE Collection
  <2>1. CASE RunLoop \/ Gather \/ Stamp \/ Enqueue \/ Join
    <3>0. run \in RunState
      BY DEF TypeOK
    <3>1. CASE RunLoop \/ Gather
      <4>1. /\ run.pc \in {"loop", "tick", "collect"} /\ snd' = snd
            /\ run'.pc \in {"loop", "tick", "collect", "join", "stamp"}
            /\ run'.closing = run.closing
        <5>1. CASE RunLoop
          BY ONLY <3>0, <5>1 DEF RunLoop, RunGoto, RunState
        <5>2. CASE Gather
          BY ONLY <3>0, <5>2 DEF Gather, RunGoto, RunState
        <5> QED BY <3>1, <5>1, <5>2
      <4> QED BY ONLY <4>1, Threads DEF Threads, Running, Senders
    <3>2. CASE Stamp
      BY <3>2 DEF Stamp, RunGoto
    <3>3. CASE Enqueue
      <4>1. /\ run.pc = "enqueue" /\ snd' = snd /\ run'.closing = run.closing
            /\ run'.pc = "rename" \/ run'.pc = IF run.closing THEN "flush" ELSE "tick"
        BY ONLY <3>0, <3>3 DEF Enqueue, EnqueueReturns, RunState
      <4> QED BY ONLY <4>1, Threads DEF Threads, Running, Senders
    <3>4. CASE Join
      BY <3>4 DEF Join, DeliverDone, RunGoto
    <3> QED BY <2>1, <3>1, <3>2, <3>3, <3>4
  <2>2. CASE RenameQueueFile \/ SyncQueueFile \/ RenameState \/ SyncState
             \/ EnqueueFails
    <3>0. run \in RunState
      BY DEF TypeOK
    <3>1. /\ run.pc \in {"rename", "sync", "staterename", "statesync"} /\ snd' = snd
          /\ run'.closing = run.closing
          /\ \/ run'.pc \in {"sync", "staterename", "statesync"}
             \/ run'.pc = IF run.closing THEN "flush" ELSE "tick"
      <4>1. CASE RenameQueueFile \/ SyncQueueFile \/ RenameState
        BY ONLY <3>0, <4>1 DEF RenameQueueFile, SyncQueueFile, RenameState, RunGoto, RunState
      <4>2. CASE SyncState \/ EnqueueFails
        BY ONLY <3>0, <4>2 DEF SyncState, EnqueueFails, EnqueueReturns, RunState
      <4> QED BY <2>2, <4>1, <4>2
    <3> QED BY ONLY <3>1, Threads DEF Threads, Running, Senders
  <2>3. CASE Flush \/ Exit
    BY <2>3 DEF Flush, Exit, ProcessEnds, NoRun, NoSend, RunGoto
  <2> QED BY <1>2, <2>1, <2>2, <2>3 DEF Collection
<1>3. CASE Deliver
  BY <1>3 DEF Deliver, SendGoto
<1>4. ASSUME NEW s \in Senders, SendOne(s) \/ ReceiverTakes(s) PROVE Threads'
  <2>0. snd \in [Senders -> SendState]
    BY DEF TypeOK
  <2>1. /\ run' = run /\ snd[s].pc # "off"
        /\ \A r \in Senders \ {s} : snd'[r] = snd[r]
    <3>1. CASE SendPick(s) \/ SendRead(s)
      BY ONLY <2>0, <3>1 DEF SendPick, SendRead, SendReturns
    <3>2. CASE SendPost(s) \/ SendAnswered(s) \/ ReceiverTakes(s) \/ SendRemove(s)
      BY ONLY <2>0, <3>2 DEF SendPost, SendAnswered, ReceiverTakes, SendRemove, SendGoto
    <3>3. CASE SendFails(s) \/ SendRemoveFails(s) \/ SendSync(s)
      BY ONLY <2>0, <3>3 DEF SendFails, SendRemoveFails, SendSync, SendReturns
    <3> QED BY <1>4, <3>1, <3>2, <3>3 DEF SendOne
  <2> QED BY ONLY <2>1, s \in Senders, Threads DEF Threads, Running, Senders
<1>5. CASE ReceiverTakesLate \/ Cancel
  BY <1>5 DEF ReceiverTakesLate, Cancel
<1>6. CASE Crash
  BY <1>6 DEF Crash, ProcessEnds, NoRun, NoSend
<1>7. CASE UNCHANGED vars
  BY <1>7 DEF vars
<1> QED BY <1>1, <1>2, <1>3, <1>4, <1>5, <1>6, <1>7 DEF Next, Environment

LEMMA HeadStep ==
    TypeInv /\ Threads /\ HeadIsSent /\ [Next]_vars => HeadIsSent'
<1> SUFFICES ASSUME TypeOK, Threads, HeadIsSent, [Next]_vars PROVE HeadIsSent'
  BY DEF TypeInv
<1> USE DEF HeadIsSent, TypeOK, SendState, Senders
<1>1. CASE UNCHANGED <<mem, snd>>
  BY <1>1
<1>2. CASE UNCHANGED mem /\ \E s \in Senders, pc \in {"off", "head", "loop", "sleep"} :
              SendGoto(s, pc) \/ SendReturns(s, pc)
  BY <1>2 DEF SendGoto, SendReturns, NoSend
<1>3. CASE Restore \/ ProcessEnds
  BY <1>3 DEF Restore, ProcessEnds, NoSend, Threads, Running
<1>4. CASE SyncQueueFile
  <2>1. \A n : mem.files # <<>> /\ Head(mem.files) = n =>
               Append(mem.files, run.batch.ts) # <<>> /\ Head(Append(mem.files, run.batch.ts)) = n
    <3>1. mem.files \in Seq(Nat)
      BY DEF Memory
    <3> QED BY ONLY <3>1
  <2>2. mem'.files = Append(mem.files, run.batch.ts) /\ UNCHANGED snd
    BY <1>4 DEF SyncQueueFile
  <2> QED BY <2>1, <2>2
<1>5. ASSUME NEW s \in Senders, SendPick(s) \/ SendRead(s) PROVE HeadIsSent'
  BY <1>5 DEF SendPick, SendRead, SendReturns, NoSend
<1>6. ASSUME NEW s \in Senders, SendPost(s) \/ SendAnswered(s) \/ ReceiverTakes(s)
      PROVE  HeadIsSent'
  BY <1>6 DEF SendPost, SendAnswered, ReceiverTakes, SendGoto
<1>7. ASSUME NEW s \in Senders, SendRemove(s) PROVE HeadIsSent'
  BY <1>7 DEF SendRemove, SendGoto, Threads, Running, RunState
<1> QED
  BY <1>1, <1>2, <1>3, <1>4, <1>5, <1>6, <1>7 DEF Next, Boot, Start, RenameManifest, SyncManifest, RestoreRefused,
     Collection, RunLoop, Gather, Stamp, Enqueue, RenameQueueFile, RenameState, SyncState,
     EnqueueFails, Join, Flush, Exit, Deliver, SendOne, SendFails, SendRemoveFails,
     SendSync, Environment, ReceiverTakesLate, Cancel, Crash, vars, SendGoto

(* Whose directory it is: the manifest, once it is bound, names the        *)
(* destination of the process, in every directory a power loss may leave,  *)
(* and a directory without a manifest has no files.                        *)
OwnFiles(d) == /\ \A b \in d.rw : b.to = d.owner
               /\ d.owner = NoDest => d.rw = {}
Owned ==
    /\ \A i \in images : OwnFiles(i)
    /\ run.pc \in {"off", "bind"} => \A i \in images : i.owner = dir.owner
    /\ run.pc = "bind" => dir.owner = NoDest
    /\ run.pc = "bindsync" => /\ \A i \in images : i.rw = {}
                              /\ dir.owner = run.dest
    /\ run.pc \notin {"off", "bind", "bindsync"} => \A i \in images : i.owner = run.dest
    /\ run.pc \in {"rename", "sync", "staterename", "statesync"} => run.batch.to = run.dest
    /\ \A s \in Senders :
          snd[s].pc \in {"token", "post", "taken", "remove", "giveup"}
              => snd[s].body.to = run.dest

LEMMA OwnedInit == Init => Owned
BY DEF Init, Owned, OwnFiles, NoRun, NoSend, Senders

(* Directory operations keep files with their owner. *)
LEMMA OwnFilesOps ==
    ASSUME NEW d \in Directory, OwnFiles(d)
    PROVE  /\ \A b \in Batch : /\ b.to = d.owner => OwnFiles(AddFile(d, b))
                               /\ AddFile(d, b).owner = d.owner
                               /\ OwnFiles(SetState(d, b))
                               /\ SetState(d, b).owner = d.owner
           /\ \A n \in Nat : OwnFiles(DropFile(d, n)) /\ DropFile(d, n).owner = d.owner
           /\ \A o \in Destinations : d.rw = {} => /\ OwnFiles(SetOwner(d, o))
                                                 /\ SetOwner(d, o).rw = {}
                                                 /\ SetOwner(d, o).owner = o
<1>1. ASSUME NEW b \in Batch
      PROVE  /\ b.to = d.owner => OwnFiles(AddFile(d, b))
             /\ AddFile(d, b).owner = d.owner
             /\ OwnFiles(SetState(d, b)) /\ SetState(d, b).owner = d.owner
  <2>1. b.to # NoDest
    BY DestinationsAssumption DEF Batch
  <2> QED BY <2>1 DEF OwnFiles, AddFile, SetState, Directory
<1>2. \A n \in Nat : OwnFiles(DropFile(d, n)) /\ DropFile(d, n).owner = d.owner
  BY DEF OwnFiles, DropFile, Directory
<1>3. \A o \in Destinations : d.rw = {} => /\ OwnFiles(SetOwner(d, o))
                                        /\ SetOwner(d, o).rw = {}
                                        /\ SetOwner(d, o).owner = o
  BY DEF OwnFiles, SetOwner, Directory
<1> QED BY <1>1, <1>2, <1>3

LEMMA OwnedStep ==
    TypeInv /\ TypeInv' /\ Threads /\ Owned /\ [Next]_vars => Owned'
<1> SUFFICES ASSUME TypeInv, TypeInv', Threads, Owned, [Next]_vars PROVE Owned'
  OBVIOUS
<1>1. /\ dir \in images /\ images \in SUBSET Directory /\ run \in RunState
      /\ snd \in [Senders -> SendState] /\ run' \in RunState
      /\ snd' \in [Senders -> SendState]
  BY DEF TypeInv, TypeOK
<1>2. CASE Boot
  <2>1. ASSUME NEW d \in Destinations, Start(d) PROVE Owned'
    <3>1. /\ run'.dest = d /\ run'.pc = IF dir.owner = NoDest THEN "bind" ELSE "restore"
          /\ run.pc = "off" /\ dir.owner \in {NoDest, d} /\ UNCHANGED <<dir, images, snd>>
      BY <2>1 DEF Start, MayOwn, NoRun
    <3>2. \A s \in Senders : snd[s].pc = "off"
      BY <3>1 DEF Threads, Running
    <3> QED BY <3>1, <3>2 DEF Owned
  <2>2. CASE RenameManifest
    <3>1. run.dest \in Destinations
      BY <2>2 DEF RenameManifest, TypeInv, Started
    <3>2. \A i \in images : i.rw = {}
      BY <1>1, <2>2 DEF RenameManifest, Owned, OwnFiles
    <3>3. \A i \in images : /\ OwnFiles(SetOwner(i, run.dest))
                            /\ SetOwner(i, run.dest).rw = {}
                            /\ SetOwner(i, run.dest).owner = run.dest
      BY <1>1, <3>1, <3>2, OwnFilesOps DEF Owned
    <3>4. run'.pc = "bindsync" /\ run'.dest = run.dest
      BY <1>1, <2>2 DEF RenameManifest, RunGoto, RunState
    <3> QED BY <1>1, <2>2, <3>2, <3>3, <3>4 DEF RenameManifest, Owned
  <2>3. CASE SyncManifest
    BY <1>1, <2>3 DEF SyncManifest, RunGoto, RunState, Owned
  <2>4. CASE Restore
    BY <1>1, <2>4 DEF Restore, RunGoto, RunState, SendState, Senders, Owned
  <2>5. CASE RestoreRefused
    BY <1>1, <2>5 DEF RestoreRefused, NoRun, Owned, Threads, Running
  <2> QED BY <1>2, <2>1, <2>2, <2>3, <2>4, <2>5 DEF Boot
<1>3. CASE Collection
  <2>1. CASE RunLoop \/ Gather \/ Stamp \/ Join
    <3>1. /\ run.pc \in {"loop", "tick", "collect", "stamp", "join"}
          /\ run'.pc \in {"loop", "tick", "collect", "stamp", "join", "enqueue"}
          /\ run'.dest = run.dest /\ UNCHANGED <<dir, images, snd>>
      <4>1. CASE RunLoop
        BY ONLY <1>1, <4>1 DEF RunLoop, RunGoto, RunState
      <4>2. CASE Gather
        BY ONLY <1>1, <4>2 DEF Gather, RunGoto, RunState
      <4>3. CASE Stamp
        BY ONLY <1>1, <4>3 DEF Stamp, RunState
      <4>4. CASE Join
        BY ONLY <1>1, <4>4 DEF Join, RunState
      <4> QED BY <2>1, <4>1, <4>2, <4>3, <4>4
    <3> QED BY <3>1 DEF Owned
  <2>2. CASE Enqueue
    <3> DEFINE b == [run.batch EXCEPT !.to = run.dest, !.stale =
                        Vanished(run.batch.active, mem.previous)]
    <3>1. b.to = run.dest
      BY <1>1 DEF RunState, Draft
    <3>2. /\ run'.dest = run.dest
          /\ \/ run'.pc = "rename" /\ run'.batch = b
             \/ run'.pc \in {"flush", "tick"}
      BY <1>1, <2>2 DEF Enqueue, EnqueueReturns, RunState
    <3>3. run.pc = "enqueue" /\ UNCHANGED <<dir, images, snd>>
      BY <2>2 DEF Enqueue
    <3> HIDE DEF b
    <3> QED BY <3>1, <3>2, <3>3 DEF Owned
  <2>3. CASE RenameQueueFile
    <3>1. run.batch \in Batch
      BY <2>3 DEF RenameQueueFile, TypeInv, WholeBatch
    <3>2. \A i \in images : /\ OwnFiles(AddFile(i, run.batch))
                            /\ AddFile(i, run.batch).owner = run.dest
      BY <1>1, <2>3, <3>1, OwnFilesOps DEF RenameQueueFile, Owned
    <3>3. run' = [run EXCEPT !.pc = "sync"]
      BY <2>3 DEF RenameQueueFile, RunGoto
    <3> QED BY <1>1, <2>3, <3>2, <3>3 DEF RenameQueueFile, RunState, Owned
  <2>4. CASE RenameState
    <3>1. run.batch \in Batch
      BY <2>4 DEF RenameState, TypeInv, WholeBatch
    <3>2. \A i \in images : /\ OwnFiles(SetState(i, run.batch))
                            /\ SetState(i, run.batch).owner = run.dest
      BY <1>1, <2>4, <3>1, OwnFilesOps DEF RenameState, Owned
    <3>3. run' = [run EXCEPT !.pc = "statesync"]
      BY <2>4 DEF RenameState, RunGoto
    <3> QED BY <1>1, <2>4, <3>2, <3>3 DEF RenameState, RunState, Owned
  <2>5. CASE SyncQueueFile \/ SyncState
    <3>1. CASE SyncQueueFile
      BY <1>1, <3>1 DEF SyncQueueFile, RunGoto, RunState, Owned
    <3>2. CASE SyncState
      BY <1>1, <3>2 DEF SyncState, EnqueueReturns, RunState, Owned
    <3> QED BY <2>5, <3>1, <3>2
  <2>6. CASE EnqueueFails
    BY <1>1, <2>6 DEF EnqueueFails, EnqueueReturns, RunState, Owned
  <2>7. CASE Flush \/ Exit
    BY <1>1, <2>7 DEF Flush, Exit, ProcessEnds, NoRun, NoSend, RunGoto, RunState,
       SendState, Senders, Owned
  <2> QED BY <1>3, <2>1, <2>2, <2>3, <2>4, <2>5, <2>6, <2>7 DEF Collection
<1>4. CASE Deliver
  BY <1>1, <1>4 DEF Deliver, SendGoto, SendState, Senders, Owned
<1>5. ASSUME NEW s \in Senders, SendRead(s) PROVE Owned'
  <2>1. run.pc \notin {"off", "bind", "bindsync"}
    BY <1>5 DEF SendRead, Threads, Running
  <2>2. \A b \in dir.rw : b.to = run.dest
    BY <1>1, <2>1 DEF Owned, OwnFiles
  <2> QED BY <1>1, <1>5, <2>2 DEF SendRead, SendState, Owned
<1>6. ASSUME NEW s \in Senders, SendRemove(s) PROVE Owned'
  <2>1. snd[s].name \in Nat
    BY <1>1 DEF SendState
  <2>2. \A i \in images : /\ OwnFiles(DropFile(i, snd[s].name))
                          /\ DropFile(i, snd[s].name).owner = i.owner
    BY <1>1, <2>1, OwnFilesOps DEF Owned
  <2>3. run.pc \notin {"off", "bind", "bindsync"}
    BY <1>6 DEF SendRemove, Threads, Running
  <2> QED BY <1>1, <1>6, <2>2, <2>3 DEF SendRemove, SendGoto, SendState, Owned
<1>7. ASSUME NEW s \in Senders, SendSync(s) PROVE Owned'
  <2>1. run.pc \notin {"off", "bind", "bindsync"}
    BY <1>7 DEF SendSync, Threads, Running
  <2> QED BY <1>1, <1>7, <2>1 DEF SendSync, SendReturns, NoSend, Owned
<1>8. ASSUME NEW s \in Senders,
             SendPick(s) \/ SendPost(s) \/ SendFails(s) \/ SendAnswered(s)
                \/ SendRemoveFails(s) \/ ReceiverTakes(s)
      PROVE  Owned'
  <2>1. CASE SendPick(s)
    <3>1. /\ UNCHANGED <<dir, images, run>>
          /\ snd'[s].pc \in {"off", "sleep", "read"}
          /\ \A r \in Senders \ {s} : snd'[r] = snd[r]
      BY <1>1, <2>1 DEF SendPick, SendReturns, NoSend, SendState
    <3> QED BY <3>1 DEF Owned
  <2>2. CASE SendPost(s) \/ SendAnswered(s)
    BY <1>1, <2>2 DEF SendPost, SendAnswered, SendGoto, SendState, Owned
  <2>3. CASE SendFails(s) \/ SendRemoveFails(s)
    BY <1>1, <2>3 DEF SendFails, SendRemoveFails, SendReturns, NoSend, SendState, Owned
  <2>4. CASE ReceiverTakes(s)
    BY <1>1, <2>4 DEF ReceiverTakes, SendGoto, SendState, Owned
  <2> QED BY <1>8, <2>1, <2>2, <2>3, <2>4
<1>9. CASE ReceiverTakesLate \/ Cancel
  BY <1>1, <1>9 DEF ReceiverTakesLate, Cancel, RunState, Owned
<1>10. CASE Crash
  BY <1>1, <1>10 DEF Crash, ProcessEnds, NoRun, NoSend, Owned
<1>11. CASE UNCHANGED vars
  BY <1>11 DEF vars, Owned
<1> QED BY <1>2, <1>3, <1>4, <1>5, <1>6, <1>7, <1>8, <1>9, <1>10, <1>11
        DEF Next, SendOne, Environment

(* The types hold in every reachable state, whatever storage operations    *)
(* fail and wherever the process crashes.                                  *)
THEOREM TypeCorrect == Spec => []TypeOK
<1>1. TypeInv => TypeOK
  BY DEF TypeInv
<1> QED BY <1>1, TypeInit, TypeStep, HeadInit, ThreadsStep, HeadStep, PTL DEF Spec

(* sendOne pops the file it sent, whatever fails: the two callers never    *)
(* run at the same time, and enqueue only adds at the other end.           *)
THEOREM SendsTheHead == Spec => []HeadIsSent
BY TypeInit, TypeStep, HeadInit, ThreadsStep, HeadStep, PTL DEF Spec

(* A batch goes to the destination it was collected for, whatever fails:   *)
(* a process with another destination cannot start on the directory, even  *)
(* after a power loss that took the manifest back.                         *)
THEOREM RightDestination == Spec => []RightReceiver
<1>1. Owned => RightReceiver
  BY DEF Owned, RightReceiver
<1> QED BY <1>1, TypeInit, TypeStep, HeadInit, ThreadsStep, HeadStep,
           OwnedInit, OwnedStep, PTL DEF Spec
=============================================================================
