----------------------------- MODULE Registration -----------------------------
(***************************************************************************)
(* The registration directory: internal/registration/registration.go.      *)
(*                                                                         *)
(* A launcher runs `register` (Write) when it starts an engine and         *)
(* `deregister` (Remove) when it stops one.  Each call is a process of its *)
(* own, several run at once, and any may be killed.  They are serialised   *)
(* by flock(2) on .lock.  The exporter reads the directory (LoadDir)       *)
(* without the lock, one file after the other.                             *)
(*                                                                         *)
(* A file is its run_id and whether it parses and validates.  A temporary  *)
(* file is hidden and no reader opens it, so writing one belongs to the    *)
(* step before its rename.                                                 *)
(***************************************************************************)
EXTENDS Naturals, FiniteSets

CONSTANTS
    Procs,       \* calls of Write and Remove that run at the same time
    Backends,    \* a file is named after its backend
    Runs,        \* the run_ids launchers use besides the default, Static
    Found        \* the files the directory may hold when it is first used

NoFile == [kind |-> "none", run |-> "none"]
NoRunID == "empty run_id"
Static == "static"
NoProc == "no process"
NoRun == "none"

(* "valid"; "invalid" with a run_id that can be read; "partial", the start *)
(* of a file; "garbage", which is not YAML.                                *)
File == [kind : {"valid", "invalid", "partial", "garbage"},
         run : Runs \cup {NoRunID, Static}]

ASSUME FoundAssumption == Found \subseteq File /\ NoFile \notin File
ASSUME ProcsAssumption == NoProc \notin Procs
ASSUME RunsAssumption == Runs \cap {NoRun, NoRunID} = {}

VARIABLES
    file,     \* the directory
    lock,     \* the process that holds the flock on .lock
    proc,     \* each process: pc, backend and run_id
    load,     \* LoadDir: pc, the names left to read, valid and invalid
    latest,   \* observer: the run whose Write was the last to replace a file
    stopped,  \* observer: the pairs for which a Remove has begun
    steady    \* observer: backends valid at ReadDir and not removed since

vars == <<file, lock, proc, load, latest, stopped, steady>>

Idle == [pc |-> "idle", b |-> "none", r |-> NoRun]

(* Parse gives a file without run_id the run_id "static"; so does Remove. *)
RunID(f) == IF f.run = NoRunID THEN Static ELSE f.run

Valid(f) == f.kind = "valid"
Present(d) == {b \in Backends : d[b] # NoFile}
WithValid(d) == {b \in Backends : Valid(d[b])}

Init ==
    /\ file \in [Backends -> Found \cup {NoFile}]
    /\ lock = NoProc
    /\ proc = [p \in Procs |-> Idle]
    /\ load = [pc |-> "idle", names |-> {}, valid |-> {}, invalid |-> {}]
    /\ latest = [b \in Backends |-> NoRun]
    /\ stopped = {} /\ steady = {}

-----------------------------------------------------------------------------
Goto(p, pc) == proc' = [proc EXCEPT ![p].pc = pc]

(* A change of the directory, as the observers of LoadDir see it. *)
SetFile(b, f) ==
    /\ file' = [file EXCEPT ![b] = f]
    /\ steady' = IF f = NoFile THEN steady \ {b} ELSE steady

DirUnchanged == UNCHANGED <<file, steady>>

(* mutant: the lock outlives its call *)
LockStays(p) == lock

(* The call returns or is killed: the flock goes with its descriptor. *)
Unlocked(p) == IF lock = p THEN NoProc ELSE lock

Return(p) == proc' = [proc EXCEPT ![p] = Idle] /\ lock' = Unlocked(p)

(* mutant: nobody waits for the lock *)
AnyHolder == TRUE

LockFree == lock = NoProc

(* lock: flock(LOCK_EX) is granted; the call goes on at pc. *)
Lock(p, from, to) ==
    /\ proc[p].pc = from
    /\ LockFree
    /\ lock' = p
    /\ Goto(p, to)
    /\ DirUnchanged /\ UNCHANGED <<load, latest, stopped>>

-----------------------------------------------------------------------------
(* Write.  A registration that does not validate is refused at once. *)
BeginWrite(p, b, r) ==
    /\ proc[p].pc = "idle"
    /\ proc' = [proc EXCEPT ![p] = [pc |-> "wlock", b |-> b, r |-> r]]
    /\ DirUnchanged /\ UNCHANGED <<lock, load, latest, stopped>>

WriteLock(p) == Lock(p, "wlock", "temp")

(* mutant: the body is written to the file itself *)
WriteInPlace(p) == SetFile(proc[p].b, [kind |-> "partial", run |-> proc[p].r])

WriteHidden(p) == DirUnchanged

(* CreateTemp, Write, Chmod, Sync and Close of the temporary file. *)
WriteTemp(p) ==
    /\ proc[p].pc = "temp"
    /\ WriteHidden(p)
    /\ Goto(p, "rename")
    /\ UNCHANGED <<lock, load, latest, stopped>>

(* The rename and the deferred unlock. *)
Rename(p) ==
    /\ proc[p].pc = "rename"
    /\ SetFile(proc[p].b, [kind |-> "valid", run |-> proc[p].r])
    /\ latest' = [latest EXCEPT ![proc[p].b] = proc[p].r]
    /\ Return(p)
    /\ UNCHANGED <<load, stopped>>

-----------------------------------------------------------------------------
(* Remove. *)
BeginRemove(p, b, r) ==
    /\ proc[p].pc = "idle"
    /\ proc' = [proc EXCEPT ![p] = [pc |-> "stat", b |-> b, r |-> r]]
    /\ stopped' = stopped \cup {<<b, r>>}
    /\ DirUnchanged /\ UNCHANGED <<lock, load, latest>>

(* Stat, before the lock: there may be no file. *)
RemoveStat(p) ==
    /\ proc[p].pc = "stat"
    /\ IF file[proc[p].b] = NoFile THEN Return(p)
       ELSE Goto(p, "rlock") /\ UNCHANGED lock
    /\ DirUnchanged /\ UNCHANGED <<load, latest, stopped>>

RemoveLock(p) == Lock(p, "rlock", "read")

(* mutant: any file of the backend is taken for this run's *)
AnyRun(f, r) == f # NoFile

(* ReadFile, Unmarshal and the comparison of the run_ids. *)
Owned(f, r) == f # NoFile /\ f.kind # "garbage" /\ RunID(f) = r

RemoveRead(p) ==
    /\ proc[p].pc = "read"
    /\ IF Owned(file[proc[p].b], proc[p].r) THEN Goto(p, "remove") /\ UNCHANGED lock
       ELSE Return(p)
    /\ DirUnchanged /\ UNCHANGED <<load, latest, stopped>>

(* os.Remove and the deferred unlock. *)
RemoveFile(p) ==
    /\ proc[p].pc = "remove"
    /\ SetFile(proc[p].b, NoFile)
    /\ Return(p)
    /\ UNCHANGED <<load, latest, stopped>>

(* A system call fails and the call returns its error (a temporary file is *)
(* removed first), or the process is killed.                               *)
Fail(p) ==
    /\ proc[p].pc # "idle"
    /\ Return(p)
    /\ DirUnchanged /\ UNCHANGED <<load, latest, stopped>>

-----------------------------------------------------------------------------
(* LoadDir: ReadDir, then every file by its name. *)
ReadDir ==
    /\ load.pc = "idle"
    /\ load' = [pc |-> "read", names |-> Present(file), valid |-> {}, invalid |-> {}]
    /\ steady' = WithValid(file)
    /\ UNCHANGED <<file, lock, proc, latest, stopped>>

(* ReadFile, which sees the old file, the new one or none; Parse. *)
ReadOne(b) ==
    /\ load.pc = "read" /\ b \in load.names
    /\ load' = [load EXCEPT !.names = @ \ {b},
                   !.valid = IF Valid(file[b]) THEN @ \cup {<<b, RunID(file[b])>>} ELSE @,
                   !.invalid = IF Valid(file[b]) THEN @ ELSE @ \cup {b}]
    /\ UNCHANGED <<file, lock, proc, latest, stopped, steady>>

LoadReturns ==
    /\ load.pc = "read" /\ load.names = {}
    /\ load' = [load EXCEPT !.pc = "idle"]
    /\ UNCHANGED <<file, lock, proc, latest, stopped, steady>>

LoadDir == ReadDir \/ (\E b \in Backends : ReadOne(b)) \/ LoadReturns

-----------------------------------------------------------------------------
Write(p) == WriteLock(p) \/ WriteTemp(p) \/ Rename(p)
Remove(p) == RemoveStat(p) \/ RemoveLock(p) \/ RemoveRead(p) \/ RemoveFile(p)
Begin(p) == \E b \in Backends, r \in Runs \cup {Static} :
                BeginWrite(p, b, r) \/ BeginRemove(p, b, r)

Next == LoadDir \/ \E p \in Procs : Begin(p) \/ Write(p) \/ Remove(p) \/ Fail(p)

Spec == Init /\ [][Next]_vars

(* A process runs unless it is killed, and the kernel grants a flock to    *)
(* each of those who keep waiting for it.                                  *)
FairSpec == Spec /\ \A p \in Procs :
    /\ WF_vars(Write(p) \/ Remove(p))
    /\ SF_vars(WriteLock(p) \/ RemoveLock(p))

-----------------------------------------------------------------------------
Holding == {"temp", "rename", "read", "remove"}
ProcState == [pc : {"idle", "wlock", "stat", "rlock"} \cup Holding,
              b : Backends \cup {"none"}, r : Runs \cup {Static, NoRun}]

(* Every variable has its type, and a call that changes the directory      *)
(* holds the lock.                                                         *)
TypeOK ==
    /\ file \in [Backends -> File \cup {NoFile}]
    /\ lock \in Procs \cup {NoProc}
    /\ proc \in [Procs -> ProcState]
    /\ \A p \in Procs : /\ proc[p].pc \in Holding <=> lock = p
                        /\ proc[p].pc # "idle" => proc[p].b \in Backends
                        /\ proc[p].pc # "idle" => proc[p].r # NoRun
    /\ load \in [pc : {"idle", "read"}, names : SUBSET Backends,
                 valid : SUBSET (Backends \X (Runs \cup {Static})),
                 invalid : SUBSET Backends]
    /\ latest \in [Backends -> Runs \cup {Static, NoRun}]
    /\ stopped \subseteq Backends \X (Runs \cup {Static})
    /\ steady \subseteq Backends

(* The newest launch keeps its registration until its own deregister: a    *)
(* late stop of another run never removes it, however the calls            *)
(* interleave, fail or are killed.                                         *)
NewestLaunchKept ==
    \A b \in Backends : latest[b] # NoRun /\ <<b, latest[b]>> \notin stopped =>
        file[b] = [kind |-> "valid", run |-> latest[b]]

(* A relaunch never makes an arm blink: a backend that had a valid file    *)
(* when LoadDir began and was not deregistered since is loaded, from the   *)
(* old file or the new one, however many Writes went on meanwhile, if it   *)
(* can be read at all.                                                     *)
NeverBlinks ==
    load.pc = "idle" => \A b \in steady : \E x \in load.valid : x[1] = b

-----------------------------------------------------------------------------
(* The directory as a Registry: a file is the run that owns it, a process  *)
(* is inside its call until it returns.                                    *)
Owner(f) ==
    IF f = NoFile THEN NoRun ELSE IF f.kind = "garbage" THEN "nobody" ELSE RunID(f)

NoCall == [op |-> "none", b |-> "none", r |-> NoRun]

Call(c) ==
    IF c.pc = "idle" THEN NoCall
    ELSE [op |-> IF c.pc \in {"wlock", "temp", "rename"} THEN "register" ELSE "deregister",
          b |-> c.b, r |-> c.r]

R == INSTANCE Registry WITH
        RunIDs <- Runs \cup {Static}, Vacant <- NoRun, Nobody <- "nobody",
        owner <- [b \in Backends |-> Owner(file[b])],
        call <- [p \in Procs |-> Call(proc[p])]

(* Write and Remove are atomic: behind the lock, the temporary file and    *)
(* the rename, every call replaces the owner of its backend, or compares   *)
(* and removes it, at one instant, or does nothing, wherever it fails or   *)
(* is killed.                                                              *)
IsRegistry == R!Spec

(* A launcher is never blocked for ever by others, or by one killed while  *)
(* it held the lock.                                                       *)
CallsReturn == \A p \in Procs : proc[p].pc # "idle" ~> proc[p].pc = "idle"
=============================================================================
