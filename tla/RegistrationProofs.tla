-------------------------- MODULE RegistrationProofs --------------------------
(***************************************************************************)
(* The newest launch keeps its registration, for any number of processes,  *)
(* backends and runs.  The invariant is inductive with two facts about the *)
(* calls of Remove: a call has announced itself in stopped, and from the   *)
(* comparison of the run_ids to the removal the file stays the one that    *)
(* was compared, because only the holder of the lock changes a file.       *)
(***************************************************************************)
EXTENDS Registration, TLAPS

Removing == {"stat", "rlock", "read", "remove"}

RemoverOwns ==
    \A p \in Procs :
        /\ proc[p].pc \in Removing => <<proc[p].b, proc[p].r>> \in stopped
        /\ proc[p].pc = "remove" => Owned(file[proc[p].b], proc[p].r)

IInv == TypeOK /\ RemoverOwns /\ NewestLaunchKept

(* The initial directory, whatever it holds, satisfies the invariant. *)
LEMMA InitInv == Init => IInv
  BY FoundAssumption, ProcsAssumption
  DEF Init, IInv, TypeOK, RemoverOwns, NewestLaunchKept, Idle, ProcState,
      Holding, Removing

(* Types are preserved by every step of a launcher and of LoadDir. *)
LEMMA TypeStep == TypeOK /\ [Next]_vars => TypeOK'
<1> SUFFICES ASSUME TypeOK, [Next]_vars PROVE TypeOK'
  OBVIOUS
<1> USE ProcsAssumption DEF TypeOK, ProcState, Holding
<1>1. CASE LoadDir
  <2>1. CASE ReadDir
    BY <2>1 DEF ReadDir, Present, WithValid
  <2>2. ASSUME NEW b \in Backends, ReadOne(b) PROVE TypeOK'
    <3>1. Valid(file[b]) => RunID(file[b]) \in Runs \cup {Static}
      BY DEF RunID, Valid, File, NoFile
    <3> DEFINE v == IF Valid(file[b]) THEN load.valid \cup {<<b, RunID(file[b])>>}
                                      ELSE load.valid
               w == IF Valid(file[b]) THEN load.invalid ELSE load.invalid \cup {b}
    <3>2. v \in SUBSET (Backends \X (Runs \cup {Static})) /\ w \in SUBSET Backends
      BY <3>1
    <3>3. load' = [load EXCEPT !.names = load.names \ {b}, !.valid = v, !.invalid = w]
      BY <2>2 DEF ReadOne
    <3> HIDE DEF v, w
    <3>4. load' \in [pc : {"idle", "read"}, names : SUBSET Backends,
                     valid : SUBSET (Backends \X (Runs \cup {Static})),
                     invalid : SUBSET Backends]
      BY <3>2, <3>3
    <3>5. UNCHANGED <<file, lock, proc, latest, stopped, steady>>
      BY <2>2 DEF ReadOne
    <3> QED BY <3>4, <3>5
  <2>3. CASE LoadReturns
    BY <2>3 DEF LoadReturns
  <2> QED BY <1>1, <2>1, <2>2, <2>3 DEF LoadDir
<1>2. ASSUME NEW p \in Procs, Begin(p) PROVE TypeOK'
  BY <1>2, RunsAssumption DEF Begin, BeginWrite, BeginRemove, DirUnchanged, Static, NoRun
<1>3. ASSUME NEW p \in Procs, Write(p) PROVE TypeOK'
  <2>1. CASE WriteLock(p)
    BY <2>1 DEF WriteLock, Lock, LockFree, Goto, DirUnchanged
  <2>2. CASE WriteTemp(p)
    BY <2>2 DEF WriteTemp, WriteHidden, Goto, DirUnchanged
  <2>3. CASE Rename(p)
    BY <2>3 DEF Rename, SetFile, Return, Unlocked, Idle, File, Valid
  <2> QED BY <1>3, <2>1, <2>2, <2>3 DEF Write
<1>4. ASSUME NEW p \in Procs, Remove(p) PROVE TypeOK'
  <2>1. CASE RemoveStat(p)
    BY <2>1 DEF RemoveStat, Return, Unlocked, Idle, Goto, DirUnchanged
  <2>2. CASE RemoveLock(p)
    BY <2>2 DEF RemoveLock, Lock, LockFree, Goto, DirUnchanged
  <2>3. CASE RemoveRead(p)
    BY <2>3 DEF RemoveRead, Return, Unlocked, Idle, Goto, DirUnchanged
  <2>4. CASE RemoveFile(p)
    BY <2>4 DEF RemoveFile, SetFile, Return, Unlocked, Idle
  <2> QED BY <1>4, <2>1, <2>2, <2>3, <2>4 DEF Remove
<1>5. ASSUME NEW p \in Procs, Fail(p) PROVE TypeOK'
  BY <1>5 DEF Fail, Return, Unlocked, Idle, DirUnchanged
<1>6. CASE UNCHANGED vars
  BY <1>6 DEF vars
<1> QED BY <1>1, <1>2, <1>3, <1>4, <1>5, <1>6 DEF Next

(* Every step preserves the other two parts.  Only Rename and RemoveFile   *)
(* change a file, and both hold the lock.                                  *)
LEMMA KeptStep == IInv /\ [Next]_vars => (RemoverOwns /\ NewestLaunchKept)'
<1> SUFFICES ASSUME IInv, [Next]_vars PROVE (RemoverOwns /\ NewestLaunchKept)'
  OBVIOUS
<1> USE DEF IInv
<1>1. CASE LoadDir
  BY <1>1 DEF LoadDir, ReadDir, ReadOne, LoadReturns, RemoverOwns, NewestLaunchKept
<1>2. ASSUME NEW p \in Procs, Begin(p) PROVE (RemoverOwns /\ NewestLaunchKept)'
  BY <1>2 DEF Begin, BeginWrite, BeginRemove, DirUnchanged, TypeOK,
              RemoverOwns, NewestLaunchKept, Removing
<1>3. ASSUME NEW p \in Procs, WriteLock(p) \/ WriteTemp(p)
      PROVE  (RemoverOwns /\ NewestLaunchKept)'
  <2>1. /\ UNCHANGED <<file, latest, stopped>>
        /\ \E pc \in {"temp", "rename"} : proc' = [proc EXCEPT ![p].pc = pc]
    BY <1>3 DEF WriteLock, WriteTemp, WriteHidden, Lock, Goto, DirUnchanged
  <2> QED BY <2>1, SMT DEF TypeOK, ProcState, RemoverOwns, NewestLaunchKept, Removing
<1>4. ASSUME NEW p \in Procs, Rename(p) PROVE (RemoverOwns /\ NewestLaunchKept)'
  <2>1. RemoverOwns'
    <3>1. \A q \in Procs : proc[q].pc # "remove"
      BY <1>4 DEF Rename, TypeOK, Holding
    <3> QED BY <1>4, <3>1 DEF Rename, SetFile, Return, Idle, TypeOK, RemoverOwns, Removing
  <2>2. NewestLaunchKept'
    BY <1>4 DEF Rename, SetFile, TypeOK, NewestLaunchKept
  <2> QED BY <2>1, <2>2
<1>5. ASSUME NEW p \in Procs, RemoveStat(p) \/ RemoveLock(p)
      PROVE  (RemoverOwns /\ NewestLaunchKept)'
  <2>1. /\ UNCHANGED <<file, latest, stopped>>
        /\ proc[p].pc \in Removing
        /\ \/ proc' = [proc EXCEPT ![p] = Idle]
           \/ \E pc \in {"rlock", "read"} : proc' = [proc EXCEPT ![p].pc = pc]
    BY <1>5 DEF RemoveStat, RemoveLock, Lock, Return, Goto, DirUnchanged, Removing
  <2> QED BY <2>1 DEF Idle, TypeOK, ProcState, RemoverOwns, NewestLaunchKept, Removing
<1>6. ASSUME NEW p \in Procs, RemoveRead(p) PROVE (RemoverOwns /\ NewestLaunchKept)'
  <2>1. /\ UNCHANGED <<file, latest, stopped>>
        /\ proc[p].pc \in Removing
        /\ \/ proc' = [proc EXCEPT ![p] = Idle]
           \/ /\ Owned(file[proc[p].b], proc[p].r)
              /\ proc' = [proc EXCEPT ![p].pc = "remove"]
    BY <1>6 DEF RemoveRead, Return, Goto, DirUnchanged, Removing
  <2> QED BY <2>1 DEF Idle, TypeOK, ProcState, RemoverOwns, NewestLaunchKept, Removing
<1>7. ASSUME NEW p \in Procs, RemoveFile(p) PROVE (RemoverOwns /\ NewestLaunchKept)'
  <2>1. RemoverOwns'
    <3>1. \A q \in Procs : q # p => proc[q].pc # "remove"
      BY <1>7 DEF RemoveFile, TypeOK, Holding
    <3> QED BY <1>7, <3>1 DEF RemoveFile, SetFile, Return, Idle, TypeOK, RemoverOwns, Removing
  <2>2. NewestLaunchKept'
    <3> DEFINE b == proc[p].b
    <3>1. b \in Backends /\ <<b, RunID(file[b])>> \in stopped
      BY <1>7 DEF RemoveFile, TypeOK, RemoverOwns, Removing, Owned
    <3>2. ASSUME latest[b] # NoRun, <<b, latest[b]>> \notin stopped PROVE FALSE
      <4>1. file[b].run = latest[b]
        <5>1. file[b] = [kind |-> "valid", run |-> latest[b]]
          BY <3>1, <3>2 DEF NewestLaunchKept
        <5> QED BY <5>1
      <4>2. RunID(file[b]) = latest[b]
        BY <3>1, <3>2, <4>1, RunsAssumption DEF RunID, TypeOK
      <4> QED BY <3>1, <3>2, <4>2
    <3>3. /\ file' = [file EXCEPT ![b] = NoFile]
          /\ latest' = latest /\ stopped' = stopped
      BY <1>7 DEF RemoveFile, SetFile
    <3> QED BY <3>1, <3>2, <3>3 DEF NewestLaunchKept, TypeOK
  <2> QED BY <2>1, <2>2
<1>8. ASSUME NEW p \in Procs, Fail(p) PROVE (RemoverOwns /\ NewestLaunchKept)'
  BY <1>8 DEF Fail, Return, Idle, DirUnchanged, TypeOK, RemoverOwns,
              NewestLaunchKept, Removing
<1>9. CASE UNCHANGED vars
  BY <1>9 DEF vars, RemoverOwns, NewestLaunchKept
<1> QED BY <1>1, <1>2, <1>3, <1>4, <1>5, <1>6, <1>7, <1>8, <1>9 DEF Next, Write, Remove

(* Every variable keeps its type, and a file is changed only under the     *)
(* lock, whoever fails or is killed while holding it.                      *)
THEOREM TypeCorrect == Spec => []TypeOK
<1>1. Init => TypeOK
  BY InitInv DEF IInv
<1>2. TypeOK /\ [Next]_vars => TypeOK'
  BY TypeStep
<1> QED BY <1>1, <1>2, PTL DEF Spec

(* A late stop never deletes the registration of a newer run, however many *)
(* launchers, backends and runs there are: Write and Remove hold the lock  *)
(* from their first look at a file to their change of it.                  *)
THEOREM NewestLaunchIsKept == Spec => []NewestLaunchKept
<1>1. Init => IInv
  BY InitInv
<1>2. IInv /\ [Next]_vars => IInv'
  BY TypeStep, KeptStep DEF IInv
<1>3. IInv => NewestLaunchKept
  BY DEF IInv
<1> QED BY <1>1, <1>2, <1>3, PTL DEF Spec

-----------------------------------------------------------------------------
(* A directory that LoadDir is reading: what was valid at ReadDir and was  *)
(* not removed since is valid now, and is read or still to be read.        *)
SteadyIsLoaded ==
    \A b \in steady :
        /\ Valid(file[b])
        /\ \/ load.pc = "read" /\ b \in load.names
           \/ \E x \in load.valid : x[1] = b

(* Only Rename and RemoveFile change a file: the one leaves it valid, the  *)
(* other ends its being steady.                                            *)
LEMMA SteadyStep == TypeOK /\ SteadyIsLoaded /\ [Next]_vars => SteadyIsLoaded'
<1> SUFFICES ASSUME TypeOK, SteadyIsLoaded, [Next]_vars PROVE SteadyIsLoaded'
  OBVIOUS
<1>1. CASE ReadDir
  BY <1>1 DEF ReadDir, Present, WithValid, Valid, NoFile, SteadyIsLoaded
<1>2. ASSUME NEW c \in Backends, ReadOne(c) PROVE SteadyIsLoaded'
  <2>1. UNCHANGED <<file, steady>> /\ load'.pc = "read" /\ load'.names = load.names \ {c}
    BY <1>2 DEF ReadOne, TypeOK
  <2>2. load.valid \subseteq load'.valid
    BY <1>2 DEF ReadOne, TypeOK
  <2>3. Valid(file[c]) => <<c, RunID(file[c])>> \in load'.valid
    BY <1>2 DEF ReadOne, TypeOK
  <2>4. ASSUME NEW b \in steady
        PROVE  \/ b \in load'.names
               \/ \E x \in load'.valid : x[1] = b
    <3>1. CASE b = c
      <4>1. <<b, RunID(file[b])>>[1] = b
        OBVIOUS
      <4> QED BY <2>3, <2>4, <3>1, <4>1 DEF SteadyIsLoaded
    <3>2. CASE b # c
      BY <2>1, <2>2, <2>4, <3>2 DEF SteadyIsLoaded
    <3> QED BY <3>1, <3>2
  <2> QED BY <2>1, <2>4 DEF SteadyIsLoaded
<1>3. CASE LoadReturns
  BY <1>3 DEF LoadReturns, SteadyIsLoaded, TypeOK
<1>4. ASSUME NEW p \in Procs, Rename(p) PROVE SteadyIsLoaded'
  BY <1>4 DEF Rename, SetFile, Valid, NoFile, SteadyIsLoaded, TypeOK
<1>5. ASSUME NEW p \in Procs, RemoveFile(p) PROVE SteadyIsLoaded'
  BY <1>5 DEF RemoveFile, SetFile, SteadyIsLoaded, TypeOK
<1>6. ASSUME NEW p \in Procs,
             \/ Begin(p) \/ WriteLock(p) \/ WriteTemp(p) \/ RemoveStat(p)
             \/ RemoveLock(p) \/ RemoveRead(p) \/ Fail(p)
      PROVE  SteadyIsLoaded'
  <2>1. UNCHANGED <<file, load, steady>>
    BY <1>6 DEF Begin, BeginWrite, BeginRemove, WriteLock, WriteTemp, WriteHidden,
                RemoveStat, RemoveLock, RemoveRead, Fail, Lock, DirUnchanged
  <2> QED BY <2>1 DEF SteadyIsLoaded
<1>7. CASE UNCHANGED vars
  BY <1>7 DEF vars, SteadyIsLoaded
<1> QED BY <1>1, <1>2, <1>3, <1>4, <1>5, <1>6, <1>7 DEF Next, LoadDir, Write, Remove

(* LoadDir, which takes no lock, never misses an arm that is registered    *)
(* all the while, however often it is registered anew.                     *)
THEOREM LoadDirNeverBlinks == Spec => []NeverBlinks
<1>1. Init => TypeOK /\ SteadyIsLoaded
  BY InitInv DEF IInv, Init, SteadyIsLoaded
<1>2. TypeOK /\ SteadyIsLoaded /\ [Next]_vars => (TypeOK /\ SteadyIsLoaded)'
  BY TypeStep, SteadyStep
<1>3. SteadyIsLoaded => NeverBlinks
  BY DEF SteadyIsLoaded, NeverBlinks
<1> QED BY <1>1, <1>2, <1>3, PTL DEF Spec

-----------------------------------------------------------------------------
(* The directory at the start is a registry with nobody inside a call. *)
LEMMA RegistryInit == Init => R!Init
<1> SUFFICES ASSUME Init PROVE R!Init
  OBVIOUS
<1>1. \A b \in Backends : Owner(file[b]) \in Runs \cup {Static} \cup {NoRun, "nobody"}
  BY FoundAssumption DEF Init, Owner, RunID, File
<1>2. \A p \in Procs : Call(proc[p]) = NoCall
  BY DEF Init, Idle, Call
<1> QED BY <1>1, <1>2 DEF R!Init

(* A step of the directory is one of the registry, or none. *)
LEMMA RegistryStep == IInv /\ [Next]_vars => [R!Next]_(R!vars)
<1> DEFINE own == [b \in Backends |-> Owner(file[b])]
           cal == [p \in Procs |-> Call(proc[p])]
<1> SUFFICES ASSUME IInv, [Next]_vars PROVE [R!Next]_(R!vars)
  OBVIOUS
<1> USE DEF IInv
<1>1. CASE UNCHANGED <<file, proc>>
  BY <1>1 DEF R!vars
<1>2. ASSUME NEW p \in Procs, Begin(p) PROVE R!Next
  <2>1. PICK b \in Backends, r \in Runs \cup {Static} :
            BeginWrite(p, b, r) \/ BeginRemove(p, b, r)
    BY <1>2 DEF Begin
  <2> DEFINE c == [op |-> IF proc'[p].pc = "wlock" THEN "register" ELSE "deregister",
                   b |-> b, r |-> r]
  <2>2. c \in R!Calls
    BY DEF R!Calls
  <2>3. Call(proc[p]) = NoCall /\ Call(proc'[p]) = c
    BY <2>1 DEF BeginWrite, BeginRemove, Call, TypeOK
  <2>4. cal' = [cal EXCEPT ![p] = c] /\ own' = own
    BY <2>1, <2>3 DEF BeginWrite, BeginRemove, DirUnchanged, TypeOK
  <2> QED BY <2>2, <2>3, <2>4 DEF R!Next, R!Invoke
<1>3. ASSUME NEW p \in Procs, NEW pc \in {"temp", "rename"},
             proc[p].pc \in {"wlock", "temp"}, Goto(p, pc), UNCHANGED file
      PROVE  UNCHANGED R!vars
  <2>1. Call(proc'[p]) = Call(proc[p])
    BY <1>3 DEF Goto, Call, TypeOK, ProcState
  <2> QED BY <1>3, <2>1 DEF Goto, TypeOK, R!vars
<1>4. ASSUME NEW p \in Procs, NEW pc \in {"rlock", "read", "remove"},
             proc[p].pc \in Removing, Goto(p, pc), UNCHANGED file
      PROVE  UNCHANGED R!vars
  <2>1. Call(proc'[p]) = Call(proc[p])
    BY <1>4 DEF Goto, Call, TypeOK, ProcState, Removing
  <2> QED BY <1>4, <2>1 DEF Goto, TypeOK, R!vars
<1>5. ASSUME NEW p \in Procs, proc[p].pc # "idle", proc' = [proc EXCEPT ![p] = Idle]
      PROVE  /\ cal' = [cal EXCEPT ![p] = NoCall]
             /\ cal[p] # NoCall /\ cal[p] = Call(proc[p])
             /\ cal[p].b = proc[p].b /\ cal[p].r = proc[p].r
             /\ cal[p].op = IF proc[p].pc \in {"wlock", "temp", "rename"}
                            THEN "register" ELSE "deregister"
  <2>1. Call(proc'[p]) = NoCall /\ Call(proc[p]).op # "none"
    BY <1>5 DEF Idle, Call, TypeOK
  <2> QED BY <1>5, <2>1 DEF Call, NoCall, TypeOK
<1>6. ASSUME NEW p \in Procs, proc[p].pc # "idle", proc' = [proc EXCEPT ![p] = Idle],
             UNCHANGED file
      PROVE  R!Next
  BY <1>5, <1>6 DEF R!Next, R!Refuse, R!Return
<1>7. ASSUME NEW p \in Procs, Rename(p) PROVE R!Next
  <2> DEFINE b == proc[p].b
             r == proc[p].r
  <2>1. b \in Backends /\ r \in Runs \cup {Static}
    BY <1>7 DEF Rename, TypeOK, ProcState
  <2>2. Owner([kind |-> "valid", run |-> r]) = r
    BY <2>1, RunsAssumption DEF Owner, RunID, NoFile, NoRunID, Static
  <2>3. own' = [own EXCEPT ![b] = r]
    BY <1>7, <2>1, <2>2 DEF Rename, SetFile, TypeOK
  <2>4. proc[p].pc = "rename" /\ proc' = [proc EXCEPT ![p] = Idle]
    BY <1>7 DEF Rename, Return
  <2> QED BY <1>5, <2>3, <2>4 DEF R!Next, R!Register, R!Return
<1>8. ASSUME NEW p \in Procs, RemoveFile(p) PROVE R!Next
  <2> DEFINE b == proc[p].b
             r == proc[p].r
  <2>1. b \in Backends /\ proc[p].pc = "remove" /\ proc' = [proc EXCEPT ![p] = Idle]
    BY <1>8 DEF RemoveFile, Return, TypeOK
  <2>2. own[b] = r
    BY <2>1 DEF RemoverOwns, Owned, Owner
  <2>3. Owner(NoFile) = NoRun
    BY DEF Owner
  <2>4. own' = [own EXCEPT ![b] = NoRun]
    BY <1>8, <2>1, <2>3 DEF RemoveFile, SetFile, TypeOK
  <2>5. R!Deregister(p)
    BY <1>5, <2>1, <2>2, <2>4 DEF R!Deregister, R!Return
  <2> QED BY <2>5 DEF R!Next
<1>9. ASSUME NEW p \in Procs, Write(p) \/ Remove(p) \/ Fail(p) PROVE [R!Next]_(R!vars)
  <2>1. CASE WriteLock(p)
    BY <1>3, <2>1 DEF WriteLock, Lock, DirUnchanged
  <2>2. CASE WriteTemp(p)
    BY <1>3, <2>2 DEF WriteTemp, WriteHidden, DirUnchanged
  <2>3. CASE RemoveStat(p)
    BY <1>4, <1>6, <2>3 DEF RemoveStat, DirUnchanged, Return, Removing
  <2>4. CASE RemoveLock(p)
    BY <1>4, <2>4 DEF RemoveLock, Lock, DirUnchanged, Removing
  <2>5. CASE RemoveRead(p)
    BY <1>4, <1>6, <2>5 DEF RemoveRead, DirUnchanged, Return, Removing
  <2>6. CASE Fail(p)
    BY <1>6, <2>6 DEF Fail, DirUnchanged, Return
  <2> QED BY <1>7, <1>8, <1>9, <2>1, <2>2, <2>3, <2>4, <2>5, <2>6 DEF Write, Remove
<1>10. LoadDir => UNCHANGED <<file, proc>>
  BY DEF LoadDir, ReadDir, ReadOne, LoadReturns
<1> QED BY <1>1, <1>2, <1>9, <1>10 DEF Next, vars

(* The directory implements the Registry: for any launchers, backends and  *)
(* runs, Write and Remove behave as if each took effect at one instant, or *)
(* not at all.                                                             *)
THEOREM ImplementsRegistry == Spec => IsRegistry
<1>1. Init => IInv /\ R!Init
  BY InitInv, RegistryInit
<1>2. IInv /\ [Next]_vars => IInv'
  BY TypeStep, KeptStep DEF IInv
<1>3. IInv /\ [Next]_vars => [R!Next]_(R!vars)
  BY RegistryStep
<1> QED BY <1>1, <1>2, <1>3, PTL DEF Spec, IsRegistry, R!Spec
=============================================================================
