------------------------------- MODULE Registry -------------------------------
(***************************************************************************)
(* What launchers are promised by the registration directory, with no      *)
(* lock, no files and no steps in between: each backend has one owner, the *)
(* run of its newest register; deregister takes the owner away only if it  *)
(* is the run it names; and a call has its effect at once and at most      *)
(* once, or returns with none.                                             *)
(***************************************************************************)
CONSTANTS
    Procs,       \* the launchers
    Backends,
    RunIDs,
    Vacant,      \* no registration
    Nobody,      \* a file no run can claim
    NoCall       \* a launcher that is not inside a call

VARIABLES
    owner,       \* the run each backend is registered to
    call         \* the call each launcher is inside

vars == <<owner, call>>

Calls == [op : {"register", "deregister"}, b : Backends, r : RunIDs]

Init ==
    /\ owner \in [Backends -> RunIDs \cup {Vacant, Nobody}]
    /\ call = [p \in Procs |-> NoCall]

Invoke(p) ==
    /\ call[p] = NoCall
    /\ \E c \in Calls : call' = [call EXCEPT ![p] = c]
    /\ UNCHANGED owner

Return(p) == call' = [call EXCEPT ![p] = NoCall]

(* The newest launch is the arm that is running. *)
Register(p) ==
    /\ call[p] # NoCall /\ call[p].op = "register"
    /\ owner' = [owner EXCEPT ![call[p].b] = call[p].r]
    /\ Return(p)

(* Compare and delete, in one step. *)
Deregister(p) ==
    /\ call[p] # NoCall /\ call[p].op = "deregister"
    /\ owner[call[p].b] = call[p].r
    /\ owner' = [owner EXCEPT ![call[p].b] = Vacant]
    /\ Return(p)

(* Another run owns the backend, nobody does, or a system call failed. *)
Refuse(p) ==
    /\ call[p] # NoCall
    /\ Return(p)
    /\ UNCHANGED owner

Next == \E p \in Procs : Invoke(p) \/ Register(p) \/ Deregister(p) \/ Refuse(p)

Spec == Init /\ [][Next]_vars
=============================================================================
