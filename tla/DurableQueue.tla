----------------------------- MODULE DurableQueue -----------------------------
(***************************************************************************)
(* What the remote-write queue promises, with no files, threads or locks:  *)
(* batches are accepted in the order of their timestamps, only the oldest  *)
(* is transmitted, and only the oldest leaves.  A crash undoes at most the *)
(* one change that was not yet durable, the acceptance of the newest batch *)
(* or the departure of the oldest, and a batch is transmitted only once no *)
(* crash can take it away.                                                 *)
(***************************************************************************)
EXTENDS Integers

CONSTANTS
    Batches,     \* what may be accepted; .ts is the timestamp
    Nothing      \* nothing has been transmitted yet

VARIABLES
    queue,       \* the batches that are waiting
    survivors,   \* the queues a crash may leave
    out          \* the last batch that was transmitted

vars == <<queue, survivors, out>>

IsOldest(b, q) == b \in q /\ \A c \in q : b.ts <= c.ts

Init == queue = {} /\ survivors = {{}} /\ out = Nothing

Durable == survivors = {queue}

Change(q) == queue' = q /\ survivors' = {queue, q} /\ UNCHANGED out

Accept(b) ==
    /\ Durable
    /\ b.ts > out.ts /\ \A c \in queue : b.ts > c.ts
    /\ Change(queue \cup {b})

Depart(b) ==
    /\ Durable
    /\ IsOldest(b, queue)
    /\ Change(queue \ {b})

Commit == survivors' = {queue} /\ UNCHANGED <<queue, out>>

Transmit(b) ==
    /\ \A q \in survivors : IsOldest(b, q)
    /\ b.ts >= out.ts
    /\ out' = b
    /\ UNCHANGED <<queue, survivors>>

Crash == \E q \in survivors : queue' = q /\ survivors' = {q} /\ UNCHANGED out

(* The batch that is accepted is whichever is new. *)
Next ==
    \/ Commit \/ Crash
    \/ \E b \in queue' \ queue : b \in Batches /\ Accept(b)
    \/ \E b \in queue : Depart(b) \/ Transmit(b)

Spec == Init /\ [][Next]_vars
=============================================================================
