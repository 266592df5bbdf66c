------------------------------- MODULE Exporter -------------------------------
(***************************************************************************)
(* The life of the process: serve in cmd/llm-metrics-exporter/main.go,     *)
(* around the collector of module Collector.                               *)
(*                                                                         *)
(* Scrapes come from HTTP handlers, one per connection, and from the       *)
(* goroutine that runs Sender.Run, whose Gather is a scrape too; c.mu      *)
(* serialises them with each other and with Close.  serve leaves its       *)
(* select when it is told to stop or when the server has failed, and its   *)
(* deferred calls then run in reverse order: cancel and join Run, close    *)
(* the sender, close the collector.  Nothing joins a handler but           *)
(* Shutdown, and that for a limited time only.                             *)
(*                                                                         *)
(* c.mu is free when the collector's pc is "idle": a thread in "scrape"    *)
(* holds it, or main inside Close.  Collection and delivery by Run are     *)
(* those of module RemoteWrite and not repeated here.                      *)
(***************************************************************************)
EXTENDS Integers

CONSTANTS
    Backends, Regs, ArmIds, MaxErrors,  \* of Collector
    Conns                               \* client connections

VARIABLES
    valid, arms, retired, heap, pc, todo, cur, wait, failures,  \* of Collector
    main,    \* where serve is
    code,    \* what it returns
    told,    \* ctx of signal.NotifyContext is done
    server,  \* the listener of srv
    conn,    \* per connection: what its goroutine does
    run,     \* the goroutine of Sender.Run
    queue    \* the flock of the queue directory, which Sender.Close releases

C == INSTANCE Collector

ASSUME CollectorAssumption ==
    /\ MaxErrors \in Nat /\ Backends # {}
    /\ C!NoArm \notin ArmIds /\ C!NoReg \notin Regs

collector == <<valid, arms, retired, heap, pc, todo, cur, wait, failures>>
process == <<main, code, told, server>>
vars == <<collector, process, conn, run, queue>>

Init ==
    /\ C!Init
    /\ main = "start" /\ code = "none" /\ told = FALSE /\ server = "none"
    /\ conn = [h \in Conns |-> "none"]
    /\ run = "off" /\ queue = "none"

Running == main # "exit"

-----------------------------------------------------------------------------
(* serve, up to its select.                                                *)

(* Flags that are not valid, or a registration directory that cannot be    *)
(* made: nothing has been built yet.                                       *)
Refuse ==
    /\ main = "start"
    /\ main' = "exit" /\ code' \in {"usage", "error"}
    /\ UNCHANGED <<collector, told, server, conn, run, queue>>

(* remotewrite.New fails: only the collector's Close is deferred. *)
SenderFails ==
    /\ main = "start"
    /\ main' = "close" /\ code' = "error"
    /\ UNCHANGED <<collector, told, server, conn, run, queue>>

Start ==
    /\ main = "start"
    /\ main' = "serve" /\ server' = "up"
    /\ \/ UNCHANGED <<run, queue>>
       \/ run' = "loop" /\ queue' = "locked"
    /\ UNCHANGED <<collector, code, told, conn>>

(* SIGINT or SIGTERM, while NotifyContext catches them. *)
Signal ==
    /\ main \in {"serve", "shutdown", "join"} /\ ~told
    /\ told' = TRUE
    /\ UNCHANGED <<collector, main, code, server, conn, run, queue>>

(* ListenAndServe returns an error.  It closes no connection. *)
ServerFails ==
    /\ server = "up" /\ Running
    /\ server' = "failed"
    /\ UNCHANGED <<collector, main, code, told, conn, run, queue>>

-----------------------------------------------------------------------------
(* The goroutines of net/http.                                             *)

Accept(h) ==
    /\ server = "up" /\ Running /\ conn[h] = "none"
    /\ conn' = [conn EXCEPT ![h] = "open"]
    /\ UNCHANGED <<collector, process, run, queue>>

(* A request for /metrics, also on a connection that is kept alive after   *)
(* the listener has failed.                                                *)
Request(h) ==
    /\ Running /\ conn[h] = "open"
    /\ conn' = [conn EXCEPT ![h] = "wait"]
    /\ UNCHANGED <<collector, process, run, queue>>

HandlerLocks(h) ==
    /\ Running /\ conn[h] = "wait"
    /\ C!BeginScrape
    /\ conn' = [conn EXCEPT ![h] = "scrape"]
    /\ UNCHANGED <<process, run, queue>>

(* The client has read the response.  Shutdown ends keep-alive. *)
Respond(h) ==
    /\ Running /\ conn[h] = "write"
    /\ conn' = [conn EXCEPT ![h] = IF server = "closed" THEN "none" ELSE "open"]
    /\ UNCHANGED <<collector, process, run, queue>>

-----------------------------------------------------------------------------
(* A step of the scrape in progress; the last one unlocks c.mu. *)
Scrape ==
    /\ Running /\ C!Scraper /\ pc # "close"
    /\ IF pc' = "idle"
       THEN /\ conn' = [h \in Conns |-> IF conn[h] = "scrape" THEN "write" ELSE conn[h]]
            /\ run' = IF run = "scrape" THEN "loop" ELSE run
       ELSE UNCHANGED <<conn, run>>
    /\ UNCHANGED <<process, queue>>

Worker(i) ==
    /\ Running /\ C!WorkerReturns(i)
    /\ UNCHANGED <<process, conn, run, queue>>

-----------------------------------------------------------------------------
(* Sender.Run.                                                             *)

(* mutant: the deferred function joins Run without cancelling it *)
Told == told

(* rwctx is done: serve was told to stop, or has called cancel. *)
Cancelled == told \/ main \in {"join", "release", "close", "return"}

RunCollects ==
    /\ Running /\ run = "loop" /\ ~Cancelled
    /\ run' = "wait"
    /\ UNCHANGED <<collector, process, conn, queue>>

RunLocks ==
    /\ Running /\ run = "wait"
    /\ C!BeginScrape
    /\ run' = "scrape"
    /\ UNCHANGED <<process, conn, queue>>

(* The loop ends; then the final snapshot and one attempt to send. *)
RunEnds ==
    /\ Running
    /\ \/ run = "loop" /\ Cancelled /\ run' = "flush"
       \/ run = "flush" /\ run' = "done"
    /\ UNCHANGED <<collector, process, conn, queue>>

-----------------------------------------------------------------------------
(* serve, after its select.                                                *)

ServerStopped ==
    /\ main = "serve" /\ server = "failed"
    /\ main' = "join" /\ code' = "error"
    /\ UNCHANGED <<collector, told, server, conn, run, queue>>

(* Shutdown closes the listener and the idle connections ... *)
BeginShutdown ==
    /\ main = "serve" /\ told
    /\ main' = "shutdown" /\ server' = "closed"
    /\ conn' = [h \in Conns |-> IF conn[h] = "open" THEN "none" ELSE conn[h]]
    /\ UNCHANGED <<collector, code, told, run, queue>>

(* mutant: Shutdown returns once nothing is accepted any more *)
NotAccepting == server = "closed"

(* ... and waits until no connection is active. *)
Drained == \A h \in Conns : conn[h] = "none"

(* It returns nil when that is so, and an error after ten seconds. *)
ShutdownReturns ==
    /\ main = "shutdown"
    /\ main' = "join"
    /\ \/ Drained /\ code' = "ok"
       \/ ~Drained /\ code' = "error"
    /\ UNCHANGED <<collector, told, server, conn, run, queue>>

(* mutant: Run is cancelled and left to itself *)
LeftRunning == TRUE

RunReturned == run \in {"off", "done"}

(* cancel(); <-done *)
Join ==
    /\ main = "join" /\ RunReturned
    /\ main' = "release"
    /\ UNCHANGED <<collector, code, told, server, conn, run, queue>>

CloseSender ==
    /\ main = "release"
    /\ main' = "close"
    /\ queue' = IF queue = "locked" THEN "released" ELSE queue
    /\ UNCHANGED <<collector, code, told, server, conn, run>>

CloseLocks ==
    /\ main = "close"
    /\ C!BeginClose
    /\ UNCHANGED <<process, conn, run, queue>>

CloseArms ==
    /\ main = "close" /\ pc = "close"
    /\ \/ \E b \in Backends : C!DropArm(b) /\ UNCHANGED main
       \/ C!CloseReturns /\ main' = "return"
    /\ UNCHANGED <<code, told, server, conn, run, queue>>

(* os.Exit *)
Exit ==
    /\ main = "return"
    /\ main' = "exit"
    /\ UNCHANGED <<collector, code, told, server, conn, run, queue>>

Ended == main = "exit" /\ UNCHANGED vars

-----------------------------------------------------------------------------
Main ==
    \/ Start \/ SenderFails \/ Refuse
    \/ ServerStopped \/ BeginShutdown \/ ShutdownReturns \/ Join \/ CloseSender
    \/ CloseArms \/ Exit

Next ==
    \/ Main \/ CloseLocks \/ Signal \/ ServerFails \/ Ended
    \/ Scrape \/ RunCollects \/ RunLocks \/ RunEnds
    \/ \E h \in Conns : Accept(h) \/ Request(h) \/ HandlerLocks(h) \/ Respond(h)
    \/ \E i \in ArmIds : Worker(i)

Spec == Init /\ [][Next]_vars

(* Goroutines run and a scrape ends by its timeouts.  A sync.Mutex that is *)
(* contended is handed to whoever has waited longest, so main and Run get  *)
(* c.mu although other scrapes keep coming.  Nothing is assumed of         *)
(* clients, who may never read a response, nor of workers.                 *)
FairSpec ==
    /\ Spec
    /\ WF_vars(Main) /\ WF_vars(Scrape) /\ WF_vars(RunEnds)
    /\ SF_vars(CloseLocks) /\ SF_vars(RunLocks)

-----------------------------------------------------------------------------
(* A clean stop leaves nothing behind: when serve returns 0, every request *)
(* it accepted has been answered, no scrape is in progress or still to     *)
(* come, and every adapter has been closed but those that a hung worker    *)
(* will close.                                                             *)
CleanExit ==
    code = "ok" /\ main \in {"return", "exit"} =>
        /\ \A h \in Conns : conn[h] = "none"
        /\ pc = "idle" /\ RunReturned
        /\ \A i \in ArmIds : heap[i].ad = "open" => heap[i].calls > 0 /\ heap[i].closed

(* On every way out of serve, by a signal, a failed server or a shutdown   *)
(* that took too long, Run has made its last snapshot and its attempt to   *)
(* send before the queue directory is given up to another process and      *)
(* before the process ends.                                                *)
FlushesBeforeExit ==
    queue # "none" /\ (queue = "released" \/ main \in {"close", "return", "exit"}) => run = "done"

(* serve returns once it is told to stop or its server has failed, whoever *)
(* is scraping, hanging or not reading its response.                       *)
ServeReturns == told \/ server = "failed" ~> main = "exit"
=============================================================================
