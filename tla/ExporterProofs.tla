---------------------------- MODULE ExporterProofs ----------------------------
(***************************************************************************)
(* serve and the collector together, for any number of connections,        *)
(* backends, registrations and arms.                                       *)
(*                                                                         *)
(* Every step of the process is a step of Collector or leaves it alone, so *)
(* the invariant of CollectorProofs holds inside of serve.  To it come who *)
(* holds c.mu (Mutex), the order of the deferred calls (Order), and what a *)
(* Shutdown without error means for what follows (Stopped).                *)
(***************************************************************************)
EXTENDS Exporter, TLAPS

CP == INSTANCE CollectorProofs

Scraping == {"retire", "sync", "drop", "collect"}

Mutex ==
    /\ pc \in Scraping => run = "scrape" \/ \E h \in Conns : conn[h] = "scrape"
    /\ pc = "close" => main = "close" /\ \A b \in Backends \ todo : arms[b] = CP!NoArm

Order ==
    /\ main = "start" => run = "off"
    /\ run = "off" <=> queue = "none"
    /\ main \in {"release", "close", "return", "exit"} => RunReturned
    /\ queue = "released" => main \in {"close", "return", "exit"}

Stopped ==
    /\ conn \in [Conns -> {"none", "open", "wait", "scrape", "write"}]
    /\ main = "shutdown" => server = "closed"
    /\ main \in {"start", "serve", "shutdown"} => code = "none"
    /\ code = "ok" => server = "closed" /\ Drained
    /\ code = "ok" /\ main \in {"return", "exit"} =>
          pc = "idle" /\ \A b \in Backends : arms[b] = CP!NoArm

IInv == CP!IInv /\ Mutex /\ Order /\ Stopped

(* The instance of Collector in Exporter and the one its proofs speak of   *)
(* are the same.                                                           *)
LEMMA SameActions ==
    /\ C!BeginScrape <=> CP!BeginScrape
    /\ C!BeginClose <=> CP!BeginClose
    /\ C!CloseReturns <=> CP!CloseReturns
    /\ C!Scraper <=> CP!Scraper
    /\ \A b : C!DropArm(b) <=> CP!DropArm(b)
    /\ \A i : C!WorkerReturns(i) <=> CP!WorkerReturns(i)
  BY Zenon
  DEF C!NoReg, CP!NoReg, C!NoArm, CP!NoArm, C!CloseAd, CP!CloseAd,
      C!OneMore, CP!OneMore, C!Keys, CP!Keys, C!Reachable,
      CP!Reachable, C!Collected, CP!Collected, C!Free, CP!Free,
      C!BeginScrape, CP!BeginScrape, C!Retire, CP!Retire, C!Place,
      CP!Place, C!SyncRetired, CP!SyncRetired, C!Current, CP!Current,
      C!CloseArm, CP!CloseArm, C!SyncArm, CP!SyncArm, C!StillBusy,
      CP!StillBusy, C!SyncReplace, CP!SyncReplace, C!SyncDone,
      CP!SyncDone, C!DropArm, CP!DropArm, C!DropDone, CP!DropDone,
      C!MayCollect, CP!MayCollect, C!CollectArm, CP!CollectArm,
      C!WorkerReturns, CP!WorkerReturns, C!WaitEnds, CP!WaitEnds,
      C!Report, CP!Report, C!BeginClose, CP!BeginClose,
      C!CloseReturns, CP!CloseReturns, C!Scraper, CP!Scraper

(* Every step of the process is a step of the collector, or none of it. *)
LEMMA CollectorStep == [Next]_vars => [CP!Next]_(CP!vars)
<1> SUFFICES ASSUME [Next]_vars PROVE [CP!Next]_(CP!vars)
  OBVIOUS
<1>1. ASSUME UNCHANGED collector PROVE [CP!Next]_(CP!vars)
  BY <1>1 DEF collector, CP!vars
<1>2. CASE Main
  <2>1. CASE CloseArms
    BY <2>1, SameActions DEF CloseArms, CP!Next, CP!Scraper
  <2> QED BY <1>1, <1>2, <2>1 DEF Main, Start, SenderFails, Refuse, ServerStopped,
             BeginShutdown, ShutdownReturns, Join, CloseSender, Exit
<1>3. CASE CloseLocks \/ Scrape \/ RunLocks
  BY <1>3, SameActions DEF CloseLocks, Scrape, RunLocks, CP!Next
<1>4. ASSUME NEW h \in Conns, Accept(h) \/ Request(h) \/ HandlerLocks(h) \/ Respond(h)
      PROVE  [CP!Next]_(CP!vars)
  BY <1>1, <1>4, SameActions DEF Accept, Request, HandlerLocks, Respond, CP!Next
<1>5. ASSUME NEW i \in ArmIds, Worker(i) PROVE [CP!Next]_(CP!vars)
  BY <1>5, SameActions DEF Worker, CP!Next
<1>6. CASE Signal \/ ServerFails \/ RunCollects \/ RunEnds \/ Ended \/ UNCHANGED vars
  BY <1>1, <1>6 DEF Signal, ServerFails, RunCollects, RunEnds, Ended, vars
<1> QED BY <1>2, <1>3, <1>4, <1>5, <1>6 DEF Next

(* What the collector knows of its arms holds inside of serve too. *)
LEMMA ArmsInit == Init => CP!IInv
<1>1. CP!Init => CP!IInv
  BY CP!InitInv, CollectorAssumption DEF C!NoArm, C!NoReg, CP!NoArm, CP!NoReg
<1>2. C!Init => CP!Init
  BY Zenon DEF C!Init, CP!Init, C!NoReg, CP!NoReg, C!NoArm, CP!NoArm, C!Free, CP!Free
<1> QED BY <1>1, <1>2 DEF Init

LEMMA ArmsStep == CP!IInv /\ [Next]_vars => CP!IInv'
<1>1. CP!IInv /\ [CP!Next]_(CP!vars) => CP!Core'
  BY CP!CoreStep, CollectorAssumption DEF C!NoArm, C!NoReg, CP!NoArm, CP!NoReg
<1>2. CP!IInv /\ [CP!Next]_(CP!vars) => (CP!CurClosed /\ CP!TodoMapped)'
  BY CP!LoopStep, CollectorAssumption DEF C!NoArm, C!NoReg, CP!NoArm, CP!NoReg
<1> QED BY <1>1, <1>2, CollectorStep DEF CP!IInv

(* The steps of a scrape: pc comes from a scrape and stays in it or ends it. *)
LEMMA ScraperMoves ==
    CP!Scraper /\ pc # "close" => pc \in Scraping /\ pc' \in Scraping \cup {"idle"}
  BY DEF Scraping, CP!Scraper, CP!Retire, CP!SyncDone, CP!DropDone, CP!Report,
         CP!SyncRetired, CP!SyncArm, CP!SyncReplace, CP!DropArm, CP!CollectArm,
         CP!WaitEnds

(* Who holds c.mu. *)
LEMMA MutexStep == IInv /\ [Next]_vars => Mutex'
<1> SUFFICES ASSUME IInv, [Next]_vars PROVE Mutex'
  OBVIOUS
<1> USE DEF IInv
<1>1. ASSUME UNCHANGED <<pc, arms, todo>>, pc = "close" => main' = main,
             run = "scrape" => run' = "scrape",
             \A h \in Conns : conn[h] = "scrape" => conn'[h] = "scrape"
      PROVE  Mutex'
  BY <1>1 DEF Mutex
<1>2. CASE \/ Start \/ SenderFails \/ Refuse \/ ServerStopped \/ ShutdownReturns
           \/ Join \/ CloseSender \/ Exit \/ Signal \/ ServerFails \/ RunCollects
           \/ RunEnds \/ Ended \/ UNCHANGED vars
  <2>1. UNCHANGED <<pc, arms, todo, conn>>
    BY <1>2 DEF Start, SenderFails, Refuse, ServerStopped, ShutdownReturns, Join,
                CloseSender, Exit, Signal, ServerFails, RunCollects, RunEnds, Ended,
                vars, collector
  <2>2. (pc = "close" => main' = main) /\ (run = "scrape" => run' = "scrape")
    BY <1>2 DEF Start, SenderFails, Refuse, ServerStopped, ShutdownReturns, Join,
                CloseSender, Exit, Signal, ServerFails, RunCollects, RunEnds, Ended,
                vars, process, Mutex, Order
  <2> QED BY <1>1, <2>1, <2>2
<1>3. CASE BeginShutdown
  BY <1>1, <1>3 DEF BeginShutdown, collector, Mutex
<1>4. ASSUME NEW h \in Conns, Accept(h) \/ Request(h) \/ Respond(h) PROVE Mutex'
  BY <1>1, <1>4 DEF Accept, Request, Respond, collector, process, Stopped
<1>5. ASSUME NEW h \in Conns, HandlerLocks(h) PROVE Mutex'
  <2>1. pc' = "retire" /\ conn'[h] = "scrape"
    BY <1>5, SameActions DEF HandlerLocks, CP!BeginScrape, Stopped
  <2> QED BY <2>1 DEF Mutex
<1>6. CASE RunLocks
  BY <1>6, SameActions DEF RunLocks, CP!BeginScrape, Mutex
<1>7. CASE Scrape
  <2>1. CP!Scraper /\ pc # "close"
    BY <1>7, SameActions DEF Scrape
  <2>2. CASE pc' = "idle"
    BY <2>2 DEF Mutex, Scraping
  <2>3. CASE pc' # "idle"
    <3>1. pc \in Scraping /\ pc' \in Scraping /\ UNCHANGED <<conn, run>>
      BY <1>7, <2>1, <2>3, ScraperMoves DEF Scrape
    <3> QED BY <3>1 DEF Mutex, Scraping
  <2> QED BY <2>2, <2>3
<1>8. ASSUME NEW i \in ArmIds, Worker(i) PROVE Mutex'
  BY <1>1, <1>8, SameActions DEF Worker, CP!WorkerReturns, process
<1>9. CASE CloseLocks
  <2>1. /\ pc' = "close" /\ main' = "close" /\ arms' = arms
        /\ todo' = {b \in Backends : arms[b] # CP!NoArm}
    BY <1>9, SameActions DEF CloseLocks, CP!BeginClose, CP!Keys, process
  <2> QED BY <2>1 DEF Mutex, Scraping
<1>10. CASE CloseArms
  <2>1. ASSUME NEW b \in Backends, CP!DropArm(b), UNCHANGED main PROVE Mutex'
    <3>1. /\ pc' = "close" /\ todo' = todo \ {b}
          /\ arms' = [arms EXCEPT ![b] = CP!NoArm] /\ main' = "close"
      BY <1>10, <2>1 DEF CloseArms, CP!DropArm
    <3> QED BY <1>10, <3>1
            DEF CloseArms, Mutex, Scraping, CP!IInv, CP!Core, CP!TypeOK
  <2>2. CASE CP!CloseReturns
    BY <2>2 DEF CP!CloseReturns, Mutex, Scraping
  <2> QED BY <1>10, <2>1, <2>2, SameActions DEF CloseArms
<1> QED BY <1>2, <1>3, <1>4, <1>5, <1>6, <1>7, <1>8, <1>9, <1>10 DEF Next, Main

(* The deferred calls run in order. *)
LEMMA OrderStep == Order /\ [Next]_vars => Order'
<1> SUFFICES ASSUME Order, [Next]_vars PROVE Order'
  OBVIOUS
<1> USE DEF Order, RunReturned
<1>1. CASE Start
  BY <1>1 DEF Start
<1>2. CASE SenderFails \/ Refuse
  BY <1>2 DEF SenderFails, Refuse
<1>3. CASE ServerStopped \/ BeginShutdown \/ ShutdownReturns \/ Join
  BY <1>3 DEF ServerStopped, BeginShutdown, ShutdownReturns, Join
<1>4. CASE CloseSender \/ Exit
  BY <1>4 DEF CloseSender, Exit
<1>5. CASE CloseArms
  BY <1>5 DEF CloseArms
<1>6. CASE CloseLocks \/ Signal \/ ServerFails \/ Ended \/ UNCHANGED vars
  BY <1>6 DEF CloseLocks, Signal, ServerFails, Ended, vars, process
<1>7. CASE Scrape
  BY <1>7 DEF Scrape, process
<1>8. CASE RunCollects \/ RunLocks \/ RunEnds
  BY <1>8 DEF RunCollects, RunLocks, RunEnds, process
<1>9. ASSUME NEW h \in Conns, Accept(h) \/ Request(h) \/ HandlerLocks(h) \/ Respond(h)
      PROVE  Order'
  BY <1>9 DEF Accept, Request, HandlerLocks, Respond, process
<1>10. ASSUME NEW i \in ArmIds, Worker(i) PROVE Order'
  BY <1>10 DEF Worker, process
<1> QED BY <1>1, <1>2, <1>3, <1>4, <1>5, <1>6, <1>7, <1>8, <1>9, <1>10 DEF Next, Main

(* A Shutdown without error leaves no connection, and nothing scrapes      *)
(* after Close.                                                            *)
LEMMA StoppedStep == IInv /\ [Next]_vars => Stopped'
<1> SUFFICES ASSUME IInv, [Next]_vars PROVE Stopped'
  OBVIOUS
<1> USE DEF IInv
<1>1. CASE \/ Start \/ SenderFails \/ Refuse \/ ServerStopped \/ ShutdownReturns \/ Join
           \/ CloseSender \/ Exit \/ Signal \/ ServerFails \/ Ended \/ UNCHANGED vars
  <2>1. UNCHANGED <<conn, pc, arms>>
    BY <1>1 DEF Start, SenderFails, Refuse, ServerStopped, ShutdownReturns, Join,
                CloseSender, Exit, Signal, ServerFails, Ended, vars, collector
  <2>2. CASE Start \/ SenderFails \/ Refuse \/ ServerStopped
    BY <2>1, <2>2 DEF Start, SenderFails, Refuse, ServerStopped, Stopped, Drained
  <2>3. CASE ShutdownReturns \/ Join \/ CloseSender \/ Exit
    BY <2>1, <2>3 DEF ShutdownReturns, Join, CloseSender, Exit, Stopped, Drained
  <2>4. CASE Signal \/ ServerFails \/ Ended \/ UNCHANGED vars
    BY <2>1, <2>4 DEF Signal, ServerFails, Ended, vars, process, Stopped, Drained
  <2> QED BY <1>1, <2>2, <2>3, <2>4
<1>2. CASE BeginShutdown
  BY <1>2 DEF BeginShutdown, collector, Stopped, Drained
<1>3. ASSUME NEW h \in Conns, Accept(h) \/ Request(h) \/ HandlerLocks(h) \/ Respond(h)
      PROVE  Stopped'
  <2>1. code # "ok"
    BY <1>3 DEF Accept, Request, HandlerLocks, Respond, Stopped, Drained
  <2>2. conn' \in [Conns -> {"none", "open", "wait", "scrape", "write"}]
    BY <1>3 DEF Accept, Request, HandlerLocks, Respond, Stopped
  <2>3. UNCHANGED <<main, code, server>>
    BY <1>3 DEF Accept, Request, HandlerLocks, Respond, process
  <2> QED BY <2>1, <2>2, <2>3 DEF Stopped
<1>4. ASSUME NEW i \in ArmIds, Worker(i) PROVE Stopped'
  BY <1>4, SameActions DEF Worker, CP!WorkerReturns, process, Stopped, Drained
<1>5. CASE Scrape
  <2>1. pc \in Scraping
    BY <1>5, SameActions, ScraperMoves DEF Scrape
  <2>2. UNCHANGED <<main, code, server>>
    BY <1>5 DEF Scrape, process
  <2>3. /\ conn' \in [Conns -> {"none", "open", "wait", "scrape", "write"}]
        /\ Drained => Drained'
    BY <1>5 DEF Scrape, Stopped, Drained
  <2> QED BY <2>1, <2>2, <2>3 DEF Stopped, Scraping
<1>6. CASE RunCollects \/ RunLocks \/ RunEnds
  <2>1. UNCHANGED <<main, code, server, conn>>
    BY <1>6 DEF RunCollects, RunLocks, RunEnds, process
  <2>2. CASE RunLocks
    <3>1. main \notin {"return", "exit"}
      BY <2>2 DEF RunLocks, Order, RunReturned
    <3> QED BY <2>1, <3>1 DEF Stopped, Drained
  <2>3. CASE RunCollects \/ RunEnds
    BY <2>1, <2>3 DEF RunCollects, RunEnds, collector, Stopped, Drained
  <2> QED BY <1>6, <2>2, <2>3
<1>7. CASE CloseLocks
  BY <1>7 DEF CloseLocks, process, Stopped, Drained
<1>8. CASE CloseArms
  <2>1. UNCHANGED <<code, server, conn>> /\ main = "close" /\ pc = "close"
    BY <1>8 DEF CloseArms
  <2>2. CASE main' = main
    BY <2>1, <2>2 DEF Stopped, Drained
  <2>3. CASE CP!CloseReturns /\ main' = "return"
    <3>1. pc' = "idle" /\ arms' = arms /\ \A b \in Backends : arms[b] = CP!NoArm
      BY <2>1, <2>3 DEF CP!CloseReturns, Mutex
    <3> QED BY <2>1, <2>3, <3>1 DEF Stopped, Drained
  <2> QED BY <1>8, <2>2, <2>3, SameActions DEF CloseArms
<1> QED BY <1>1, <1>2, <1>3, <1>4, <1>5, <1>6, <1>7, <1>8 DEF Next, Main

(* The invariant of the process. *)
THEOREM Invariant == Spec => []IInv
<1>1. Init => IInv
  BY ArmsInit DEF Init, C!Init, IInv, Mutex, Order, Stopped, Scraping
<1>2. IInv /\ [Next]_vars => IInv'
  BY ArmsStep, MutexStep, OrderStep, StoppedStep DEF IInv
<1> QED BY <1>1, <1>2, PTL DEF Spec

(* serve drives the collector by its own operations only, one at a time:   *)
(* whatever is proved of Collector holds in the process.                   *)
THEOREM ImplementsCollector == Spec => C!Spec
<1>1. Init => C!Init
  BY DEF Init
<1>2. [Next]_vars => [C!Next]_(C!vars)
  <2>1. CP!Next => C!Next
    BY SameActions DEF CP!Next, C!Next
  <2>2. UNCHANGED CP!vars => UNCHANGED C!vars
    BY DEF CP!vars, C!vars
  <2> QED BY <2>1, <2>2, CollectorStep
<1> QED BY <1>1, <1>2, PTL DEF Spec, C!Spec

(* A clean stop leaves nothing behind, for any number of connections that  *)
(* race the shutdown.                                                      *)
THEOREM ExitsCleanly == Spec => []CleanExit
<1>1. IInv => CleanExit
  <2> SUFFICES ASSUME IInv, code = "ok", main \in {"return", "exit"}
               PROVE  /\ \A h \in Conns : conn[h] = "none"
                      /\ pc = "idle" /\ RunReturned
                      /\ \A i \in ArmIds : heap[i].ad = "open" =>
                            heap[i].calls > 0 /\ heap[i].closed
    BY DEF CleanExit
  <2>1. /\ \A h \in Conns : conn[h] = "none"
        /\ pc = "idle" /\ \A b \in Backends : arms[b] = CP!NoArm
    BY DEF IInv, Stopped, Drained
  <2>2. RunReturned
    BY DEF IInv, Order
  <2>3. ASSUME NEW i \in ArmIds, heap[i].ad = "open"
        PROVE  heap[i].calls > 0 /\ heap[i].closed
    <3>1. /\ heap[i] \in CP!Arm /\ CP!ArmOK(heap[i])
          /\ ~heap[i].closed => arms[heap[i].backend] = i
      BY <2>3 DEF IInv, CP!IInv, CP!Core, CP!TypeOK, CP!Life, CP!Located
    <3>2. heap[i].closed
      BY <2>1, <3>1, CollectorAssumption DEF CP!Arm, CP!NoArm, C!NoArm
    <3> QED BY <2>3, <3>1, <3>2 DEF CP!Arm, CP!ArmOK
  <2> QED BY <2>1, <2>2, <2>3
<1> QED BY <1>1, Invariant, PTL

(* On every way out of serve Run has flushed before the queue directory is *)
(* given up and before the process ends.                                   *)
THEOREM FlushesFirst == Spec => []FlushesBeforeExit
<1>1. IInv => FlushesBeforeExit
  BY DEF IInv, Order, RunReturned, FlushesBeforeExit
<1> QED BY <1>1, Invariant, PTL
=============================================================================
