----------------------------- MODULE ServerProofs -----------------------------
(***************************************************************************)
(* Proofs about the workers and the connections of the server, for any     *)
(* number of workers, connections and descriptors and any capacity of the  *)
(* pool's queue.                                                           *)
(*                                                                         *)
(* First, that no wakeup of the pool is lost.  Then the invariant          *)
(* ServerInv of the connections, and what it says: frames come first,      *)
(* which say what has to stay for a connection to be as it was; then, a    *)
(* step at a time, what the step does to the one connection it moves.      *)
(* HandlersOK, of the write handlers, is proved on top of it.              *)
(***************************************************************************)
EXTENDS ServerInv, SequenceTheorems, WellFoundedInduction, TLAPS

-----------------------------------------------------------------------------
(* The wakeups of the pool.                                                *)

\* Why no wakeup is lost.  A set flag has somebody to take it; a task that has
\* been queued has a worker that will look into the queue, or the flag, or the
\* signal that is about to set it.
WakeInv ==
  /\ wpc \in [Worker -> WorkerPlaces]
  /\ signal \in BOOLEAN
  /\ signal => \E w \in Worker : wpc[w] # "asleep"
  /\ tasks # << >> =>
       \/ lpc = "signal"
       \/ signal
       \/ \E w \in Worker : wpc[w] \in Awake

LEMMA InitWakes == ServerInit => WakeInv
<1> SUFFICES ASSUME ServerInit PROVE WakeInv
  OBVIOUS
<1>1. tasks = << >> /\ wpc = [w \in Worker |-> "start"] /\ signal = FALSE
  BY DEF ServerInit, PoolInit
<1>2. signal \in BOOLEAN /\ ~signal
  BY <1>1
<1> QED
  BY <1>1, <1>2 DEF WakeInv, WorkerPlaces, Awake

LEMMA PoolFrame ==
  ASSUME WakeInv, UNCHANGED << tasks, signal, wpc >>,
         lpc = "signal" => lpc' = "signal"
  PROVE  WakeInv'
  BY DEF WakeInv

\* Only Push and PushSignal of the main thread touch the place it is at while
\* the signal of a push is outstanding.
LEMMA MainFrame ==
  ASSUME WakeInv, MainStep, ~Push, ~PushSignal, ~PoolBroadcast
  PROVE  UNCHANGED << tasks, signal, wpc >> /\ (lpc = "signal" => lpc' = "signal")
<1> USE DEF poolVars, mainVars, Main, Faults
<1>1. CASE Boot \/ WorkersStarted \/ Listen \/ EnterMain \/ CheckStop
           \/ PollEvents \/ DispatchEnd
  BY <1>1 DEF Boot, WorkersStarted, Listen, EnterMain, CheckStop, PollEvents,
              DispatchEnd
<1>2. CASE \E fd \in AnyFD, m \in {R, W} : DispatchNone(fd, m) \/ OnFreed(fd, m)
  BY <1>2 DEF DispatchNone, OnFreed
<1>3. CASE OnAccept
  BY <1>3 DEF OnAccept, AtEvent
<1>4. CASE \E fd \in FD : OnRead(fd) \/ OnWrite(fd) \/ OnUnset(fd)
  BY <1>4 DEF OnRead, OnWrite, OnUnset, AtEvent, ReadFails
<1>5. CASE \/ BodyEnds \/ BodyFails \/ BodyRead
           \/ DeleteSees \/ DeleteCtl \/ DeleteStore
  BY <1>5 DEF BodyEnds, BodyFails, BodyRead, DeleteSees, DeleteCtl, DeleteStore
<1>6. CASE Close \/ FreeLoop \/ FreeEngine \/ PoolExit \/ PoolJoined
  BY <1>6 DEF Close, FreeLoop, FreeEngine, PoolExit, SetExit, PoolJoined
<1> QED
  BY <1>1, <1>2, <1>3, <1>4, <1>5, <1>6 DEF MainStep

LEMMA PushWakes ==
  ASSUME WakeInv, Push PROVE WakeInv'
  BY DEF WakeInv, Push, Main, PushEnqueue

LEMMA PushSignalWakes ==
  ASSUME WakeInv, PushSignal PROVE WakeInv'
<1>1. CASE Asleep = {}
  <2>1. UNCHANGED << tasks, wpc >> /\ signal'
    BY <1>1, PushSignal DEF PushSignal, Signal
  <2>2. \E w \in Worker : wpc[w] # "asleep"
    BY <1>1, PoolAssumption DEF Asleep
  <2> QED
    BY <2>1, <2>2, PushSignal DEF WakeInv, PushSignal, Signal
<1>2. CASE Asleep # {}
  <2>1. PICK w \in Asleep : wpc' = [wpc EXCEPT ![w] = "wait"]
    BY <1>2, PushSignal DEF PushSignal, Signal
  <2>2. w \in Worker
    BY DEF Asleep
  <2> QED
    BY <2>1, <2>2, PushSignal DEF WakeInv, PushSignal, Signal, WorkerPlaces
<1> QED
  BY <1>1, <1>2

LEMMA BroadcastWakes ==
  ASSUME WakeInv, PoolBroadcast PROVE WakeInv'
<1>1. wpc' = [w \in Worker |-> IF w \in Asleep THEN "wait" ELSE wpc[w]]
  BY DEF PoolBroadcast, Broadcast
<1>2. PICK w \in Worker : TRUE
  BY PoolAssumption
<1>3. wpc'[w] # "asleep"
  BY <1>1, <1>2 DEF Asleep
<1>4. wpc' \in [Worker -> WorkerPlaces]
  BY <1>1 DEF WakeInv, WorkerPlaces
<1> QED
  BY <1>2, <1>3, <1>4 DEF WakeInv, PoolBroadcast, Broadcast

\* A worker's step that leaves the queue and the flag alone and keeps it among
\* those that will look into the queue, or leaves it outside.
LEMMA StepWakes ==
  ASSUME WakeInv, NEW w \in Worker, NEW from, NEW to \in WorkerPlaces,
         Step(w, from, to), to # "asleep", UNCHANGED << tasks, signal, lpc >>,
         from \in Awake => to \in Awake \/ tasks = << >>
  PROVE  WakeInv'
<1>1. wpc' = [wpc EXCEPT ![w] = to] /\ wpc[w] = from
  BY DEF Step
<1>2. wpc' \in [Worker -> WorkerPlaces]
  BY <1>1 DEF WakeInv
<1>3. wpc'[w] # "asleep"
  BY <1>1 DEF WakeInv
<1>4. ASSUME NEW v \in Worker, wpc[v] \in Awake, tasks # << >>
      PROVE  wpc'[v] \in Awake
  BY <1>1, <1>4 DEF WakeInv
<1> QED
  BY <1>2, <1>3, <1>4 DEF WakeInv

LEMMA WaitWakes ==
  ASSUME WakeInv, NEW w \in Worker, Wait(w), UNCHANGED lpc
  PROVE  WakeInv'
<1>1. CASE signal /\ Step(w, "wait", "woken") /\ signal' = FALSE
  <2>1. wpc' \in [Worker -> WorkerPlaces] /\ wpc'[w] = "woken"
    BY <1>1 DEF WakeInv, Step, WorkerPlaces, Awake
  <2> QED
    BY <2>1, <1>1 DEF WakeInv, Wait, Awake
<1>2. CASE ~signal /\ Step(w, "wait", "asleep") /\ UNCHANGED signal
  <2>1. wpc' \in [Worker -> WorkerPlaces]
    BY <1>2 DEF WakeInv, Step, WorkerPlaces
  <2>2. ASSUME NEW v \in Worker, wpc[v] \in Awake PROVE wpc'[v] \in Awake
    BY <1>2, <2>2 DEF WakeInv, Step, Awake
  <2> QED
    BY <2>1, <2>2, <1>2 DEF WakeInv, Wait
<1> QED
  BY <1>1, <1>2 DEF Wait

LEMMA DequeueWakes ==
  ASSUME WakeInv, NEW w \in Worker, Dequeue(w), UNCHANGED lpc
  PROVE  WakeInv'
<1>1. CASE tasks = << >>
  BY <1>1, StepWakes DEF Dequeue, WorkerPlaces, Awake
<1>2. CASE tasks # << >>
  <2>1. wpc' = [wpc EXCEPT ![w] = "run"] /\ UNCHANGED signal
    BY <1>2 DEF Dequeue, Step
  <2>2. wpc' \in [Worker -> WorkerPlaces] /\ wpc'[w] = "run"
    BY <2>1 DEF WakeInv, WorkerPlaces, Awake
  <2> QED
    BY <2>1, <2>2 DEF WakeInv, Awake
<1> QED
  BY <1>1, <1>2

LEMMA LoopWakes ==
  ASSUME WakeInv, NEW w \in Worker, WorkerLoop(w), UNCHANGED lpc
  PROVE  WakeInv'
<1> USE DEF WorkerPlaces, Awake
<1>1. CASE Start(w)
  BY <1>1, StepWakes DEF Start
<1>2. CASE TestExit(w)
  BY <1>2, StepWakes DEF TestExit
<1>3. CASE Wait(w)
  BY <1>3, WaitWakes
<1>4. CASE Dequeue(w)
  BY <1>4, DequeueWakes
<1>5. CASE DequeueReturns(w)
  BY <1>5, StepWakes DEF DequeueReturns
<1> QED
  BY <1>1, <1>2, <1>3, <1>4, <1>5 DEF WorkerLoop

\* A step of a worker that has a task either faults or moves it from one place
\* where it is awake to another.
LEMMA TaskStepWakes ==
  ASSUME WakeInv, NEW w \in Worker,
         HandleTask(w) \/ Process(w) \/ CreateCtl(w) \/ CreateStore(w)
           \/ CreateProc(w) \/ CreateData(w)
  PROVE  WakeInv'
<1>1. \/ UNCHANGED << tasks, signal, wpc, lpc >>
      \/ /\ \E from \in Awake, to \in Awake : Step(w, from, to)
         /\ UNCHANGED << tasks, signal, lpc >>
  <2> USE DEF Faults, poolVars, mainVars, Unprocessed, Awake
  <2>1. CASE HandleTask(w)
    BY <2>1 DEF HandleTask
  <2>2. CASE Process(w)
    BY <2>2 DEF Process
  <2>3. CASE CreateCtl(w)
    BY <2>3 DEF CreateCtl
  <2>4. CASE CreateStore(w)
    BY <2>4 DEF CreateStore
  <2>5. CASE CreateProc(w)
    BY <2>5 DEF CreateProc
  <2>6. CASE CreateData(w)
    BY <2>6 DEF CreateData
  <2> QED
    BY <2>1, <2>2, <2>3, <2>4, <2>5, <2>6
<1>2. CASE UNCHANGED << tasks, signal, wpc, lpc >>
  BY <1>2, PoolFrame
<1>3. CASE /\ \E from \in Awake, to \in Awake : Step(w, from, to)
           /\ UNCHANGED << tasks, signal, lpc >>
  BY <1>3, StepWakes DEF WorkerPlaces, Awake
<1> QED
  BY <1>1, <1>2, <1>3

LEMMA NextWakes ==
  ASSUME WakeInv, [ServerNext]_serverVars
  PROVE  WakeInv'
<1>1. CASE UNCHANGED serverVars
  BY <1>1, PoolFrame DEF serverVars, poolVars, mainVars
<1>2. CASE ServerNext
  <2>1. CASE MainStep
    BY <2>1, MainFrame, PoolFrame, PushWakes, PushSignalWakes, BroadcastWakes
  <2>2. ASSUME NEW w \in Worker, WorkerStep(w) PROVE WakeInv'
    BY <2>2, LoopWakes, TaskStepWakes DEF WorkerStep, Untouched, mainVars
  <2>3. ASSUME NEW w \in Worker, WakeUp(w), Untouched PROVE WakeInv'
    BY <2>3, StepWakes DEF WakeUp, Untouched, mainVars, WorkerPlaces, Awake
  <2>4. ASSUME NEW c \in Conn, ClientConnect(c) \/ ClientSend(c)
        PROVE  WakeInv'
    BY <2>4, PoolFrame DEF ClientConnect, ClientSend, poolVars, mainVars
  <2>5. CASE SignalStop
    BY <2>5, PoolFrame DEF SignalStop, Faults, poolVars, mainVars
  <2>6. CASE ListenFails \/ BodyPart
    BY <2>6, PoolFrame DEF ListenFails, BodyPart, Main, poolVars
  <2> QED
    BY <1>2, <2>1, <2>2, <2>3, <2>4, <2>5, <2>6 DEF ServerNext
<1> QED
  BY <1>1, <1>2

\* No wakeup is lost: when every worker sleeps on the event while the queue holds
\* a task, the push of it has not signalled yet (threadpool.c:43).
THEOREM NoWakeupLost == ServerSpec => []NoLostWakeup
<1>1. WakeInv => NoLostWakeup
  BY DEF WakeInv, NoLostWakeup, Asleep, Awake
<1>2. ServerSpec => []WakeInv
  BY InitWakes, NextWakes, PTL DEF ServerSpec
<1> QED
  BY <1>1, <1>2, PTL

-----------------------------------------------------------------------------
(* Frames: what a step leaves alone of what is said of a connection.       *)

HandPlaces == {"run", "process", "ctl", "mask"}

\* No worker takes the connection or moves with it, unless it has done with it.
SameHands(c) ==
  /\ \A w \in Worker : task[w] = c /\ wpc[w] \in HandPlaces =>
       task'[w] = c /\ wpc'[w] = wpc[w] /\ wseen'[w] = wseen[w]
  /\ \A w \in Worker : task'[w] = c =>
       /\ task[w] = c
       /\ wpc[w] \in HandPlaces \/ wpc'[w] \notin HandPlaces
            \/ (wpc'[w] = "run" /\ staleRun')
  /\ staleRun => staleRun'

SameLoop(c) ==
  /\ lconn = c /\ lpc \in LoopPlaces => lconn' = c /\ lpc' = lpc /\ lseen' = lseen
  /\ lconn' = c /\ lpc' \in LoopPlaces => lconn = c /\ lpc = lpc'

\* The same, as far as the connection can tell.
SamePart(c) ==
  /\ Pushing(c)' <=> Pushing(c)
  /\ Parting(c)' <=> Parting(c)
  /\ Storing(c)' <=> Storing(c)
  /\ lconn' = c /\ lpc' = "body" => lconn = c /\ lpc = "body"
  /\ lconn' = c /\ lpc' \in {"del_ctl", "del_store"} =>
       lconn = c /\ lpc = lpc' /\ lseen' = lseen

SameConn(c) ==
  /\ heap'[c] = heap[c] /\ status'[c] = status[c] /\ sockfd'[c] = sockfd[c]
  /\ Queued(c)' <=> Queued(c)
  /\ c \in lost' <=> c \in lost

SameEvents(c) ==
  /\ kernel'[sockfd[c]] = kernel[sockfd[c]]
  /\ mask'[sockfd[c]] = mask[sockfd[c]]

LEMMA LoopIsPart ==
  ASSUME NEW c \in Conn, SameLoop(c) PROVE SamePart(c)
<1>1. \A p \in LoopPlaces : lconn' = c /\ lpc' = p <=> lconn = c /\ lpc = p
  BY DEF SameLoop
<1>2. \A p \in LoopPlaces : lconn = c /\ lpc = p => lseen' = lseen
  BY DEF SameLoop
<1> QED
  BY <1>1, <1>2 DEF SamePart, Pushing, Parting, Storing, LoopPlaces,
                    PartingPlaces

LEMMA ConnFrame ==
  ASSUME NEW c \in Conn, ConnOK(c), SameHands(c), SamePart(c), SameConn(c),
         heap[c] = "live" \/ Parting(c) => SameEvents(c),
         heap[c] = "freed" /\ Parting(c) => sockfd[c] \in FreeFDs'
  PROVE  ConnOK(c)'
<1>1. /\ lconn' = c /\ lpc' \in LoopPlaces => lconn = c /\ lpc \in LoopPlaces
      /\ lconn' = c /\ lpc' \in {"body", "push"} => lconn = c /\ lpc = lpc'
  BY DEF SamePart, Pushing, Parting, LoopPlaces
<1>3. /\ Pushing(c)' <=> Pushing(c)
      /\ Parting(c)' <=> Parting(c)
      /\ Storing(c)' <=> Storing(c)
      /\ (lconn' = c /\ lpc' = "body") => (lconn = c /\ lpc = "body")
      /\ Seen(c, {"del_ctl", "del_store"}) => Seen(c, {"del_ctl", "del_store"})'
  BY DEF SamePart, Seen
<1>4. /\ \A w \in Worker : task[w] = c /\ wpc[w] \in HandPlaces =>
           task'[w] = c /\ wpc'[w] = wpc[w] /\ wseen'[w] = wseen[w]
      /\ \A w \in Worker : task'[w] = c =>
           /\ task[w] = c
           /\ wpc[w] \in HandPlaces \/ wpc'[w] \notin HandPlaces
                \/ (wpc'[w] = "run" /\ staleRun')
      /\ staleRun => staleRun'
  BY DEF SameHands
<1>5. CASE heap[c] = "none"
  <2>1. NoneOK(c)
    BY <1>5 DEF ConnOK
  <2>2. Untaken(c)'
    BY <1>4, <2>1 DEF NoneOK, Untaken, SameConn
  <2>3. NoneOK(c)'
    BY <1>1, <2>1, <2>2 DEF NoneOK, SameConn
  <2> QED
    BY <1>5, <2>3 DEF ConnOK, SameConn
<1>6. CASE heap[c] = "freed"
  <2>1. FreedOK(c)
    BY <1>6 DEF ConnOK
  <2>2. \A w \in Worker : task'[w] = c =>
          /\ wpc'[w] \notin {"process", "ctl", "mask"}
          /\ wpc'[w] = "run" => staleRun'
    BY <1>4, <2>1 DEF FreedOK, HandPlaces
  <2>3. Parting(c)' => /\ sockfd'[c] \in FreeFDs'
                       /\ Has(c, {}, {R})'
                       /\ Seen(c, {"del_ctl", "del_store"})'
    BY <1>3, <1>6, <2>1 DEF FreedOK, SameConn, SameEvents, Has
  <2>4. FreedOK(c)'
    BY <1>1, <1>3, <2>1, <2>2, <2>3 DEF FreedOK, SameConn, LoopPlaces
  <2> QED
    BY <1>6, <2>4 DEF ConnOK, SameConn
<1>7. CASE heap[c] = "live"
  <2>1. LiveOK(c)
    BY <1>7 DEF ConnOK
  <2>2. \A k, m : Has(c, k, m)' <=> Has(c, k, m)
    BY <1>7 DEF Has, SameEvents, SameConn
  <2>3. UnreadOK(c) => UnreadOK(c)'
    BY <1>3, <1>4, <2>2 DEF UnreadOK, Untaken, SameConn
  <2>4. RecvedOK(c) => RecvedOK(c)'
    <3> SUFFICES ASSUME RecvedOK(c) PROVE RecvedOK(c)'
      OBVIOUS
    <3>1. \A w \in Worker : task'[w] = c <=> task[w] = c
      BY <1>4 DEF RecvedOK, HandPlaces
    <3>2. \A w \in Worker : task[w] = c => wpc'[w] = wpc[w]
      BY <1>4 DEF RecvedOK, HandPlaces
    <3>3. /\ Untaken(c)' <=> Untaken(c)
          /\ Worked(c, {"run", "process"})' <=> Worked(c, {"run", "process"})
      BY <3>1, <3>2 DEF Untaken, Worked, SameConn
    <3> QED
      BY <1>3, <2>2, <3>1, <3>2, <3>3 DEF RecvedOK, SameConn, Has
  <2>5. SendingOK(c) => SendingOK(c)'
    <3> SUFFICES ASSUME SendingOK(c) PROVE SendingOK(c)'
      OBVIOUS
    <3>1. ASSUME NEW w \in Worker, task'[w] = c
          PROVE  /\ wpc'[w] # "process"
                 /\ wpc'[w] = "run" => staleRun'
                 /\ wpc'[w] = "ctl" => CtlOK(c, w)'
                 /\ wpc'[w] = "mask" => MaskOK(c, w)'
      <4>1. CASE wpc[w] \in HandPlaces
        <5>1. task[w] = c /\ wpc'[w] = wpc[w] /\ wseen'[w] = wseen[w]
          BY <1>4, <3>1, <4>1
        <5>2. wpc[w] = "ctl" => CtlOK(c, w)'
          BY <1>3, <2>2, <5>1 DEF SendingOK, CtlOK, SameConn, Has
        <5>3. wpc[w] = "mask" => MaskOK(c, w)'
          BY <1>3, <2>2, <5>1 DEF SendingOK, MaskOK, SameConn, Has
        <5> QED
          BY <1>4, <5>1, <5>2, <5>3 DEF SendingOK
      <4>2. CASE wpc[w] \notin HandPlaces
        BY <1>4, <3>1, <4>2 DEF HandPlaces
      <4> QED
        BY <4>1, <4>2
    <3>2. Worked(c, {"ctl", "mask"}) => Worked(c, {"ctl", "mask"})'
      BY <1>4 DEF Worked, HandPlaces
    <3>3. DoneOK(c) => DoneOK(c)'
      <4>1. /\ Parting(c)' /\ lpc' = "del_ctl" => lpc = "del_ctl" /\ lseen' = lseen
            /\ Storing(c)' => lseen' = lseen
        BY DEF SamePart, Parting, Storing
      <4>2. kernel'[sockfd'[c]] = kernel[sockfd[c]]
        BY <1>7 DEF SameConn, SameEvents
      <4>3. c \in lost' <=> c \in lost
        BY DEF SameConn
      <4> QED
        BY <1>3, <2>2, <4>1, <4>2, <4>3 DEF DoneOK
    <3>4. lconn' = c => lpc' \notin {"body", "push"}
      BY <1>1 DEF SendingOK
    <3>5. ~Worked(c, {"ctl", "mask"})' => DoneOK(c)'
      BY <3>2, <3>3 DEF SendingOK
    <3>6. ~Queued(c)'
      BY DEF SendingOK, SameConn
    <3> QED
      BY <3>1, <3>4, <3>5, <3>6 DEF SendingOK
  <2>6. LiveOK(c)'
    BY <1>3, <2>1, <2>3, <2>4, <2>5 DEF LiveOK, SameConn
  <2> QED
    BY <1>7, <2>6 DEF ConnOK, SameConn
<1>8. heap[c] \in {"none", "live", "freed"} \/ ConnOK(c)'
  BY DEF ConnOK, SameConn
<1> QED
  BY <1>5, <1>6, <1>7, <1>8

\* A step that leaves every connection where it is.
LEMMA QuietFrame ==
  ASSUME ServerInv, UNCHANGED << heap, status, sockfd, tasks, task, lost >>,
         lateStore => lateStore',
         \A fd \in FD : kernel'[fd] = kernel[fd] /\ mask'[fd] = mask[fd],
         \A c \in Conn : SameHands(c) /\ SameLoop(c)
  PROVE  /\ TakenOnce' /\ ConnsOK' /\ ClosedOK'
         /\ (\A fd \in FD : clientData'[fd] = clientData[fd]) => Owners'
<1>1. \A c : Queued(c)' <=> Queued(c)
  BY DEF Queued
<1>2. TakenOnce'
  BY <1>1 DEF ServerInv, TakenOnce
<1>3. UNCHANGED << Live, FreeFDs >>
  BY DEF Live, OpenFDs, FreeFDs
<1>4. \A c \in Conn : SameConn(c)
  BY <1>1 DEF SameConn
<1>5. ASSUME NEW c \in Conn, heap[c] = "live" \/ (heap[c] = "freed" /\ Parting(c))
      PROVE  sockfd[c] \in FD
  BY <1>5 DEF ServerInv, ConnsOK, ConnOK, LiveOK, FreedOK, FreeFDs
<1>6. ASSUME NEW c \in Conn PROVE ConnOK(c)'
  <2>0. ConnOK(c)
    BY DEF ServerInv, ConnsOK
  <2>1. heap[c] = "live" \/ Parting(c) => SameEvents(c)
    <3>1. Parting(c) => heap[c] # "none"
      BY <2>0 DEF ConnOK, NoneOK, Parting, LoopPlaces
    <3>2. heap[c] \in {"none", "live", "freed"}
      BY DEF ServerInv, ServerTypeOK
    <3> QED
      BY <1>5, <3>1, <3>2 DEF SameEvents
  <2>2. heap[c] = "freed" /\ Parting(c) => sockfd[c] \in FreeFDs'
    BY <1>3, <2>0 DEF ConnOK, FreedOK
  <2> QED
    BY <1>4, <2>0, <2>1, <2>2, LoopIsPart, ConnFrame
<1>7. ConnsOK'
  BY <1>6 DEF ConnsOK
<1>8. (\A fd \in FD : clientData'[fd] = clientData[fd]) => Owners'
  <2>1. \A c \in Live : sockfd[c] \in FD /\ c \in Conn
    BY <1>5 DEF Live
  <2> QED
    BY <1>3, <2>1 DEF ServerInv, Owners
<1>9. ClosedOK'
  <2>1. \A c \in Conn : Parting(c) => Parting(c)'
    BY DEF SameLoop, Parting, LoopPlaces
  <2>2. \A fd \in FreeFDs : fd \in FD
    BY DEF FreeFDs
  <2> QED
    BY <1>3, <2>1, <2>2 DEF ServerInv, ClosedOK
<1> QED
  BY <1>2, <1>7, <1>8, <1>9

LEMMA SameHandsFrame ==
  ASSUME UNCHANGED << task, wpc, wseen, staleRun >>
  PROVE  \A c \in Conn : SameHands(c)
  BY DEF SameHands

LEMMA SameLoopFrame ==
  ASSUME \/ UNCHANGED << lpc, lconn, lseen >>
         \/ lpc \notin LoopPlaces /\ lpc' \notin LoopPlaces
  PROVE  \A c \in Conn : SameLoop(c)
  BY DEF SameLoop

LEMMA FiredFrame ==
  ASSUME ServerInv, UNCHANGED << heap, status, sockfd, lost >>,
         \A fd \in AnyFD : W \in fired'[fd] => W \in fired[fd],
         \A fd \in FD : kernel'[fd] = kernel[fd],
         \A c \in Conn : SameLoop(c)
  PROVE  FiredOK'
<1> SUFFICES ASSUME NEW fd \in AnyFD, W \in fired'[fd]
             PROVE  \E c \in Live' :
                      /\ sockfd'[c] = fd /\ status'[c] = "SENDING"
                      /\ ~Parting(c)' /\ kernel'[fd] = {W} /\ c \notin lost'
  BY DEF FiredOK
<1>1. PICK c \in Live : /\ sockfd[c] = fd /\ status[c] = "SENDING"
                        /\ ~Parting(c) /\ kernel[fd] = {W} /\ c \notin lost
  BY DEF ServerInv, FiredOK
<1>2. c \in Conn /\ heap[c] = "live" /\ sockfd[c] \in FD
  BY DEF Live, ServerInv, ConnsOK, ConnOK, LiveOK
<1>3. ~Parting(c)'
  BY <1>1, <1>2 DEF SameLoop, Parting, LoopPlaces
<1>4. c \in Live'
  BY <1>2 DEF Live
<1> QED
  BY <1>1, <1>2, <1>3, <1>4

\* A step of the main thread outside of the hand-over, of a client, or a
\* signal.
LEMMA OutsideKeeps ==
  ASSUME ServerInv, UNCHANGED << heap, status, sockfd, lost, wseen >>,
         UNCHANGED << tasks, wpc, task, staleRun, lateStore >>,
         \A fd \in FD : /\ kernel'[fd] = kernel[fd] /\ mask'[fd] = mask[fd]
                        /\ clientData'[fd] = clientData[fd],
         \A c \in Conn : SameLoop(c)
  PROVE  /\ TakenOnce' /\ ConnsOK' /\ Owners' /\ ClosedOK' /\ WorkersOK'
         /\ (\A fd \in AnyFD : W \in fired'[fd] => W \in fired[fd]) => FiredOK'
<1>1. TakenOnce' /\ ConnsOK' /\ Owners' /\ ClosedOK'
  BY SameHandsFrame, QuietFrame
<1>2. WorkersOK'
  BY DEF ServerInv, WorkersOK, Live
<1> QED
  BY <1>1, <1>2, FiredFrame

LEMMA EndFrame ==
  ASSUME ServerInv, UNCHANGED << el, engine, tasks, wpc >>,
         lpc = "exited" => lpc' = "exited",
         \/ lpc' = lpc /\ (busyAtStop => busyAtStop')
         \/ lpc \notin EndPlaces /\ lpc' \notin EndPlaces
  PROVE  EndOK'
  BY DEF ServerInv, EndOK, EndPlaces, Busy

LEMMA FaultFrame ==
  ASSUME ServerInv, UNCHANGED fault,
         fault = "none" \/ ((staleRun => staleRun') /\ (lateStore => lateStore')
                            /\ (busyAtStop => busyAtStop'))
  PROVE  FaultsOK'
  BY DEF ServerInv, FaultsOK

-----------------------------------------------------------------------------
(* Steps outside of the hand-over.                                         *)

LEMMA TypeFrame ==
  ASSUME ServerInv, UNCHANGED << tasks, task, heap, sockfd, status, clientData >>,
         UNCHANGED << wpc, wseen, mask, kernel, fired, staleRun, lateStore >>,
         lpc' \in MainPlaces, lpc' \in LoopPlaces => lconn' \in Conn,
         lseen' \in Events
  PROVE  ServerTypeOK'
  BY DEF ServerInv, ServerTypeOK

LEMMA StartAndEndKeep ==
  ASSUME ServerInv, fault = "none",
         Boot \/ WorkersStarted \/ ListenFails \/ EnterMain \/ CheckStop
           \/ DispatchEnd \/ FreeLoop \/ FreeEngine \/ PoolExit \/ PoolJoined
  PROVE  ServerInv'
<1> USE DEF Main
<1>1. /\ UNCHANGED << tasks, wpc, task, staleRun >>
      /\ UNCHANGED << heap, status, sockfd, lost, wseen, lateStore, fault >>
      /\ UNCHANGED << mask, kernel, clientData, fired >>
      /\ UNCHANGED << lconn, lseen >>
  BY DEF poolVars, loopVars, connVars, history, Boot, WorkersStarted,
         ListenFails, EnterMain, CheckStop, DispatchEnd, FreeLoop, FreeEngine,
         PoolExit, PoolJoined, SetExit
<1>2. lpc \notin LoopPlaces /\ lpc' \in MainPlaces \ LoopPlaces
  <2> USE DEF LoopPlaces, MainPlaces, PartingPlaces, EndPlaces
  <2>1. CASE Boot \/ WorkersStarted \/ ListenFails \/ EnterMain
    BY <2>1 DEF Boot, WorkersStarted, ListenFails, EnterMain
  <2>2. CASE CheckStop
    BY <2>2 DEF CheckStop
  <2>3. CASE DispatchEnd \/ FreeLoop \/ FreeEngine
    BY <2>3 DEF DispatchEnd, FreeLoop, FreeEngine
  <2>4. CASE PoolExit \/ PoolJoined
    BY <2>4 DEF PoolExit, PoolJoined
  <2> QED
    BY <2>1, <2>2, <2>3, <2>4
<1>3. \A c \in Conn : SameLoop(c)
  BY <1>2, SameLoopFrame
<1>4. /\ TakenOnce' /\ ConnsOK' /\ Owners' /\ ClosedOK' /\ WorkersOK'
      /\ FiredOK'
  BY <1>1, <1>3, OutsideKeeps
<1>5. ServerTypeOK'
  <2>1. lseen' \in Events /\ lpc' \notin LoopPlaces
    BY <1>1, <1>2 DEF ServerInv, ServerTypeOK
  <2> QED
    BY <1>1, <1>2, <2>1, TypeFrame
<1>6. FaultsOK'
  BY <1>1, FaultFrame
<1>7. EndOK'
  <2> USE DEF EndPlaces
  <2>1. CASE Boot \/ WorkersStarted \/ ListenFails \/ EnterMain \/ DispatchEnd
    <3>1. el # "freed" /\ engine # "freed"
      BY <2>1 DEF ServerInv, EndOK, Boot, WorkersStarted, ListenFails,
                  EnterMain, DispatchEnd
    <3> QED
      BY <2>1, <3>1 DEF EndOK, Boot, WorkersStarted, ListenFails, EnterMain,
                        DispatchEnd
  <2>2. CASE CheckStop
    <3>1. el # "freed" /\ engine # "freed"
      BY <2>2 DEF ServerInv, EndOK, CheckStop
    <3>2. UNCHANGED << el, engine >> /\ (lpc' = "close" => stop)
      BY <2>2 DEF CheckStop
    <3>3. lpc' = "close" /\ ~busyAtStop' => ~Busy
      BY <2>2, <3>2 DEF CheckStop
    <3>4. Busy' <=> Busy
      BY <1>1 DEF Busy
    <3> QED
      BY <2>2, <3>1, <3>2, <3>3, <3>4 DEF EndOK, CheckStop
  <2>3. CASE FreeLoop
    BY <1>1, <2>3 DEF ServerInv, EndOK, FreeLoop, Busy, history
  <2>4. CASE FreeEngine
    BY <1>1, <2>4 DEF ServerInv, EndOK, FreeEngine, Busy, history
  <2>5. CASE PoolExit
    BY <1>1, <2>5 DEF ServerInv, EndOK, PoolExit, Busy, history
  <2>6. CASE PoolJoined
    BY <1>1, <2>6 DEF ServerInv, EndOK, PoolJoined, Busy, history
  <2> QED
    BY <2>1, <2>2, <2>3, <2>4, <2>5, <2>6
<1> QED
  BY <1>4, <1>5, <1>6, <1>7 DEF ServerInv

LEMMA ListenKeeps ==
  ASSUME ServerInv, fault = "none", Listen \/ Close
  PROVE  ServerInv'
<1> USE DEF Main
<1>1. /\ UNCHANGED << tasks, wpc, task, staleRun >>
      /\ UNCHANGED << heap, status, sockfd, lost, wseen, lateStore, fault >>
      /\ UNCHANGED << lconn, lseen, fired, el, engine, busyAtStop >>
  BY DEF poolVars, connVars, history, Listen, Close
<1>2. LISTENER \in AnyFD /\ LISTENER \notin FD
  BY FDAssumption DEF AnyFD, LISTENER
<1>3. kernel' \in [AnyFD -> Events] /\ mask' \in [AnyFD -> Events]
      /\ clientData' \in [AnyFD -> Conn \cup {NoData}]
  <2>0. /\ kernel \in [AnyFD -> Events] /\ mask \in [AnyFD -> Events]
        /\ clientData \in [AnyFD -> Conn \cup {NoData}]
    BY DEF ServerInv, ServerTypeOK
  <2>1. CASE Listen
    <3>1. mask[LISTENER] \cup {R} \in Events
      BY <1>2, <2>0 DEF Events
    <3> QED
      BY <2>0, <2>1, <3>1 DEF Listen, CreateFileEvent
  <2>2. CASE Close
    <3>1. {} \in Events
      BY DEF Events
    <3> QED
      BY <2>0, <2>2, <3>1 DEF Close
  <2> QED
    BY <2>1, <2>2
<1>4. \A fd \in FD : /\ kernel'[fd] = kernel[fd] /\ mask'[fd] = mask[fd]
                     /\ clientData'[fd] = clientData[fd]
  <2>0. /\ kernel \in [AnyFD -> Events] /\ mask \in [AnyFD -> Events]
        /\ clientData \in [AnyFD -> Conn \cup {NoData}]
    BY DEF ServerInv, ServerTypeOK
  <2>1. CASE Listen
    BY <1>2, <2>0, <2>1 DEF Listen, CreateFileEvent, AnyFD
  <2>2. CASE Close
    BY <1>2, <2>0, <2>2 DEF Close, AnyFD
  <2> QED
    BY <2>1, <2>2
<1>5. /\ lpc \notin LoopPlaces /\ lpc' \in MainPlaces \ LoopPlaces
      /\ lpc # "exited"
      /\ \/ lpc \notin EndPlaces /\ lpc' \notin EndPlaces
         \/ lpc = "close" /\ lpc' = "free_loop"
  BY DEF LoopPlaces, MainPlaces, PartingPlaces, EndPlaces, Listen, Close
<1>6. /\ TakenOnce' /\ ConnsOK' /\ Owners' /\ ClosedOK' /\ WorkersOK'
      /\ FiredOK'
  BY <1>1, <1>4, <1>5, SameLoopFrame, OutsideKeeps
<1>7. ServerTypeOK'
  BY <1>1, <1>3, <1>5 DEF ServerInv, ServerTypeOK
<1>8. FaultsOK'
  BY <1>1, FaultFrame
<1>9. EndOK'
  BY <1>1, <1>5 DEF ServerInv, EndOK, EndPlaces, Busy
<1> QED
  BY <1>6, <1>7, <1>8, <1>9 DEF ServerInv

LEMMA ClientsKeep ==
  ASSUME ServerInv, fault = "none",
         (\E c \in Conn : ClientConnect(c) \/ ClientSend(c)) \/ SignalStop
  PROVE  ServerInv'
<1>1. /\ UNCHANGED << tasks, wpc, task, staleRun >>
      /\ UNCHANGED << heap, status, sockfd, lost, wseen, lateStore >>
      /\ UNCHANGED << mask, kernel, clientData, fired >>
      /\ UNCHANGED << lconn, lseen, el, engine, busyAtStop >>
      /\ fault' \in {fault, "signal"}
  BY DEF poolVars, loopVars, connVars, mainVars, history, ClientConnect,
         ClientSend, SignalStop, Faults
<1>2. \/ lpc' = lpc
      \/ lpc = "poll" /\ lpc' = "check"
  BY DEF mainVars, ClientConnect, ClientSend, SignalStop, Faults
<1>3. /\ UNCHANGED lpc \/ (lpc \notin LoopPlaces /\ lpc' \notin LoopPlaces)
      /\ lpc' \in MainPlaces
      /\ UNCHANGED lpc \/ (lpc \notin EndPlaces /\ lpc' \notin EndPlaces)
      /\ lpc = "exited" => lpc' = "exited"
  BY <1>2 DEF LoopPlaces, MainPlaces, PartingPlaces, EndPlaces, ServerInv,
              ServerTypeOK
<1>4. \A c \in Conn : SameLoop(c)
  BY <1>1, <1>3, SameLoopFrame
<1>5. /\ TakenOnce' /\ ConnsOK' /\ Owners' /\ ClosedOK' /\ WorkersOK'
      /\ FiredOK'
  BY <1>1, <1>4, OutsideKeeps
<1>6. ServerTypeOK'
  BY <1>1, <1>3 DEF ServerInv, ServerTypeOK
<1>7. FaultsOK'
  BY <1>1 DEF ServerInv, FaultsOK
<1>8. EndOK'
  BY <1>1, <1>3, EndFrame
<1> QED
  BY <1>5, <1>6, <1>7, <1>8 DEF ServerInv

LEMMA StutterKeeps ==
  ASSUME ServerInv, UNCHANGED serverVars
  PROVE  ServerInv'
<1>1. /\ UNCHANGED << tasks, wpc, task, staleRun >>
      /\ UNCHANGED << heap, status, sockfd, lost, wseen, lateStore >>
      /\ UNCHANGED << mask, kernel, clientData, fired >>
      /\ UNCHANGED << lpc, lconn, lseen, el, engine, busyAtStop, fault >>
  BY DEF serverVars, poolVars, loopVars, connVars, mainVars, history
<1>2. \A c \in Conn : SameLoop(c)
  BY <1>1, SameLoopFrame
<1>3. /\ TakenOnce' /\ ConnsOK' /\ Owners' /\ ClosedOK' /\ WorkersOK'
      /\ FiredOK'
  BY <1>1, <1>2, OutsideKeeps
<1>4. ServerTypeOK'
  BY <1>1 DEF ServerInv, ServerTypeOK
<1>5. EndOK' /\ FaultsOK'
  BY <1>1, EndFrame, FaultFrame
<1> QED
  BY <1>3, <1>4, <1>5 DEF ServerInv

-----------------------------------------------------------------------------
(* The loop waits, and dispatches what has happened.                       *)

LEMMA EventsDiffer == R # W
  BY DEF R, W

LEMMA OpenFD ==
  ASSUME ServerInv
  PROVE  /\ \A fd \in FD : fd \notin FreeFDs => \E c \in Live : sockfd[c] = fd
         /\ \A c \in Live : sockfd[c] \in FD /\ sockfd[c] \notin FreeFDs
  BY DEF FreeFDs, OpenFDs, Live, ServerInv, ConnsOK, ConnOK, LiveOK

\* Between two hand-overs, only a reply that waits to be sent has a write
\* event, with the kernel or with the loop, unless the event was lost.
LEMMA WriteEvent ==
  ASSUME ServerInv, lpc \notin LoopPlaces, NEW c \in Live,
         \/ W \in kernel[sockfd[c]]
         \/ W \in mask[sockfd[c]] /\ c \notin lost
  PROVE  /\ status[c] = "SENDING" /\ c \notin lost
         /\ kernel[sockfd[c]] = {W}
         /\ W \in mask[sockfd[c]] => /\ ~Worked(c, {"ctl", "mask"})
                                     /\ mask[sockfd[c]] = {W}
<1>1. c \in Conn /\ LiveOK(c)
  BY DEF Live, ServerInv, ConnsOK, ConnOK
<1>2. ~Pushing(c) /\ ~Parting(c) /\ ~Storing(c)
  BY DEF Pushing, Parting, Storing, LoopPlaces, PartingPlaces
<1>3. status[c] \in {"WAIT_RECV", "RECEIVING", "RECVED", "SENDING"}
  BY <1>1 DEF ServerInv, ServerTypeOK
<1>4. CASE status[c] \in {"WAIT_RECV", "RECEIVING"}
  BY <1>1, <1>4, EventsDiffer DEF LiveOK, UnreadOK, Has
<1>5. CASE status[c] = "RECVED"
  BY <1>1, <1>2, <1>5 DEF LiveOK, RecvedOK, Has
<1>6. CASE status[c] = "SENDING"
  <2>1. SendingOK(c)
    BY <1>1, <1>6 DEF LiveOK
  <2>2. ASSUME NEW w \in Worker, task[w] = c, wpc[w] = "ctl" PROVE FALSE
    <3>1. CtlOK(c, w)
      BY <2>1, <2>2 DEF SendingOK
    <3> QED
      BY <1>2, <3>1 DEF CtlOK, Has
  <2>3. ASSUME NEW w \in Worker, task[w] = c, wpc[w] = "mask"
        PROVE  kernel[sockfd[c]] = {W} /\ mask[sockfd[c]] = {} /\ c \notin lost
    <3>1. MaskOK(c, w)
      BY <2>1, <2>3 DEF SendingOK
    <3> QED
      BY <1>2, <3>1 DEF MaskOK, Has
  <2>4. ASSUME ~Worked(c, {"ctl", "mask"})
        PROVE  kernel[sockfd[c]] = {W} /\ mask[sockfd[c]] = {W} /\ c \notin lost
    <3>1. DoneOK(c)
      BY <2>1, <2>4 DEF SendingOK
    <3> QED
      BY <1>2, <3>1 DEF DoneOK, Has
  <2> QED
    BY <1>6, <2>2, <2>3, <2>4 DEF Worked
<1> QED
  BY <1>3, <1>4, <1>5, <1>6

LEMMA PollKeeps ==
  ASSUME ServerInv, fault = "none", PollEvents
  PROVE  ServerInv'
<1>1. /\ UNCHANGED << tasks, wpc, task, staleRun >>
      /\ UNCHANGED << heap, status, sockfd, lost, wseen, lateStore, fault >>
      /\ UNCHANGED << mask, kernel, clientData >>
      /\ UNCHANGED << lconn, lseen, el, engine, busyAtStop >>
      /\ lpc = "poll" /\ lpc' = "dispatch"
      /\ fired' = [fd \in AnyFD |-> kernel[fd] \cap Ready[fd]]
  BY DEF poolVars, connVars, history, PollEvents, Main, Poll
<1>2. /\ lpc \notin LoopPlaces /\ lpc' \in MainPlaces \ LoopPlaces
      /\ lpc \notin EndPlaces /\ lpc' \notin EndPlaces
  BY <1>1 DEF LoopPlaces, MainPlaces, PartingPlaces, EndPlaces
<1>3. /\ TakenOnce' /\ ConnsOK' /\ Owners' /\ ClosedOK' /\ WorkersOK'
  BY <1>1, <1>2, SameLoopFrame, OutsideKeeps
<1>4. fired' \in [AnyFD -> Events]
  <2>1. \A fd \in AnyFD : kernel[fd] \cap Ready[fd] \in Events
    BY DEF ServerInv, ServerTypeOK, Events
  <2> QED
    BY <1>1, <2>1
<1>5. ServerTypeOK'
  BY <1>1, <1>2, <1>4 DEF ServerInv, ServerTypeOK
<1>6. FiredOK'
  <2> SUFFICES ASSUME NEW fd \in AnyFD, W \in fired'[fd]
               PROVE  \E c \in Live' :
                        /\ sockfd'[c] = fd /\ status'[c] = "SENDING"
                        /\ ~Parting(c)' /\ kernel'[fd] = {W} /\ c \notin lost'
    BY DEF FiredOK
  <2>1. W \in kernel[fd] /\ W \in Ready[fd]
    BY <1>1
  <2>2. fd # LISTENER
    BY <2>1, EventsDiffer DEF Ready
  <2>3. fd \in FD /\ fd \notin FreeFDs
    BY <2>1, <2>2 DEF AnyFD, ServerInv, ClosedOK
  <2>4. PICK c \in Live : sockfd[c] = fd
    BY <2>3, OpenFD
  <2>5. status[c] = "SENDING" /\ kernel[fd] = {W} /\ c \notin lost
    BY <1>2, <2>1, <2>4, WriteEvent
  <2>6. ~Parting(c)' /\ c \in Live'
    BY <1>1, <2>4 DEF Parting, PartingPlaces, Live
  <2> QED
    BY <1>1, <2>4, <2>5, <2>6
<1>7. EndOK' /\ FaultsOK'
  BY <1>1, <1>2, EndFrame, FaultFrame
<1> QED
  BY <1>3, <1>5, <1>6, <1>7 DEF ServerInv

LEMMA PassOverKeeps ==
  ASSUME ServerInv, fault = "none", NEW fd \in AnyFD, NEW m \in {R, W},
         DispatchNone(fd, m)
  PROVE  ServerInv'
<1>1. /\ UNCHANGED << tasks, wpc, task, staleRun >>
      /\ UNCHANGED << heap, status, sockfd, lost, wseen, lateStore, fault >>
      /\ UNCHANGED << mask, kernel, clientData >>
      /\ UNCHANGED << lpc, lconn, lseen, el, engine, busyAtStop >>
      /\ fired' = [fired EXCEPT ![fd] = @ \ {m}]
  BY DEF poolVars, connVars, mainVars, history, DispatchNone, Dispatched
<1>2. /\ fired' \in [AnyFD -> Events]
      /\ \A f \in AnyFD : W \in fired'[f] => W \in fired[f]
  BY <1>1 DEF ServerInv, ServerTypeOK, Events
<1>3. /\ TakenOnce' /\ ConnsOK' /\ Owners' /\ ClosedOK' /\ WorkersOK'
      /\ FiredOK'
  BY <1>1, <1>2, SameLoopFrame, OutsideKeeps
<1>4. ServerTypeOK'
  BY <1>1, <1>2 DEF ServerInv, ServerTypeOK
<1>5. EndOK' /\ FaultsOK'
  BY <1>1, EndFrame, FaultFrame
<1> QED
  BY <1>3, <1>4, <1>5 DEF ServerInv

\* The handler of a connection that has been freed: its data came late.
LEMMA OnFreedKeeps ==
  ASSUME ServerInv, fault = "none", NEW fd \in AnyFD, NEW m \in {R, W},
         OnFreed(fd, m)
  PROVE  ServerInv'
<1>1. /\ UNCHANGED << tasks, wpc, task, staleRun >>
      /\ UNCHANGED << heap, status, sockfd, lost, wseen, lateStore >>
      /\ UNCHANGED << mask, kernel, clientData, fired >>
      /\ UNCHANGED << lpc, lconn, lseen, el, engine, busyAtStop >>
      /\ fault' = "connection"
      /\ lpc = "dispatch" /\ mask[fd] # {} /\ fd \in FD /\ clientData[fd] \notin Live
  BY DEF poolVars, loopVars, connVars, mainVars, history, OnFreed, Faults, Fires,
         AnyFD
<1>2. fd \notin FreeFDs
  BY <1>1 DEF ServerInv, ClosedOK, Parting, PartingPlaces
<1>3. lateStore
  BY <1>1, <1>2, OpenFD DEF ServerInv, Owners
<1>4. /\ TakenOnce' /\ ConnsOK' /\ Owners' /\ ClosedOK' /\ WorkersOK'
      /\ FiredOK'
  BY <1>1, SameLoopFrame, OutsideKeeps
<1>5. ServerTypeOK'
  BY <1>1 DEF ServerInv, ServerTypeOK
<1>6. EndOK' /\ FaultsOK'
  BY <1>1, <1>3, EndFrame DEF FaultsOK
<1> QED
  BY <1>4, <1>5, <1>6 DEF ServerInv

-----------------------------------------------------------------------------
(* Steps that move one connection.                                         *)

\* The connection is the only one at its descriptor.
LEMMA OtherEvents ==
  ASSUME ServerInv, NEW d \in Conn, heap[d] = "live" \/ (heap[d] = "freed" /\ Parting(d)),
         NEW c \in Conn \ {d}, heap[c] = "live" \/ Parting(c),
         ~(Parting(c) /\ Parting(d)),
         \A f \in AnyFD : f # sockfd[d] => kernel'[f] = kernel[f] /\ mask'[f] = mask[f]
  PROVE  SameEvents(c)
<1>1. /\ ConnOK(c) /\ ConnOK(d)
      /\ heap[c] \in {"none", "live", "freed"} /\ sockfd[c] \in AnyFD
      /\ \A a, b \in Live : sockfd[a] = sockfd[b] => a = b
  BY DEF ServerInv, ConnsOK, ServerTypeOK, Owners
<1>2. \A a \in Conn : ConnOK(a) /\ heap[a] = "freed" /\ Parting(a) =>
                        sockfd[a] \in FreeFDs
  BY DEF ConnOK, FreedOK
<1>3. Parting(c) => heap[c] # "none"
  BY <1>1 DEF ConnOK, NoneOK, Parting, LoopPlaces
<1>4. \A a \in Live : sockfd[a] \notin FreeFDs
  BY OpenFD
<1>5. sockfd[c] # sockfd[d]
  BY <1>1, <1>2, <1>3, <1>4 DEF Live
<1> QED
  BY <1>1, <1>5 DEF SameEvents

\* A write event to dispatch is not of this connection.
LEMMA NotFired ==
  ASSUME ServerInv, NEW d \in Live,
         status[d] # "SENDING" \/ Parting(d) \/ kernel[sockfd[d]] # {W}
  PROVE  W \notin fired[sockfd[d]]
<1> SUFFICES ASSUME W \in fired[sockfd[d]] PROVE FALSE
  OBVIOUS
<1>1. sockfd[d] \in AnyFD
  BY DEF ServerInv, ServerTypeOK, Live
<1>2. PICK c \in Live : /\ sockfd[c] = sockfd[d] /\ status[c] = "SENDING"
                        /\ ~Parting(c) /\ kernel[sockfd[d]] = {W}
  BY <1>1 DEF ServerInv, FiredOK
<1>3. c = d
  BY <1>2 DEF ServerInv, Owners
<1> QED
  BY <1>2, <1>3

\* What the steps below leave alone of the connections other than d.
OthersKept(d) ==
  \A c \in Conn \ {d} :
    /\ status'[c] = status[c]
    /\ Queued(c)' <=> Queued(c)
    /\ c \in lost' <=> c \in lost
    /\ SameHands(c) /\ SameLoop(c)

\* The connection stays open, or stays closed.
LEMMA HoldKeeps ==
  ASSUME ServerInv, NEW d \in Conn,
         heap[d] = "live" \/ (heap[d] = "freed" /\ Parting(d)),
         UNCHANGED << heap, sockfd, clientData >>,
         lateStore => lateStore',
         OthersKept(d),
         \A f \in AnyFD : f # sockfd[d] => kernel'[f] = kernel[f] /\ mask'[f] = mask[f],
         ConnOK(d)',
         heap[d] = "freed" => /\ kernel'[sockfd[d]] = {}
                              /\ mask'[sockfd[d]] # {} => Parting(d)',
         \A f \in AnyFD : W \in fired'[f] => W \in fired[f],
         heap[d] = "live" /\ W \in fired[sockfd[d]] =>
           /\ status'[d] = "SENDING" /\ ~Parting(d)'
           /\ kernel'[sockfd[d]] = {W} /\ d \notin lost'
  PROVE  ConnsOK' /\ Owners' /\ ClosedOK' /\ FiredOK'
<1>1. UNCHANGED << Live, FreeFDs >>
  BY DEF Live, OpenFDs, FreeFDs
<1>2. ASSUME NEW c \in Conn \ {d} PROVE ConnOK(c)'
  <2>0. ConnOK(c)
    BY DEF ServerInv, ConnsOK
  <2>1. SameHands(c) /\ SameLoop(c) /\ SameConn(c)
    BY DEF OthersKept, SameConn
  <2>2. CASE Parting(c) /\ Parting(d)
    BY <2>2 DEF Parting
  <2>3. CASE ~(Parting(c) /\ Parting(d))
    <3>1. heap[c] = "live" \/ Parting(c) => SameEvents(c)
      BY <2>3, OtherEvents
    <3>2. heap[c] = "freed" /\ Parting(c) => sockfd[c] \in FreeFDs'
      BY <1>1, <2>0 DEF ConnOK, FreedOK
    <3> QED
      BY <2>0, <2>1, <3>1, <3>2, LoopIsPart, ConnFrame
  <2> QED
    BY <2>2, <2>3
<1>3. ConnsOK'
  BY <1>2 DEF ConnsOK
<1>4. Owners'
  BY <1>1 DEF ServerInv, Owners
<1>5. ClosedOK'
  <2> SUFFICES ASSUME NEW fd \in FreeFDs'
               PROVE  /\ kernel'[fd] = {}
                      /\ mask'[fd] # {} =>
                           \E c \in Conn : heap'[c] = "freed" /\ Parting(c)'
                                           /\ sockfd'[c] = fd
    BY DEF ClosedOK
  <2>1. fd \in FreeFDs /\ fd \in AnyFD
    BY <1>1 DEF FreeFDs, AnyFD
  <2>2. CASE fd = sockfd[d]
    <3>1. heap[d] = "freed"
      BY <2>1, <2>2, OpenFD DEF Live
    <3> QED
      BY <2>2, <3>1
  <2>3. CASE fd # sockfd[d]
    <3>1. kernel'[fd] = {} /\ mask'[fd] = mask[fd]
      BY <2>1, <2>3 DEF ServerInv, ClosedOK
    <3>2. ASSUME mask[fd] # {}
          PROVE  \E c \in Conn : heap'[c] = "freed" /\ Parting(c)' /\ sockfd'[c] = fd
      <4>1. PICK c \in Conn : heap[c] = "freed" /\ Parting(c) /\ sockfd[c] = fd
        BY <2>1, <3>2 DEF ServerInv, ClosedOK
      <4>2. SameLoop(c)
        BY <2>3, <4>1 DEF OthersKept
      <4>3. Parting(c)'
        BY <4>1, <4>2 DEF SameLoop, Parting, LoopPlaces
      <4> QED
        BY <4>1, <4>3
    <3> QED
      BY <3>1, <3>2
  <2> QED
    BY <2>2, <2>3
<1>6. FiredOK'
  <2> SUFFICES ASSUME NEW fd \in AnyFD, W \in fired'[fd]
               PROVE  \E c \in Live' :
                        /\ sockfd'[c] = fd /\ status'[c] = "SENDING"
                        /\ ~Parting(c)' /\ kernel'[fd] = {W} /\ c \notin lost'
    BY DEF FiredOK
  <2>1. PICK c \in Live : /\ sockfd[c] = fd /\ status[c] = "SENDING"
                          /\ ~Parting(c) /\ kernel[fd] = {W} /\ c \notin lost
    BY DEF ServerInv, FiredOK
  <2>2. c \in Conn /\ heap[c] = "live" /\ c \in Live'
    BY <1>1, <2>1 DEF Live
  <2>3. CASE c = d
    BY <2>1, <2>2, <2>3
  <2>4. CASE c # d
    <3>1. status'[c] = status[c] /\ c \notin lost' /\ ~Parting(c)'
      BY <2>1, <2>2, <2>4 DEF OthersKept, SameLoop, Parting, LoopPlaces
    <3>2. fd # sockfd[d]
      <4>1. heap[d] = "live" => fd # sockfd[d]
        BY <2>1, <2>4 DEF ServerInv, Owners, Live
      <4>2. heap[d] = "freed" => fd # sockfd[d]
        <5>1. heap[d] = "freed" => sockfd[d] \in FreeFDs
          BY DEF ServerInv, ConnsOK, ConnOK, FreedOK
        <5> QED
          BY <2>1, <5>1, OpenFD
      <4> QED
        BY <4>1, <4>2
    <3> QED
      BY <2>1, <2>2, <3>1, <3>2
  <2> QED
    BY <2>3, <2>4
<1> QED
  BY <1>3, <1>4, <1>5, <1>6

\* The connection is closed.
LEMMA CloseKeeps ==
  ASSUME ServerInv, NEW d \in Live, heap' = [heap EXCEPT ![d] = "freed"],
         UNCHANGED << sockfd, clientData >>,
         lateStore => lateStore',
         OthersKept(d),
         \A f \in AnyFD : f # sockfd[d] => kernel'[f] = kernel[f] /\ mask'[f] = mask[f],
         kernel'[sockfd[d]] = {},
         mask'[sockfd[d]] # {} => Parting(d)',
         ~Queued(d)',
         \A w \in Worker : task'[w] = d =>
           /\ wpc'[w] \notin {"process", "ctl", "mask"}
           /\ wpc'[w] = "run" => staleRun',
         lconn' = d => lpc' \notin {"body", "push"},
         Parting(d)' => mask'[sockfd[d]] = {R} /\ Seen(d, {"del_ctl", "del_store"})',
         \A f \in AnyFD : W \in fired'[f] => W \in fired[f] /\ f # sockfd[d]
  PROVE  ConnsOK' /\ Owners' /\ ClosedOK' /\ FiredOK'
<1>1. /\ d \in Conn /\ heap[d] = "live" /\ heap'[d] = "freed"
      /\ sockfd[d] \in FD
      /\ \A c \in Conn \ {d} : heap'[c] = heap[c]
  BY OpenFD DEF ServerInv, ServerTypeOK, Live
<1>2. /\ Live' = Live \ {d}
      /\ \A a, b \in Live : sockfd[a] = sockfd[b] => a = b
  BY <1>1 DEF Live, ServerInv, Owners
<1>3. FreeFDs' = FreeFDs \cup {sockfd[d]}
  BY <1>1, <1>2 DEF FreeFDs, OpenFDs
<1>4. ASSUME NEW c \in Conn \ {d} PROVE ConnOK(c)'
  <2>0. ConnOK(c)
    BY DEF ServerInv, ConnsOK
  <2>1. SameHands(c) /\ SameLoop(c) /\ SameConn(c)
    BY <1>1 DEF OthersKept, SameConn
  <2>2. heap[c] = "freed" /\ Parting(c) => sockfd[c] \in FreeFDs'
    BY <1>3, <2>0 DEF ConnOK, FreedOK
  <2>3. heap[c] = "live" \/ Parting(c) => SameEvents(c)
    <3>1. ~(Parting(c) /\ Parting(d))
      BY DEF Parting
    <3> QED
      BY <1>1, <3>1, OtherEvents
  <2> QED
    BY <2>0, <2>1, <2>2, <2>3, LoopIsPart, ConnFrame
<1>5. ConnOK(d)'
  <2>1. FreedOK(d)'
    BY <1>1, <1>3 DEF FreedOK, Has
  <2> QED
    BY <1>1, <2>1 DEF ConnOK
<1>6. ConnsOK'
  BY <1>4, <1>5 DEF ConnsOK
<1>7. Owners'
  <2>1. \A c \in Conn : heap[c] = "freed" => heap'[c] = "freed"
    BY <1>1
  <2> QED
    BY <1>2, <2>1 DEF ServerInv, Owners
<1>8. ClosedOK'
  <2> SUFFICES ASSUME NEW fd \in FreeFDs'
               PROVE  /\ kernel'[fd] = {}
                      /\ mask'[fd] # {} =>
                           \E c \in Conn : heap'[c] = "freed" /\ Parting(c)'
                                           /\ sockfd'[c] = fd
    BY DEF ClosedOK
  <2>1. fd \in AnyFD
    BY DEF FreeFDs, AnyFD
  <2>2. CASE fd = sockfd[d]
    BY <1>1, <2>2
  <2>3. CASE fd # sockfd[d]
    <3>0. fd \in FreeFDs
      BY <1>3, <2>3
    <3>1. kernel'[fd] = {} /\ mask'[fd] = mask[fd]
      BY <2>1, <2>3, <3>0 DEF ServerInv, ClosedOK
    <3>2. ASSUME mask[fd] # {}
          PROVE  \E c \in Conn : heap'[c] = "freed" /\ Parting(c)' /\ sockfd'[c] = fd
      <4>1. PICK c \in Conn : heap[c] = "freed" /\ Parting(c) /\ sockfd[c] = fd
        BY <3>0, <3>2 DEF ServerInv, ClosedOK
      <4>2. SameLoop(c) /\ heap'[c] = "freed"
        BY <1>1, <2>3, <4>1 DEF OthersKept
      <4>3. Parting(c)'
        BY <4>1, <4>2 DEF SameLoop, Parting, LoopPlaces
      <4> QED
        BY <4>1, <4>2, <4>3
    <3> QED
      BY <3>1, <3>2
  <2> QED
    BY <2>2, <2>3
<1>9. FiredOK'
  <2> SUFFICES ASSUME NEW fd \in AnyFD, W \in fired'[fd]
               PROVE  \E c \in Live' :
                        /\ sockfd'[c] = fd /\ status'[c] = "SENDING"
                        /\ ~Parting(c)' /\ kernel'[fd] = {W} /\ c \notin lost'
    BY DEF FiredOK
  <2>1. PICK c \in Live : /\ sockfd[c] = fd /\ status[c] = "SENDING"
                          /\ ~Parting(c) /\ kernel[fd] = {W} /\ c \notin lost
    BY DEF ServerInv, FiredOK
  <2>2. c \in Conn /\ c # d /\ c \in Live'
    BY <1>2, <2>1 DEF Live
  <2>3. status'[c] = status[c] /\ c \notin lost' /\ ~Parting(c)'
    BY <2>1, <2>2 DEF OthersKept, SameLoop, Parting, LoopPlaces
  <2> QED
    BY <2>1, <2>2, <2>3
<1> QED
  BY <1>6, <1>7, <1>8, <1>9

-----------------------------------------------------------------------------
(* The main thread with a connection in its hands.                         *)

LEMMA OtherLoops ==
  ASSUME NEW d \in Conn, lconn = d \/ lpc \notin LoopPlaces,
         lconn' = d \/ lpc' \notin LoopPlaces
  PROVE  \A c \in Conn \ {d} : SameLoop(c)
  BY DEF SameLoop

LEMMA LoopMoves ==
  ASSUME ServerInv, fault = "none", NEW d \in Conn, lconn = d, lpc \in LoopPlaces,
         lconn' = d \/ lpc' \notin LoopPlaces,
         lpc' \notin EndPlaces,
         UNCHANGED << heap, sockfd, clientData, fired, staleRun, lateStore >>,
         UNCHANGED << el, engine, fault >>,
         OthersKept(d),
         \A f \in AnyFD : f # sockfd[d] => kernel'[f] = kernel[f] /\ mask'[f] = mask[f],
         ConnOK(d)',
         heap[d] = "freed" => /\ kernel'[sockfd[d]] = {}
                              /\ mask'[sockfd[d]] # {} => Parting(d)',
         ServerTypeOK', TakenOnce', WorkersOK'
  PROVE  ServerInv'
<1>1. ConnOK(d) /\ heap[d] \in {"none", "live", "freed"}
  BY DEF ServerInv, ConnsOK, ServerTypeOK
<1>2. heap[d] = "live" \/ (heap[d] = "freed" /\ Parting(d))
  BY <1>1 DEF ConnOK, NoneOK, FreedOK, Parting, LoopPlaces
<1>3. heap[d] = "live" => status[d] # "SENDING" \/ Parting(d)
  BY <1>1 DEF ConnOK, LiveOK, Parting, Pushing, LoopPlaces
<1>4. heap[d] = "live" => W \notin fired[sockfd[d]]
  BY <1>3, NotFired DEF Live
<1>5. ConnsOK' /\ Owners' /\ ClosedOK' /\ FiredOK'
  BY <1>2, <1>4, HoldKeeps
<1>6. EndOK'
  BY DEF ServerInv, EndOK, EndPlaces, LoopPlaces, PartingPlaces
<1>7. FaultsOK'
  BY FaultFrame
<1> QED
  BY <1>5, <1>6, <1>7 DEF ServerInv

\* The status and the events are typed after a step that changes one of each.
LEMMA TypeStep ==
  ASSUME ServerInv,
         UNCHANGED << wpc, task, heap, sockfd, clientData, fired, wseen >>,
         UNCHANGED << staleRun, lateStore >>,
         tasks' \in Seq(Conn),
         status' = status \/ \E c : status' = [status EXCEPT ![c] = "RECVED"],
         kernel' \in [AnyFD -> Events], mask' \in [AnyFD -> Events],
         lpc' \in MainPlaces, lpc' \in LoopPlaces => lconn' \in Conn,
         lseen' \in Events
  PROVE  ServerTypeOK'
<1>1. status' \in [Conn -> {"WAIT_RECV", "RECEIVING", "RECVED", "SENDING"}]
  BY DEF ServerInv, ServerTypeOK
<1> QED
  BY <1>1 DEF ServerInv, ServerTypeOK

LEMMA PoolSame ==
  ASSUME ServerInv, UNCHANGED << tasks, task, wpc, wseen, staleRun, heap >>
  PROVE  /\ TakenOnce' /\ WorkersOK'
         /\ \A c : Queued(c)' <=> Queued(c)
         /\ \A c \in Conn : SameHands(c)
<1>1. \A c : Queued(c)' <=> Queued(c)
  BY DEF Queued
<1> QED
  BY <1>1, SameHandsFrame DEF ServerInv, TakenOnce, WorkersOK, Live

LEMMA InHand ==
  ASSUME ServerInv, lpc \in LoopPlaces
  PROVE  /\ lconn \in Conn /\ ConnOK(lconn)
         /\ heap[lconn] = "live" \/ (heap[lconn] = "freed" /\ Parting(lconn))
         /\ heap[lconn] = "live" => LiveOK(lconn)
         /\ heap[lconn] = "freed" => FreedOK(lconn)
         /\ sockfd[lconn] \in AnyFD
         /\ kernel[sockfd[lconn]] \in Events /\ mask[sockfd[lconn]] \in Events
         /\ status[lconn] \in {"WAIT_RECV", "RECEIVING", "RECVED", "SENDING"}
<1>1. lconn \in Conn /\ heap[lconn] \in {"none", "live", "freed"}
  BY DEF ServerInv, ServerTypeOK
<1>2. ConnOK(lconn)
  BY <1>1 DEF ServerInv, ConnsOK
<1>3. heap[lconn] = "live" \/ (heap[lconn] = "freed" /\ Parting(lconn))
  BY <1>1, <1>2 DEF ConnOK, NoneOK, FreedOK, Parting, LoopPlaces
<1> QED
  BY <1>1, <1>2, <1>3 DEF ServerInv, ServerTypeOK, ConnOK

LEMMA BodyEndsKeeps ==
  ASSUME ServerInv, fault = "none", BodyEnds \/ BodyPart
  PROVE  ServerInv'
<1> PICK d \in Conn : d = lconn
  BY InHand DEF BodyEnds, BodyPart, Main, LoopPlaces
<1>1. /\ UNCHANGED << tasks, task, wpc, wseen, staleRun, heap >>
      /\ UNCHANGED << sockfd, clientData, fired, lateStore, el, engine, fault >>
      /\ UNCHANGED << kernel, mask, status, lost, lseen >>
      /\ lpc = "body" /\ lpc' = "dispatch"
  BY DEF BodyEnds, BodyPart, Main, poolVars, loopVars, connVars, history
<1>2. /\ lpc \in LoopPlaces /\ lpc' \notin LoopPlaces /\ lpc' \notin EndPlaces
      /\ lpc' \in MainPlaces
  BY <1>1 DEF LoopPlaces, PartingPlaces, EndPlaces, MainPlaces
<1>3. /\ TakenOnce' /\ WorkersOK'
      /\ \A c : Queued(c)' <=> Queued(c)
      /\ \A c \in Conn : SameHands(c)
  BY <1>1, PoolSame
<1>4. OthersKept(d)
  BY <1>1, <1>2, <1>3, OtherLoops DEF OthersKept
<1>5. heap[d] = "live" /\ ConnOK(d)
  BY <1>1, <1>2, InHand DEF Parting, PartingPlaces
<1>6. ConnOK(d)'
  <2>1. SamePart(d)
    BY <1>1 DEF SamePart, Pushing, Parting, Storing, PartingPlaces
  <2>2. SameConn(d) /\ SameEvents(d)
    BY <1>1, <1>3 DEF SameConn, SameEvents
  <2> QED
    BY <1>3, <1>5, <2>1, <2>2, ConnFrame
<1>7. ServerTypeOK'
  <2>1. /\ tasks' \in Seq(Conn) /\ kernel' \in [AnyFD -> Events]
        /\ mask' \in [AnyFD -> Events] /\ lseen' \in Events
    BY <1>1 DEF ServerInv, ServerTypeOK
  <2> QED
    BY <1>1, <1>2, <2>1, TypeStep
<1> QED
  BY <1>1, <1>2, <1>3, <1>4, <1>5, <1>6, <1>7, LoopMoves

\* The read of the body fails: the connection, which nobody else has, is closed.
LEMMA BodyFailsKeeps ==
  ASSUME ServerInv, fault = "none", BodyFails
  PROVE  ServerInv'
<1> PICK d \in Conn : d = lconn
  BY InHand DEF BodyFails, Main, LoopPlaces
<1>1. /\ UNCHANGED << tasks, task, wpc, wseen, staleRun >>
      /\ UNCHANGED << sockfd, clientData, fired, lateStore, el, engine, fault >>
      /\ UNCHANGED << status, lost, lseen, busyAtStop >>
      /\ lpc = "body" /\ lpc' = "dispatch"
      /\ heap' = [heap EXCEPT ![d] = "freed"]
      /\ DeleteFileEvent(sockfd[d], R)
  BY DEF BodyFails, Main, poolVars, history
<1>2. /\ lpc \in LoopPlaces /\ lpc' \notin LoopPlaces /\ lpc' \notin EndPlaces
      /\ lpc' \in MainPlaces
  BY <1>1 DEF LoopPlaces, PartingPlaces, EndPlaces, MainPlaces
<1>3. heap[d] = "live" /\ LiveOK(d) /\ ~Pushing(d) /\ sockfd[d] \in AnyFD
  BY <1>1, <1>2, InHand DEF Parting, Pushing, PartingPlaces
<1>4. /\ mask[sockfd[d]] = {R} /\ status[d] # "SENDING"
      /\ ~Queued(d) /\ \A w \in Worker : task[w] # d
  BY <1>1, <1>3 DEF LiveOK, UnreadOK, Has, Untaken
<1>5. W \notin fired[sockfd[d]]
  BY <1>3, <1>4, NotFired DEF Live
<1>6. /\ kernel \in [AnyFD -> Events] /\ mask \in [AnyFD -> Events]
      /\ heap \in [Conn -> {"none", "live", "freed"}]
  BY DEF ServerInv, ServerTypeOK
<1>7. /\ mask'[sockfd[d]] = {} /\ kernel'[sockfd[d]] = {}
      /\ \A f \in AnyFD : f # sockfd[d] => kernel'[f] = kernel[f] /\ mask'[f] = mask[f]
      /\ kernel' \in [AnyFD -> Events] /\ mask' \in [AnyFD -> Events]
  <2>1. {} \in Events
    BY DEF Events
  <2> QED
    BY <1>1, <1>3, <1>4, <1>6, <2>1 DEF DeleteFileEvent
<1>8. /\ \A c : Queued(c)' <=> Queued(c)
      /\ \A c \in Conn : SameHands(c)
  BY <1>1, SameHandsFrame DEF Queued
<1>9. OthersKept(d)
  BY <1>1, <1>2, <1>8, OtherLoops DEF OthersKept
<1>10. ConnsOK' /\ Owners' /\ ClosedOK' /\ FiredOK'
  <2>1. ~Parting(d)' /\ (lconn' = d => lpc' \notin {"body", "push"})
    BY <1>1 DEF Parting, PartingPlaces
  <2> QED
    BY <1>1, <1>3, <1>4, <1>5, <1>7, <1>8, <1>9, <2>1, CloseKeeps DEF Live
<1>11. TakenOnce'
  BY <1>1, <1>8 DEF ServerInv, TakenOnce
<1>12. WorkersOK'
  <2>1. Live' = Live \ {d}
    BY <1>1, <1>6 DEF Live
  <2> QED
    BY <1>1, <1>4, <2>1 DEF ServerInv, WorkersOK
<1>13. ServerTypeOK'
  <2>1. heap' \in [Conn -> {"none", "live", "freed"}]
    BY <1>1, <1>6
  <2> QED
    BY <1>1, <1>2, <1>7, <2>1 DEF ServerInv, ServerTypeOK
<1>14. EndOK'
  BY <1>1, <1>2 DEF ServerInv, EndOK, EndPlaces
<1>15. FaultsOK'
  BY <1>1, FaultFrame
<1> QED
  BY <1>10, <1>11, <1>12, <1>13, <1>14, <1>15 DEF ServerInv

LEMMA BodyReadKeeps ==
  ASSUME ServerInv, fault = "none", BodyRead
  PROVE  ServerInv'
<1> PICK d \in Conn : d = lconn
  BY InHand DEF BodyRead, Main, LoopPlaces
<1>1. /\ UNCHANGED << tasks, task, wpc, wseen, staleRun, heap >>
      /\ UNCHANGED << sockfd, clientData, fired, lateStore, el, engine, fault >>
      /\ UNCHANGED << kernel, mask, lconn, lost, lseen >>
      /\ status' = [status EXCEPT ![d] = "RECVED"]
      /\ lpc = "body" /\ lpc' = "push"
  BY DEF BodyRead, Main, poolVars, loopVars, history
<1>2. /\ lpc \in LoopPlaces /\ lpc' \in LoopPlaces /\ lpc' \notin EndPlaces
      /\ lpc' \in MainPlaces
  BY <1>1 DEF LoopPlaces, PartingPlaces, EndPlaces, MainPlaces
<1>3. /\ TakenOnce' /\ WorkersOK'
      /\ \A c : Queued(c)' <=> Queued(c)
      /\ \A c \in Conn : SameHands(c)
  BY <1>1, PoolSame
<1>4. OthersKept(d)
  BY <1>1, <1>2, <1>3, OtherLoops DEF OthersKept
<1>5. heap[d] = "live" /\ LiveOK(d)
  BY <1>1, <1>2, InHand DEF Parting, PartingPlaces
<1>6. ConnOK(d)'
  <2>1. UnreadOK(d)
    BY <1>1, <1>5 DEF LiveOK
  <2>2. UnreadOK(d)'
    BY <1>1, <1>3, <2>1 DEF UnreadOK, Has, Untaken, Parting, PartingPlaces
  <2>3. status'[d] = "RECVED" /\ Pushing(d)'
    BY <1>1 DEF ServerInv, ServerTypeOK, Pushing
  <2>4. LiveOK(d)'
    BY <1>1, <1>5, <2>2, <2>3 DEF LiveOK
  <2> QED
    BY <1>1, <1>5, <2>4 DEF ConnOK
<1>7. ServerTypeOK'
  <2>1. /\ tasks' \in Seq(Conn) /\ kernel' \in [AnyFD -> Events]
        /\ mask' \in [AnyFD -> Events] /\ lseen' \in Events
    BY <1>1 DEF ServerInv, ServerTypeOK
  <2> QED
    BY <1>1, <1>2, <2>1, TypeStep
<1> QED
  BY <1>1, <1>2, <1>3, <1>4, <1>5, <1>6, <1>7, LoopMoves

LEMMA PushKeeps ==
  ASSUME ServerInv, fault = "none", Push
  PROVE  ServerInv'
<1> PICK d \in Conn : d = lconn
  BY InHand DEF Push, Main, LoopPlaces
<1>1. /\ UNCHANGED << task, wpc, wseen, staleRun, heap, status >>
      /\ UNCHANGED << sockfd, clientData, fired, lateStore, el, engine, fault >>
      /\ UNCHANGED << kernel, mask, lconn, lseen >>
      /\ tasks' = IF Len(tasks) < Capacity THEN Append(tasks, d) ELSE tasks
      /\ lost' = IF tasks' = tasks THEN lost \cup {d} ELSE lost
      /\ lpc = "push" /\ lpc' = "signal"
  BY DEF Push, PushEnqueue, Main, loopVars, connVars
<1>2. /\ lpc \in LoopPlaces /\ lpc' \in LoopPlaces /\ lpc' \notin EndPlaces
      /\ lpc' \in MainPlaces
  BY <1>1 DEF LoopPlaces, PartingPlaces, EndPlaces, MainPlaces
<1>3. heap[d] = "live" /\ LiveOK(d)
  BY <1>1, <1>2, InHand DEF Parting, PartingPlaces
<1>4. status[d] = "RECVED" /\ UnreadOK(d)
  BY <1>1, <1>3 DEF LiveOK, Pushing
<1>5. tasks \in Seq(Conn)
  BY DEF ServerInv, ServerTypeOK
<1>6. \/ /\ tasks' = Append(tasks, d) /\ lost' = lost
         /\ DOMAIN tasks' = 1..(Len(tasks) + 1) /\ DOMAIN tasks = 1..Len(tasks)
         /\ Len(tasks) \in Nat /\ Len(tasks') = Len(tasks) + 1
         /\ tasks'[Len(tasks) + 1] = d
         /\ \A i \in 1..Len(tasks) : tasks'[i] = tasks[i]
      \/ tasks' = tasks /\ lost' = lost \cup {d}
  BY <1>1, <1>5
<1>7. /\ \A c \in Conn \ {d} : Queued(c)' <=> Queued(c)
      /\ \/ Queued(d)' /\ lost' = lost
         \/ ~Queued(d)' /\ lost' = lost \cup {d}
  <2>1. ~Queued(d)
    BY <1>4 DEF UnreadOK, Untaken
  <2> QED
    BY <1>6, <2>1 DEF Queued
<1>8. TakenOnce'
  <2>1. \A i \in DOMAIN tasks : tasks[i] # d
    BY <1>4 DEF UnreadOK, Untaken, Queued
  <2>2. \A w \in Worker : task[w] # d
    BY <1>4 DEF UnreadOK, Untaken
  <2>3. \A i, j \in 1..Len(tasks') : tasks'[i] = tasks'[j] => i = j
    BY <1>5, <1>6, <2>1 DEF ServerInv, TakenOnce
  <2> QED
    BY <1>1, <1>7, <2>2, <2>3 DEF ServerInv, TakenOnce
<1>9. \A c \in Conn : SameHands(c)
  BY <1>1, SameHandsFrame
<1>10. WorkersOK'
  BY <1>1 DEF ServerInv, WorkersOK, Live
<1>11. OthersKept(d)
  BY <1>1, <1>2, <1>7, <1>9, OtherLoops DEF OthersKept
<1>12. ConnOK(d)'
  <2>1. Parting(d)' /\ ~Storing(d)' /\ ~Pushing(d)'
    BY <1>1 DEF Parting, PartingPlaces, Storing, Pushing
  <2>2. Has(d, {R}, {R})'
    BY <1>1, <1>4 DEF UnreadOK, Has
  <2>3. \A w \in Worker : task'[w] # d
    BY <1>1, <1>4 DEF UnreadOK, Untaken
  <2>4. d \notin lost
    BY <1>4 DEF UnreadOK
  <2>5. RecvedOK(d)'
    BY <1>1, <1>7, <2>1, <2>2, <2>3, <2>4 DEF RecvedOK, Seen, Untaken
  <2>6. LiveOK(d)'
    BY <1>1, <1>3, <1>4, <2>1, <2>5 DEF LiveOK
  <2> QED
    BY <1>1, <1>3, <2>6 DEF ConnOK
<1>13. ServerTypeOK'
  <2>1. tasks' \in Seq(Conn)
    BY <1>5, <1>6
  <2>2. kernel' \in [AnyFD -> Events] /\ mask' \in [AnyFD -> Events]
        /\ lseen' \in Events
    BY <1>1 DEF ServerInv, ServerTypeOK
  <2> QED
    BY <1>1, <1>2, <2>1, <2>2, TypeStep
<1> QED
  BY <1>1, <1>2, <1>3, <1>8, <1>10, <1>11, <1>12, <1>13, LoopMoves

\* A sleeper woken by the signal has no connection in its hands.
LEMMA WakeKeeps ==
  ASSUME ServerInv, UNCHANGED << tasks, task, staleRun, wseen, heap >>,
         \A w \in Worker : wpc'[w] = wpc[w] \/ (wpc[w] = "asleep" /\ wpc'[w] = "wait"),
         wpc' \in [Worker -> WorkerPlaces]
  PROVE  /\ TakenOnce' /\ WorkersOK'
         /\ \A c : Queued(c)' <=> Queued(c)
         /\ \A c \in Conn : SameHands(c)
         /\ Busy' <=> Busy
<1>1. \A c : Queued(c)' <=> Queued(c)
  BY DEF Queued
<1>2. \A c \in Conn : SameHands(c)
  BY DEF SameHands, HandPlaces
<1>3. WorkersOK'
  BY DEF ServerInv, WorkersOK, Live
<1>4. Busy' <=> Busy
  BY DEF Busy
<1> QED
  BY <1>1, <1>2, <1>3, <1>4 DEF ServerInv, TakenOnce

LEMMA SignalWakes ==
  ASSUME wpc \in [Worker -> WorkerPlaces], Signal \/ Broadcast
  PROVE  /\ \A w \in Worker : wpc'[w] = wpc[w]
                              \/ (wpc[w] = "asleep" /\ wpc'[w] = "wait")
         /\ wpc' \in [Worker -> WorkerPlaces]
         /\ UNCHANGED << tasks, task, staleRun >>
<1>1. CASE Signal /\ Asleep = {}
  BY <1>1 DEF Signal
<1>2. CASE \E w \in Asleep : Signal /\ wpc' = [wpc EXCEPT ![w] = "wait"]
  BY <1>2 DEF Signal, Asleep, WorkerPlaces
<1>3. CASE Broadcast
  BY <1>3 DEF Broadcast, Asleep, WorkerPlaces
<1> QED
  BY <1>1, <1>2, <1>3 DEF Signal

LEMMA PushSignalKeeps ==
  ASSUME ServerInv, fault = "none", PushSignal
  PROVE  ServerInv'
<1> PICK d \in Conn : d = lconn
  BY InHand DEF PushSignal, Main, LoopPlaces, PartingPlaces
<1>0. wpc \in [Worker -> WorkerPlaces] /\ Signal
  BY DEF ServerInv, ServerTypeOK, PushSignal
<1>1. /\ UNCHANGED << tasks, task, wseen, staleRun, heap, status >>
      /\ UNCHANGED << sockfd, clientData, fired, lateStore, el, engine, fault >>
      /\ UNCHANGED << kernel, mask, lconn, lseen, lost >>
      /\ lpc = "signal" /\ lpc' = "delete"
  BY DEF PushSignal, Signal, Main, loopVars, connVars, history
<1>2. /\ lpc \in LoopPlaces /\ lpc' \in LoopPlaces /\ lpc' \notin EndPlaces
      /\ lpc' \in MainPlaces
  BY <1>1 DEF LoopPlaces, PartingPlaces, EndPlaces, MainPlaces
<1>3. /\ TakenOnce' /\ WorkersOK'
      /\ \A c : Queued(c)' <=> Queued(c)
      /\ \A c \in Conn : SameHands(c)
  BY <1>0, <1>1, SignalWakes, WakeKeeps
<1>4. OthersKept(d)
  BY <1>1, <1>2, <1>3, OtherLoops DEF OthersKept
<1>5. Parting(d)'
  BY <1>1 DEF Parting, PartingPlaces
<1>6. ConnOK(d)'
  <2>1. SamePart(d)
    BY <1>1 DEF SamePart, Pushing, Parting, Storing, PartingPlaces
  <2>2. SameConn(d) /\ SameEvents(d)
    BY <1>1, <1>3 DEF SameConn, SameEvents
  <2>3. UNCHANGED FreeFDs
    BY <1>1 DEF FreeFDs, OpenFDs, Live
  <2>4. ConnOK(d) /\ (heap[d] = "freed" /\ Parting(d) => sockfd[d] \in FreeFDs')
    BY <1>2, <2>3, InHand DEF FreedOK
  <2> QED
    BY <1>3, <2>1, <2>2, <2>4, ConnFrame
<1>7. heap[d] = "freed" => kernel'[sockfd[d]] = {}
  <2>1. Parting(d)
    BY <1>1 DEF Parting, PartingPlaces
  <2> QED
    BY <1>1, <1>2, <2>1, InHand DEF FreedOK, Has
<1>8. ServerTypeOK'
  <2>1. wpc' \in [Worker -> WorkerPlaces]
    BY <1>0, SignalWakes
  <2> QED
    BY <1>1, <1>2, <2>1 DEF ServerInv, ServerTypeOK
<1> QED
  BY <1>1, <1>2, <1>3, <1>4, <1>5, <1>6, <1>7, <1>8, LoopMoves

\* The event that is deleted may be of a connection in any state from the push
\* on.
EventsRecved(d) ==
  /\ Has(d, IF Parting(d) /\ ~Storing(d) THEN {R} ELSE {},
            IF Parting(d) THEN {R} ELSE {})
  /\ Seen(d, {"del_ctl", "del_store"})

LEMMA DeleteKeeps ==
  ASSUME ServerInv, fault = "none", NEW d \in Conn, d = lconn, Parting(d),
         UNCHANGED << tasks, task, wpc, wseen, staleRun, heap, status >>,
         UNCHANGED << sockfd, clientData, fired, lateStore, el, engine, fault >>,
         lconn' = d \/ lpc' \notin LoopPlaces,
         lpc' \in {"dispatch", "del_ctl", "del_store"},
         \A c \in Conn \ {d} : c \in lost' <=> c \in lost,
         \A f \in AnyFD : f # sockfd[d] => kernel'[f] = kernel[f] /\ mask'[f] = mask[f],
         heap[d] = "freed" /\ FreedOK(d) => kernel'[sockfd[d]] = {} /\
           (IF Parting(d)' THEN Has(d, {}, {R})' /\ Seen(d, {"del_ctl", "del_store"})'
            ELSE mask'[sockfd[d]] = {}),
         EventsRecved(d) => EventsRecved(d)',
         EventsRecved(d) => (d \in lost' <=> d \in lost),
         \A w \in Worker : CtlOK(d, w) => CtlOK(d, w)',
         \A w \in Worker : MaskOK(d, w) => MaskOK(d, w)',
         DoneOK(d) => DoneOK(d)',
         kernel' \in [AnyFD -> Events], mask' \in [AnyFD -> Events],
         lseen' \in Events
  PROVE  ServerInv'
<1>1. /\ lpc \in LoopPlaces /\ lpc' \notin EndPlaces /\ lpc' \in MainPlaces
      /\ lpc' \in LoopPlaces => lconn' \in Conn
      /\ lpc' \notin {"body", "push"} /\ lpc \notin {"body", "push"}
  BY DEF LoopPlaces, PartingPlaces, EndPlaces, MainPlaces, Parting
<1>2. /\ TakenOnce' /\ WorkersOK'
      /\ \A c : Queued(c)' <=> Queued(c)
      /\ \A c \in Conn : SameHands(c)
  BY PoolSame
<1>3. OthersKept(d)
  BY <1>1, <1>2, OtherLoops DEF OthersKept
<1>4. /\ heap[d] = "live" \/ heap[d] = "freed"
      /\ heap[d] = "live" => LiveOK(d)
      /\ heap[d] = "freed" => FreedOK(d)
      /\ status[d] \in {"WAIT_RECV", "RECEIVING", "RECVED", "SENDING"}
  BY <1>1, InHand
<1>5. ~Pushing(d) /\ ~Pushing(d)'
  BY <1>1 DEF Pushing
<1>6. ASSUME heap[d] = "freed" PROVE FreedOK(d)'
  <2>1. FreeFDs' = FreeFDs
    BY DEF FreeFDs, OpenFDs, Live
  <2> QED
    BY <1>1, <1>2, <1>4, <1>6, <2>1 DEF FreedOK
<1>7. ASSUME heap[d] = "live", status[d] = "RECVED" PROVE RecvedOK(d)'
  <2>1. RecvedOK(d)
    BY <1>4, <1>5, <1>7 DEF LiveOK
  <2>2. EventsRecved(d)
    BY <2>1 DEF RecvedOK, EventsRecved
  <2>3. EventsRecved(d)' /\ (d \in lost' <=> d \in lost)
    BY <2>2
  <2>4. Untaken(d)' <=> Untaken(d)
    BY <1>2 DEF Untaken
  <2>5. Worked(d, {"run", "process"})' <=> Worked(d, {"run", "process"})
    BY DEF Worked
  <2> QED
    BY <1>1, <1>2, <2>1, <2>3, <2>4, <2>5 DEF RecvedOK, EventsRecved
<1>8. ASSUME heap[d] = "live", status[d] = "SENDING" PROVE SendingOK(d)'
  <2>1. SendingOK(d)
    BY <1>4, <1>8 DEF LiveOK
  <2>2. Worked(d, {"ctl", "mask"})' <=> Worked(d, {"ctl", "mask"})
    BY DEF Worked
  <2> QED
    BY <1>1, <1>2, <2>1, <2>2 DEF SendingOK
<1>9. ConnOK(d)'
  <2>1. ASSUME heap[d] = "live" PROVE LiveOK(d)'
    <3>1. status[d] \in {"RECVED", "SENDING"}
      BY <1>4, <2>1 DEF LiveOK, UnreadOK
    <3> QED
      BY <1>1, <1>4, <1>5, <1>7, <1>8, <2>1, <3>1 DEF LiveOK
  <2> QED
    BY <1>4, <1>6, <2>1 DEF ConnOK
<1>10. heap[d] = "freed" => /\ kernel'[sockfd[d]] = {}
                            /\ mask'[sockfd[d]] # {} => Parting(d)'
  BY <1>4
<1>11. ServerTypeOK'
  <2>1. tasks' \in Seq(Conn)
    BY DEF ServerInv, ServerTypeOK
  <2> QED
    BY <1>1, <2>1, TypeStep
<1> QED
  BY <1>1, <1>2, <1>3, <1>9, <1>10, <1>11, LoopMoves

LEMMA DeleteSeesKeeps ==
  ASSUME ServerInv, fault = "none", DeleteSees
  PROVE  ServerInv'
<1> PICK d \in Conn : d = lconn
  BY InHand DEF DeleteSees, LoopPlaces, PartingPlaces
<1>1. /\ UNCHANGED << tasks, task, wpc, wseen, staleRun, heap, status >>
      /\ UNCHANGED << sockfd, clientData, fired, lateStore, el, engine, fault >>
      /\ UNCHANGED << kernel, mask, lost >>
      /\ lpc = "delete"
      /\ IF mask[sockfd[d]] = {}
         THEN lpc' = "dispatch" /\ lconn' = NoData /\ UNCHANGED lseen
         ELSE lpc' = "del_ctl" /\ lseen' = mask[sockfd[d]] /\ UNCHANGED lconn
  BY DEF DeleteSees, poolVars, loopVars, connVars, history
<1>2. Parting(d) /\ ~Storing(d) /\ ~Pushing(d) /\ lpc \in LoopPlaces
  BY <1>1 DEF Parting, PartingPlaces, Storing, LoopPlaces, Pushing
<1>3. R \in mask[sockfd[d]]
  <2>1. /\ heap[d] = "live" => LiveOK(d)
        /\ heap[d] = "freed" => FreedOK(d)
        /\ heap[d] = "live" \/ heap[d] = "freed"
        /\ status[d] \in {"WAIT_RECV", "RECEIVING", "RECVED", "SENDING"}
    BY <1>2, InHand
  <2>2. CASE heap[d] = "freed"
    BY <1>2, <2>1, <2>2 DEF FreedOK, Has
  <2>3. CASE heap[d] = "live" /\ status[d] = "RECVED"
    BY <1>2, <2>1, <2>3 DEF LiveOK, RecvedOK, Has
  <2>4. CASE heap[d] = "live" /\ status[d] = "SENDING"
    <3>1. SendingOK(d)
      BY <2>1, <2>4 DEF LiveOK
    <3>2. ASSUME NEW w \in Worker, task[w] = d, wpc[w] = "ctl" PROVE R \in mask[sockfd[d]]
      <4>1. CtlOK(d, w)
        BY <3>1, <3>2 DEF SendingOK
      <4> QED
        BY <1>2, <4>1 DEF CtlOK, Has
    <3>3. ASSUME NEW w \in Worker, task[w] = d, wpc[w] = "mask" PROVE R \in mask[sockfd[d]]
      <4>1. MaskOK(d, w)
        BY <3>1, <3>3 DEF SendingOK
      <4> QED
        BY <1>2, <4>1 DEF MaskOK, Has
    <3>4. ASSUME ~Worked(d, {"ctl", "mask"}) PROVE R \in mask[sockfd[d]]
      <4>1. DoneOK(d)
        BY <3>1, <3>4 DEF SendingOK
      <4> QED
        BY <1>2, <4>1 DEF DoneOK, Has
    <3> QED
      BY <3>2, <3>3, <3>4 DEF Worked
  <2>5. ~(heap[d] = "live" /\ status[d] \in {"WAIT_RECV", "RECEIVING"})
    BY <1>2, <2>1 DEF LiveOK, UnreadOK
  <2> QED
    BY <2>1, <2>2, <2>3, <2>4, <2>5
<1>4. lpc' = "del_ctl" /\ lseen' = mask[sockfd[d]] /\ lconn' = d
  BY <1>1, <1>3
<1>5. Parting(d)' /\ ~Storing(d)'
  BY <1>4 DEF Parting, PartingPlaces, Storing
<1>6. \A k, m : Has(d, k, m)' <=> Has(d, k, m)
  BY <1>1 DEF Has
<1>7. \A k : Has(d, k, {R}) => Seen(d, {"del_ctl", "del_store"})'
  BY <1>4 DEF Has, Seen
<1>8. EventsRecved(d) => EventsRecved(d)'
  BY <1>2, <1>5, <1>6, <1>7 DEF EventsRecved
<1>9. ASSUME NEW w \in Worker
      PROVE  /\ CtlOK(d, w) => CtlOK(d, w)'
             /\ MaskOK(d, w) => MaskOK(d, w)'
  <2>1. CtlOK(d, w) => CtlOK(d, w)'
    BY <1>1, <1>2, <1>5, <1>6, <1>7 DEF CtlOK
  <2>2. MaskOK(d, w) => MaskOK(d, w)'
    BY <1>1, <1>2, <1>5, <1>6, <1>7 DEF MaskOK
  <2> QED
    BY <2>1, <2>2
<1>10. DoneOK(d) => DoneOK(d)'
  BY <1>1, <1>2, <1>4, <1>5, <1>6 DEF DoneOK, Has
<1>11. FreedOK(d) => Has(d, {}, {R})' /\ Seen(d, {"del_ctl", "del_store"})'
                     /\ kernel'[sockfd[d]] = {}
  BY <1>1, <1>2, <1>6, <1>7 DEF FreedOK, Has
<1>12. /\ kernel' \in [AnyFD -> Events] /\ mask' \in [AnyFD -> Events]
       /\ lseen' \in Events
  BY <1>1, <1>2, <1>4, InHand DEF ServerInv, ServerTypeOK
<1> QED
  BY <1>1, <1>2, <1>4, <1>5, <1>8, <1>9, <1>10, <1>11, <1>12, DeleteKeeps

LEMMA DeleteCtlKeeps ==
  ASSUME ServerInv, fault = "none", DeleteCtl
  PROVE  ServerInv'
<1> PICK d \in Conn : d = lconn
  BY InHand DEF DeleteCtl, Main, LoopPlaces, PartingPlaces
<1>1. /\ UNCHANGED << tasks, task, wpc, wseen, staleRun, heap, status >>
      /\ UNCHANGED << sockfd, clientData, fired, lateStore, el, engine, fault >>
      /\ UNCHANGED << mask, lconn >>
      /\ lpc = "del_ctl" /\ lpc' = "del_store"
      /\ kernel' = [kernel EXCEPT ![sockfd[d]] = IF @ = {} THEN {} ELSE lseen \ {R}]
      /\ lseen' = mask[sockfd[d]]
      /\ lost' = IF W \in kernel[sockfd[d]] \ kernel'[sockfd[d]]
                 THEN lost \cup {d} ELSE lost
  BY DEF DeleteCtl, DelEvent, Main, poolVars, connVars
<1>2. /\ Parting(d) /\ ~Storing(d) /\ lpc \in LoopPlaces
      /\ Parting(d)' /\ Storing(d)'
  BY <1>1 DEF Parting, PartingPlaces, Storing, LoopPlaces
<1>3. /\ kernel \in [AnyFD -> Events] /\ sockfd[d] \in AnyFD
      /\ mask \in [AnyFD -> Events] /\ lseen \in Events
  BY DEF ServerInv, ServerTypeOK
<1>4. /\ kernel'[sockfd[d]] = IF kernel[sockfd[d]] = {} THEN {} ELSE lseen \ {R}
      /\ \A f \in AnyFD : f # sockfd[d] => kernel'[f] = kernel[f]
  BY <1>1, <1>3
<1>5. \A c \in Conn \ {d} : c \in lost' <=> c \in lost
  BY <1>1
<1>6. Seen(d, {"del_ctl", "del_store"}) => lseen = {R}
  BY <1>1 DEF Seen
<1>7. /\ kernel[sockfd[d]] \in {{}, {R}} => lost' = lost
      /\ lseen = {R} => kernel'[sockfd[d]] = {}
  BY <1>1, <1>4, EventsDiffer
<1>8. \A k : Has(d, k, {R}) => Seen(d, {"del_ctl", "del_store"})'
  BY <1>1 DEF Has, Seen
<1>9. EventsRecved(d) => EventsRecved(d)' /\ lost' = lost
  <2> SUFFICES ASSUME EventsRecved(d) PROVE EventsRecved(d)' /\ lost' = lost
    OBVIOUS
  <2>1. Has(d, {R}, {R}) /\ lseen = {R}
    BY <1>2, <1>6 DEF EventsRecved
  <2>2. Has(d, {}, {R})' /\ lost' = lost
    BY <1>1, <1>7, <2>1 DEF Has
  <2> QED
    BY <1>2, <1>8, <2>1, <2>2 DEF EventsRecved
<1>10. ASSUME NEW w \in Worker
       PROVE  /\ CtlOK(d, w) => CtlOK(d, w)'
              /\ MaskOK(d, w) => MaskOK(d, w)'
  <2>1. ASSUME CtlOK(d, w) PROVE CtlOK(d, w)'
    <3>1. Has(d, {R}, {R}) /\ lseen = {R} /\ d \notin lost /\ wseen[w] = {R}
      BY <1>2, <1>6, <2>1 DEF CtlOK
    <3>2. Has(d, {}, {R})' /\ lost' = lost
      BY <1>1, <1>7, <3>1 DEF Has
    <3> QED
      BY <1>1, <1>2, <1>8, <3>1, <3>2 DEF CtlOK
  <2>2. ASSUME MaskOK(d, w) PROVE MaskOK(d, w)'
    <3>1. Has(d, {R, W}, {R}) /\ lseen = {R} /\ wseen[w] = {R}
      BY <1>2, <1>6, <2>2 DEF MaskOK
    <3>2. Has(d, {}, {R})' /\ d \in lost'
      BY <1>1, <1>7, <3>1 DEF Has
    <3> QED
      BY <1>1, <1>2, <1>8, <3>1, <3>2 DEF MaskOK
  <2> QED
    BY <2>1, <2>2
<1>11. ASSUME DoneOK(d) PROVE DoneOK(d)'
  <2>1. Has(d, {R, W}, {R, W}) /\ lseen \in {{R}, {R, W}} /\ d \notin lost
    BY <1>1, <1>2, <1>11 DEF DoneOK
  <2>2. CASE lseen = {R}
    <3>1. kernel'[sockfd'[d]] = {} /\ d \in lost'
      BY <1>1, <1>7, <2>1, <2>2 DEF Has
    <3> QED
      BY <1>2, <3>1 DEF DoneOK
  <2>3. CASE lseen = {R, W}
    <3>1. kernel'[sockfd[d]] = {W}
      BY <1>4, <2>1, <2>3, EventsDiffer DEF Has
    <3>2. lost' = lost /\ lseen' = {R, W} /\ Has(d, {W}, {R, W})'
      BY <1>1, <2>1, <3>1 DEF Has
    <3> QED
      BY <1>2, <2>1, <3>2 DEF DoneOK
  <2> QED
    BY <2>1, <2>2, <2>3
<1>12. FreedOK(d) => Has(d, {}, {R})' /\ Seen(d, {"del_ctl", "del_store"})'
                     /\ kernel'[sockfd[d]] = {}
  <2>1. FreedOK(d) => Has(d, {}, {R})
    BY <1>2 DEF FreedOK
  <2> QED
    BY <1>1, <1>4, <1>8, <2>1 DEF Has
<1>13. kernel' \in [AnyFD -> Events] /\ mask' \in [AnyFD -> Events] /\ lseen' \in Events
  <2>1. {} \in Events /\ lseen \ {R} \in Events
    BY <1>3 DEF Events
  <2> QED
    BY <1>1, <1>3, <2>1
<1> QED
  BY <1>1, <1>2, <1>4, <1>5, <1>9, <1>10, <1>11, <1>12, <1>13, DeleteKeeps

LEMMA DeleteStoreKeeps ==
  ASSUME ServerInv, fault = "none", DeleteStore
  PROVE  ServerInv'
<1> PICK d \in Conn : d = lconn
  BY InHand DEF DeleteStore, Main, LoopPlaces, PartingPlaces
<1>0. PICK loaded \in {lseen, mask[sockfd[d]]} :
        mask' = [mask EXCEPT ![sockfd[d]] = loaded \ {R}]
  BY DEF DeleteStore
<1>1. /\ UNCHANGED << tasks, task, wpc, wseen, staleRun, heap, status >>
      /\ UNCHANGED << sockfd, clientData, fired, lateStore, el, engine, fault >>
      /\ UNCHANGED << kernel, lost >>
      /\ lpc = "del_store" /\ lpc' = "dispatch" /\ lseen' = {}
  BY DEF DeleteStore, Main, poolVars, connVars, history
<1>2. /\ Parting(d) /\ Storing(d) /\ lpc' \notin LoopPlaces
      /\ ~Parting(d)' /\ ~Storing(d)'
  BY <1>1 DEF Parting, PartingPlaces, Storing, LoopPlaces
<1>3. /\ mask \in [AnyFD -> Events] /\ sockfd[d] \in AnyFD
      /\ kernel \in [AnyFD -> Events] /\ lseen \in Events
  BY DEF ServerInv, ServerTypeOK
<1>4. /\ mask'[sockfd[d]] = loaded \ {R}
      /\ \A f \in AnyFD : f # sockfd[d] => mask'[f] = mask[f]
  BY <1>0, <1>3
<1>5. Seen(d, {"del_ctl", "del_store"}) => lseen = {R}
  BY <1>1 DEF Seen
<1>6. Seen(d, {"del_ctl", "del_store"})'
  BY <1>1 DEF Seen
<1>7. ASSUME NEW k, Has(d, k, {R}), lseen = {R} PROVE Has(d, k, {})'
  BY <1>1, <1>4, <1>7 DEF Has
<1>8. EventsRecved(d) => EventsRecved(d)'
  <2> SUFFICES ASSUME EventsRecved(d) PROVE EventsRecved(d)'
    OBVIOUS
  <2>1. Has(d, {}, {R}) /\ lseen = {R}
    BY <1>2, <1>5 DEF EventsRecved
  <2>2. Has(d, {}, {})'
    BY <1>7, <2>1
  <2> QED
    BY <1>2, <1>6, <2>2 DEF EventsRecved
<1>9. ASSUME NEW w \in Worker
      PROVE  /\ CtlOK(d, w) => CtlOK(d, w)'
             /\ MaskOK(d, w) => MaskOK(d, w)'
  <2>1. ASSUME CtlOK(d, w) PROVE CtlOK(d, w)'
    <3>1. Has(d, {}, {R}) /\ lseen = {R} /\ d \notin lost /\ wseen[w] = {R}
      BY <1>2, <1>5, <2>1 DEF CtlOK
    <3>2. Has(d, {}, {})'
      BY <1>7, <3>1
    <3> QED
      BY <1>1, <1>2, <1>6, <3>1, <3>2, EventsDiffer DEF CtlOK
  <2>2. ASSUME MaskOK(d, w) PROVE MaskOK(d, w)'
    <3>1. Has(d, {}, {R}) /\ lseen = {R} /\ d \in lost
      BY <1>2, <1>5, <2>2 DEF MaskOK
    <3>2. Has(d, {}, {})'
      BY <1>7, <3>1
    <3> QED
      BY <1>1, <1>2, <3>1, <3>2 DEF MaskOK
  <2> QED
    BY <2>1, <2>2
<1>10. ASSUME DoneOK(d) PROVE DoneOK(d)'
  <2>1. CASE d \in lost
    BY <1>1, <1>2, <1>10, <2>1 DEF DoneOK
  <2>2. CASE d \notin lost
    <3>1. Has(d, {W}, {R, W}) /\ lseen = {R, W}
      BY <1>2, <1>10, <2>2 DEF DoneOK
    <3>2. Has(d, {W}, {W})'
      BY <1>1, <1>4, <3>1, EventsDiffer DEF Has
    <3> QED
      BY <1>1, <1>2, <2>2, <3>2 DEF DoneOK
  <2> QED
    BY <2>1, <2>2
<1>11. FreedOK(d) => mask'[sockfd[d]] = {} /\ kernel'[sockfd[d]] = {}
  <2>1. FreedOK(d) => Has(d, {}, {R}) /\ lseen = {R}
    BY <1>2, <1>5 DEF FreedOK
  <2> QED
    BY <1>1, <1>7, <2>1 DEF Has
<1>12. kernel' \in [AnyFD -> Events] /\ mask' \in [AnyFD -> Events] /\ lseen' \in Events
  <2>1. {} \in Events /\ loaded \ {R} \in Events
    BY <1>3 DEF Events
  <2> QED
    BY <1>0, <1>1, <1>3, <2>1
<1> QED
  BY <1>1, <1>2, <1>4, <1>8, <1>9, <1>10, <1>11, <1>12, DeleteKeeps

-----------------------------------------------------------------------------
(* Workers without a connection in their hands.                            *)

IdlePlaces == WorkerPlaces
              \ {"run", "process", "ctl", "mask", "proc", "data"}

LEMMA IdleKeeps ==
  ASSUME ServerInv, fault = "none", NEW w \in Worker, NEW to \in WorkerPlaces,
         wpc[w] \in IdlePlaces, wpc' = [wpc EXCEPT ![w] = to],
         \/ to \in IdlePlaces /\ staleRun' = staleRun
         \/ to = "run" /\ staleRun' /\ tasks # << >>,
         UNCHANGED << tasks, task, loopVars, connVars, mainVars, wseen, fault >>,
         UNCHANGED history, staleRun' \in BOOLEAN
  PROVE  ServerInv'
<1> USE DEF IdlePlaces
<1>1. /\ UNCHANGED << heap, status, sockfd, lost, lateStore, busyAtStop >>
      /\ UNCHANGED << mask, kernel, clientData, fired >>
      /\ UNCHANGED << lpc, lconn, lseen, el, engine >>
      /\ staleRun => staleRun'
  BY DEF loopVars, connVars, mainVars, history
<1>2. wpc \in [Worker -> WorkerPlaces]
  BY DEF ServerInv, ServerTypeOK
<1>3. wpc' \in [Worker -> WorkerPlaces] /\ wpc'[w] = to
      /\ \A v \in Worker \ {w} : wpc'[v] = wpc[v]
  BY <1>2
<1>4. \A c \in Conn : SameHands(c)
  <2>1. ASSUME NEW v \in Worker, wpc[v] \in HandPlaces PROVE wpc'[v] = wpc[v]
    BY <1>3, <2>1 DEF HandPlaces
  <2>2. ASSUME NEW v \in Worker
        PROVE  wpc[v] \in HandPlaces \/ wpc'[v] \notin HandPlaces
               \/ (wpc'[v] = "run" /\ staleRun')
    BY <1>3 DEF HandPlaces
  <2> QED
    BY <1>1, <2>1, <2>2 DEF SameHands
<1>5. \A c \in Conn : SameLoop(c)
  BY <1>1, SameLoopFrame
<1>6. TakenOnce' /\ ConnsOK' /\ ClosedOK' /\ Owners'
  BY <1>1, <1>4, <1>5, QuietFrame
<1>7. FiredOK'
  BY <1>1, <1>5, FiredFrame
<1>8. WorkersOK'
  <2>1. Live' = Live
    BY <1>1 DEF Live
  <2> QED
    BY <1>1, <1>3, <2>1 DEF ServerInv, WorkersOK
<1>9. ServerTypeOK'
  BY <1>1, <1>3 DEF ServerInv, ServerTypeOK
<1>10. EndOK'
  <2>1. Busy' => Busy
    BY <1>3 DEF Busy
  <2> QED
    BY <1>1, <2>1 DEF ServerInv, EndOK
<1>11. FaultsOK'
  BY <1>1, FaultFrame
<1> QED
  BY <1>6, <1>7, <1>8, <1>9, <1>10, <1>11 DEF ServerInv

LEMMA WaitsKeep ==
  ASSUME ServerInv, fault = "none", NEW w \in Worker,
         Start(w) \/ TestExit(w) \/ Wait(w) \/ WakeUp(w), Untouched
  PROVE  ServerInv'
<1>1. \E from, to \in IdlePlaces : Step(w, from, to)
  <2> USE DEF IdlePlaces, WorkerPlaces, Awake
  <2>1. CASE Start(w)
    BY <2>1 DEF Start
  <2>2. CASE TestExit(w)
    BY <2>2 DEF TestExit
  <2>3. CASE Wait(w)
    BY <2>3 DEF Wait
  <2>4. CASE WakeUp(w)
    BY <2>4 DEF WakeUp
  <2> QED
    BY <2>1, <2>2, <2>3, <2>4
<1>2. UNCHANGED << tasks, task, staleRun >>
  BY DEF Start, TestExit, Wait, WakeUp
<1>3. staleRun \in BOOLEAN
  BY DEF ServerInv, ServerTypeOK
<1> QED
  BY <1>1, <1>2, <1>3, IdleKeeps DEF Step, Untouched, IdlePlaces

LEMMA DequeueReturnsKeeps ==
  ASSUME ServerInv, fault = "none", NEW w \in Worker, DequeueReturns(w), Untouched
  PROVE  ServerInv'
<1>1. /\ wpc[w] \in IdlePlaces
      /\ wpc' = [wpc EXCEPT ![w] = IF tasks = << >> THEN "loop" ELSE "run"]
      /\ staleRun' = (staleRun \/ tasks # << >>)
      /\ UNCHANGED << tasks, task >>
  BY DEF DequeueReturns, Step, IdlePlaces, WorkerPlaces, Awake
<1>2. staleRun \in BOOLEAN
  BY DEF ServerInv, ServerTypeOK
<1>3. "loop" \in IdlePlaces /\ "loop" \in WorkerPlaces /\ "run" \in WorkerPlaces
  BY DEF IdlePlaces, WorkerPlaces, Awake
<1>4. CASE tasks = << >>
  <2>1. staleRun' = staleRun
    BY <1>1, <1>2, <1>4
  <2> QED
    BY <1>1, <1>2, <1>3, <1>4, <2>1, IdleKeeps DEF Untouched
<1>5. CASE tasks # << >>
  <2>1. staleRun' = TRUE
    BY <1>1, <1>5
  <2> QED
    BY <1>1, <1>3, <1>5, <2>1, IdleKeeps DEF Untouched
<1> QED
  BY <1>4, <1>5

LEMMA DequeueKeeps ==
  ASSUME ServerInv, fault = "none", NEW w \in Worker, Dequeue(w), Untouched
  PROVE  ServerInv'
<1>1. CASE tasks = << >>
  <2>1. /\ wpc[w] \in IdlePlaces /\ "empty" \in IdlePlaces
        /\ wpc' = [wpc EXCEPT ![w] = "empty"]
        /\ UNCHANGED << tasks, task, staleRun >>
    BY <1>1 DEF Dequeue, Step, IdlePlaces, WorkerPlaces, Awake
  <2>2. staleRun \in BOOLEAN
    BY DEF ServerInv, ServerTypeOK
  <2> QED
    BY <2>1, <2>2, IdleKeeps DEF Untouched, IdlePlaces
<1>2. CASE tasks # << >>
  <2>0. /\ tasks \in Seq(Conn) /\ wpc \in [Worker -> WorkerPlaces]
        /\ task \in [Worker -> Conn \cup {NoTask}]
    BY DEF ServerInv, ServerTypeOK
  <2>1. /\ Head(tasks) = tasks[1] /\ tasks' = Tail(tasks) /\ tasks' \in Seq(Conn)
        /\ Len(tasks) \in Nat \ {0} /\ Len(tasks') = Len(tasks) - 1
        /\ DOMAIN tasks = 1..Len(tasks) /\ DOMAIN tasks' = 1..Len(tasks')
        /\ \A i \in 1..Len(tasks') : tasks'[i] = tasks[i + 1]
        /\ tasks[1] \in Conn
    <3>1. tasks' = Tail(tasks)
      BY <1>2 DEF Dequeue
    <3>2. /\ Tail(tasks) \in Seq(Conn) /\ Len(Tail(tasks)) = Len(tasks) - 1
          /\ \A i \in 1..Len(Tail(tasks)) : Tail(tasks)[i] = tasks[i + 1]
      BY <1>2, <2>0, HeadTailProperties
    <3>3. Len(tasks) \in Nat \ {0} /\ DOMAIN tasks = 1..Len(tasks)
      BY <1>2, <2>0, EmptySeq, LenProperties
    <3>4. Head(tasks) = tasks[1] /\ tasks[1] \in Conn
      BY <1>2, <2>0, <3>3
    <3>5. DOMAIN Tail(tasks) = 1..Len(Tail(tasks))
      BY <3>2, LenProperties
    <3> QED
      BY <3>1, <3>2, <3>3, <3>4, <3>5
  <2> PICK d \in Conn : d = tasks[1]
    BY <2>1
  <2>2. /\ wpc[w] = "deq" /\ wpc'[w] = "run" /\ task'[w] = d
        /\ wpc' \in [Worker -> WorkerPlaces]
        /\ task' \in [Worker -> Conn \cup {NoTask}]
        /\ \A v \in Worker \ {w} : wpc'[v] = wpc[v] /\ task'[v] = task[v]
    <3>1. "run" \in WorkerPlaces
      BY DEF WorkerPlaces, Awake
    <3> QED
      BY <1>2, <2>0, <2>1, <3>1 DEF Dequeue, Step
  <2>3. /\ UNCHANGED << heap, status, sockfd, lost, lateStore, busyAtStop >>
        /\ UNCHANGED << mask, kernel, clientData, fired, wseen, staleRun >>
        /\ UNCHANGED << lpc, lconn, lseen, el, engine, fault >>
    BY DEF Untouched, loopVars, connVars, mainVars, history, Dequeue
  <2>4. Queued(d) /\ \A v \in Worker : task[v] # d
    <3>1. Queued(d)
      BY <2>1 DEF Queued
    <3> QED
      BY <3>1 DEF ServerInv, TakenOnce
  <2>5. \A c \in Conn : Queued(c)' <=> Queued(c) /\ c # d
    <3>1. ASSUME NEW c \in Conn, Queued(c)' PROVE Queued(c) /\ c # d
      <4>1. PICK i \in 1..Len(tasks') : tasks'[i] = c
        BY <2>1, <3>1 DEF Queued
      <4>2. i + 1 \in 1..Len(tasks) /\ tasks[i + 1] = c /\ i + 1 # 1
        BY <2>1, <4>1
      <4>3. 1 \in 1..Len(tasks)
        BY <2>1
      <4> QED
        BY <2>1, <4>2, <4>3 DEF Queued, ServerInv, TakenOnce
    <3>2. ASSUME NEW c \in Conn, Queued(c), c # d PROVE Queued(c)'
      <4>1. PICK i \in 1..Len(tasks) : tasks[i] = c
        BY <2>1, <3>2 DEF Queued
      <4>2. i # 1
        BY <3>2, <4>1
      <4>3. i - 1 \in 1..Len(tasks') /\ (i - 1) + 1 = i
        BY <2>1, <4>1, <4>2
      <4>4. tasks'[i - 1] = c
        BY <2>1, <4>1, <4>3
      <4> QED
        BY <2>1, <4>3, <4>4 DEF Queued
    <3> QED
      BY <3>1, <3>2
  <2>6. TakenOnce'
    <3>1. \A i, j \in 1..Len(tasks') : tasks'[i] = tasks'[j] => i = j
      <4> SUFFICES ASSUME NEW i \in 1..Len(tasks'), NEW j \in 1..Len(tasks'),
                          tasks'[i] = tasks'[j]
                   PROVE  i = j
        OBVIOUS
      <4>1. i + 1 \in 1..Len(tasks) /\ j + 1 \in 1..Len(tasks)
        BY <2>1
      <4>2. tasks[i + 1] = tasks[j + 1]
        BY <2>1
      <4>3. i + 1 = j + 1
        BY <4>1, <4>2 DEF ServerInv, TakenOnce
      <4> QED
        BY <4>3
    <3>2. \A u, v \in Worker : task'[u] = task'[v] /\ task'[u] # NoTask => u = v
      BY <2>2, <2>4 DEF ServerInv, TakenOnce
    <3>3. \A c \in Conn, v \in Worker : Queued(c)' => task'[v] # c
      BY <2>2, <2>5 DEF ServerInv, TakenOnce
    <3> QED
      BY <3>1, <3>2, <3>3 DEF TakenOnce
  <2>7. heap[d] = "live" /\ status[d] = "RECVED" /\ ~Pushing(d) /\ RecvedOK(d)
    <3>1. ConnOK(d) /\ heap[d] \in {"none", "live", "freed"}
          /\ status[d] \in {"WAIT_RECV", "RECEIVING", "RECVED", "SENDING"}
      BY DEF ServerInv, ConnsOK, ServerTypeOK
    <3>2. heap[d] = "live" /\ LiveOK(d)
      BY <2>4, <3>1 DEF ConnOK, NoneOK, Untaken, FreedOK
    <3> QED
      BY <2>4, <3>1, <3>2 DEF LiveOK, UnreadOK, Untaken, SendingOK
  <2>8. ASSUME NEW c \in Conn \ {d} PROVE SameHands(c)
    BY <2>2, <2>3 DEF SameHands, HandPlaces
  <2>9. OthersKept(d)
    BY <2>3, <2>5, <2>8, SameLoopFrame DEF OthersKept
  <2>10. ConnOK(d)'
    <3>1. \A k, m : Has(d, k, m)' <=> Has(d, k, m)
      BY <2>3 DEF Has
    <3>2. /\ Parting(d)' <=> Parting(d)
          /\ Storing(d)' <=> Storing(d)
          /\ Pushing(d)' <=> Pushing(d)
          /\ Seen(d, {"del_ctl", "del_store"})' <=> Seen(d, {"del_ctl", "del_store"})
      BY <2>3 DEF Parting, Storing, Pushing, Seen
    <3>3. d \notin lost
      BY <2>4, <2>7 DEF RecvedOK, Untaken
    <3>4. Worked(d, {"run", "process"})'
      BY <2>2 DEF Worked
    <3>5. \A v \in Worker : task'[v] = d => wpc'[v] \in {"run", "process"}
      BY <2>2, <2>4
    <3>6. RecvedOK(d)'
      BY <2>3, <2>7, <3>1, <3>2, <3>3, <3>4, <3>5 DEF RecvedOK
    <3>7. LiveOK(d)
      BY <2>7 DEF ServerInv, ConnsOK, ConnOK
    <3>8. LiveOK(d)'
      BY <2>3, <2>7, <3>2, <3>6, <3>7 DEF LiveOK
    <3> QED
      BY <2>3, <2>7, <3>8 DEF ConnOK
  <2>11. W \notin fired[sockfd[d]]
    BY <2>7, NotFired DEF Live
  <2>12. ConnsOK' /\ Owners' /\ ClosedOK' /\ FiredOK'
    BY <2>3, <2>7, <2>9, <2>10, <2>11, HoldKeeps
  <2>13. WorkersOK'
    <3>1. Live' = Live /\ d \in Live
      BY <2>3, <2>7 DEF Live
    <3> QED
      BY <2>2, <2>3, <3>1 DEF ServerInv, WorkersOK
  <2>14. ServerTypeOK'
    BY <2>1, <2>2, <2>3 DEF ServerInv, ServerTypeOK
  <2>15. EndOK'
    BY <1>2, <2>3 DEF ServerInv, EndOK, Busy
  <2>16. FaultsOK'
    BY <2>3, FaultFrame
  <2> QED
    BY <2>6, <2>12, <2>13, <2>14, <2>15, <2>16 DEF ServerInv
<1> QED
  BY <1>1, <1>2

-----------------------------------------------------------------------------
(* A worker with a connection in its hands.                                *)

\* The connection a worker has is open, nobody else's, and handed over once.
LEMMA Handed ==
  ASSUME ServerInv, NEW w \in Worker,
         \/ wpc[w] \in {"process", "ctl", "mask"}
         \/ wpc[w] = "run" /\ ~staleRun
  PROVE  /\ task[w] \in Live /\ task[w] \in Conn /\ heap[task[w]] = "live"
         /\ LiveOK(task[w])
         /\ \A v \in Worker : task[v] = task[w] => v = w
         /\ ~Queued(task[w]) /\ ~Pushing(task[w])
         /\ lconn = task[w] => lpc \notin {"body", "push"}
         /\ sockfd[task[w]] \in AnyFD
         /\ wpc[w] \in {"run", "process"} =>
              status[task[w]] = "RECVED" /\ RecvedOK(task[w])
         /\ wpc[w] \in {"ctl", "mask"} =>
              status[task[w]] = "SENDING" /\ SendingOK(task[w])
         /\ wpc[w] = "ctl" => CtlOK(task[w], w)
         /\ wpc[w] = "mask" => MaskOK(task[w], w)
<1>1. task[w] \in Conn
  BY DEF ServerInv, WorkersOK, Live
<1> PICK d \in Conn : d = task[w]
  BY <1>1
<1>2. ConnOK(d) /\ heap[d] \in {"none", "live", "freed"} /\ sockfd[d] \in AnyFD
      /\ status[d] \in {"WAIT_RECV", "RECEIVING", "RECVED", "SENDING"}
  BY DEF ServerInv, ConnsOK, ServerTypeOK
<1>3. heap[d] = "live"
  BY <1>2 DEF ConnOK, NoneOK, Untaken, FreedOK
<1>4. LiveOK(d) /\ d \in Live
  BY <1>2, <1>3 DEF ConnOK, Live
<1>5. status[d] \in {"RECVED", "SENDING"} /\ ~Pushing(d)
  BY <1>2, <1>4 DEF LiveOK, UnreadOK, Untaken
<1>6. d # NoTask /\ (\A v \in Worker : task[v] = d => v = w) /\ ~Queued(d)
  BY PoolAssumption, ConnAssumption DEF ServerInv, TakenOnce
<1>7. CASE status[d] = "RECVED"
  <2>1. RecvedOK(d)
    BY <1>4, <1>5, <1>7 DEF LiveOK
  <2>2. lconn = d => lpc \notin {"body", "push"}
    BY <1>5, <2>1 DEF RecvedOK, Pushing
  <2>3. wpc[w] \in {"run", "process"}
    BY <2>1 DEF RecvedOK
  <2> QED
    BY <1>2, <1>3, <1>4, <1>5, <1>6, <1>7, <2>1, <2>2, <2>3
<1>8. CASE status[d] = "SENDING"
  <2>1. SendingOK(d)
    BY <1>4, <1>8 DEF LiveOK
  <2>2. /\ lconn = d => lpc \notin {"body", "push"}
        /\ wpc[w] \notin {"run", "process"}
        /\ wpc[w] = "ctl" => CtlOK(d, w)
        /\ wpc[w] = "mask" => MaskOK(d, w)
    BY <2>1 DEF SendingOK
  <2> QED
    BY <1>2, <1>3, <1>4, <1>5, <1>6, <1>8, <2>1, <2>2
<1> QED
  BY <1>5, <1>7, <1>8

LEMMA FaultsKeep ==
  ASSUME ServerInv, NEW what, Faults(what),
         what = "task" => staleRun,
         what = "connection" => lateStore,
         what \in {"loop", "engine"} => busyAtStop
  PROVE  ServerInv'
<1>1. /\ UNCHANGED << tasks, wpc, task, staleRun >>
      /\ UNCHANGED << heap, status, sockfd, lost, wseen, lateStore >>
      /\ UNCHANGED << mask, kernel, clientData, fired >>
      /\ UNCHANGED << lpc, lconn, lseen, el, engine, busyAtStop >>
      /\ fault' = what
  BY DEF Faults, poolVars, loopVars, connVars, mainVars, history
<1>2. \A c \in Conn : SameLoop(c)
  BY <1>1, SameLoopFrame
<1>3. /\ TakenOnce' /\ ConnsOK' /\ Owners' /\ ClosedOK' /\ WorkersOK'
      /\ FiredOK'
  BY <1>1, <1>2, OutsideKeeps
<1>4. ServerTypeOK'
  BY <1>1 DEF ServerInv, ServerTypeOK
<1>5. EndOK' /\ FaultsOK'
  BY <1>1, EndFrame DEF FaultsOK
<1> QED
  BY <1>3, <1>4, <1>5 DEF ServerInv

\* Once the loop or the engine has gone, a worker still has a connection only
\* if it was with the pool when the loop ended.
LEMMA LateWorker ==
  ASSUME ServerInv, Running, NEW w \in Worker,
         wpc[w] \in {"process", "ctl", "mask", "proc", "data"},
         el = "freed" \/ engine = "freed"
  PROVE  busyAtStop
  BY DEF ServerInv, EndOK, Running, Busy, EndPlaces

LEMMA OtherHands ==
  ASSUME UNCHANGED << task, staleRun >>, NEW w \in Worker,
         \A v \in Worker \ {w} : wpc'[v] = wpc[v] /\ wseen'[v] = wseen[v]
  PROVE  \A c \in Conn \ {task[w]} : SameHands(c)
  BY DEF SameHands

\* What a worker's step with its connection leaves alone.
WorkerFrame(w) ==
  /\ UNCHANGED << tasks, task, staleRun, sockfd, fired, lost, busyAtStop >>
  /\ UNCHANGED << lpc, lconn, lseen, el, engine, fault >>
  /\ \A v \in Worker \ {w} : wpc'[v] = wpc[v] /\ wseen'[v] = wseen[v]
  /\ wpc[w] \in {"run", "process", "ctl", "mask", "proc", "data"}

LEMMA WorkerMoves ==
  ASSUME ServerInv, fault = "none", NEW w \in Worker, WorkerFrame(w),
         \A c \in Conn \ {task[w]} : status'[c] = status[c],
         lateStore => lateStore'
  PROVE  /\ OthersKept(task[w])
         /\ TakenOnce' /\ EndOK' /\ FaultsOK'
         /\ \A c : Queued(c)' <=> Queued(c)
         /\ \A c \in Conn : SameLoop(c)
         /\ \A c \in Conn : /\ Parting(c)' <=> Parting(c)
                            /\ Storing(c)' <=> Storing(c)
                            /\ Pushing(c)' <=> Pushing(c)
                            /\ Seen(c, {"del_ctl", "del_store"})'
                                 <=> Seen(c, {"del_ctl", "del_store"})
<1> USE DEF WorkerFrame
<1>1. \A c : Queued(c)' <=> Queued(c)
  BY DEF Queued
<1>2. \A c \in Conn : SameLoop(c)
  BY SameLoopFrame
<1>3. OthersKept(task[w])
  BY <1>1, <1>2, OtherHands DEF OthersKept
<1>4. TakenOnce'
  BY <1>1 DEF ServerInv, TakenOnce
<1>5. EndOK'
  <2>1. Busy' => Busy
    BY DEF Busy
  <2> QED
    BY <2>1 DEF ServerInv, EndOK
<1>6. FaultsOK'
  BY FaultFrame
<1>7. \A c \in Conn : /\ Parting(c)' <=> Parting(c)
                      /\ Storing(c)' <=> Storing(c)
                      /\ Pushing(c)' <=> Pushing(c)
                      /\ Seen(c, {"del_ctl", "del_store"})'
                           <=> Seen(c, {"del_ctl", "del_store"})
  BY DEF Parting, Storing, Pushing, Seen
<1> QED
  BY <1>1, <1>2, <1>3, <1>4, <1>5, <1>6, <1>7

\* A worker frees its connection: the request is not understood, or epoll_ctl
\* fails.
LEMMA WorkerCloses ==
  ASSUME ServerInv, fault = "none", NEW w \in Worker, WorkerFrame(w),
         \/ wpc[w] = "ctl"
         \/ wpc[w] = "run" /\ ~staleRun,
         NEW d \in Live, d = task[w],
         UNCHANGED << status, mask, clientData, lateStore >>,
         heap' = [heap EXCEPT ![d] = "freed"],
         kernel' = [kernel EXCEPT ![sockfd[d]] = {}],
         wpc' = [wpc EXCEPT ![w] = "deq"],
         mask[sockfd[d]] = IF Parting(d) THEN {R} ELSE {},
         Seen(d, {"del_ctl", "del_store"}),
         status[d] # "SENDING" \/ kernel[sockfd[d]] # {W},
         wseen' \in [Worker -> Events]
  PROVE  ServerInv'
<1>1. /\ OthersKept(d)
      /\ TakenOnce' /\ EndOK' /\ FaultsOK'
      /\ \A c : Queued(c)' <=> Queued(c)
      /\ d \in Conn
      /\ /\ Parting(d)' <=> Parting(d)
         /\ Seen(d, {"del_ctl", "del_store"})'
  BY WorkerMoves DEF Live
<1>2. /\ \A v \in Worker : task[v] = d => v = w
      /\ ~Queued(d) /\ (lconn = d => lpc \notin {"body", "push"})
      /\ sockfd[d] \in AnyFD
  BY Handed
<1>3. /\ wpc \in [Worker -> WorkerPlaces] /\ kernel \in [AnyFD -> Events]
      /\ heap \in [Conn -> {"none", "live", "freed"}]
  BY DEF ServerInv, ServerTypeOK
<1>4. wpc'[w] = "deq" /\ wpc' \in [Worker -> WorkerPlaces]
  BY <1>3 DEF WorkerPlaces, Awake
<1>5. /\ kernel'[sockfd[d]] = {}
      /\ \A f \in AnyFD : f # sockfd[d] => kernel'[f] = kernel[f]
      /\ kernel' \in [AnyFD -> Events]
  BY <1>2, <1>3 DEF Events
<1>6. W \notin fired[sockfd[d]]
  BY NotFired
<1>7. ~Queued(d)' /\ (lconn' = d => lpc' \notin {"body", "push"})
      /\ \A v \in Worker : task'[v] = d =>
           /\ wpc'[v] \notin {"process", "ctl", "mask"}
           /\ wpc'[v] = "run" => staleRun'
  BY <1>1, <1>2, <1>4 DEF WorkerFrame
<1>8. UNCHANGED << sockfd, fired >>
  BY DEF WorkerFrame
<1>9. ConnsOK' /\ Owners' /\ ClosedOK' /\ FiredOK'
  BY <1>1, <1>5, <1>6, <1>7, <1>8, CloseKeeps
<1>10. WorkersOK'
  <2>1. Live' = Live \ {d}
    BY <1>3 DEF Live
  <2> QED
    BY <1>2, <1>4, <2>1 DEF ServerInv, WorkersOK, WorkerFrame
<1>11. ServerTypeOK'
  <2>1. heap' \in [Conn -> {"none", "live", "freed"}]
    BY <1>3
  <2> QED
    BY <1>4, <1>5, <2>1 DEF ServerInv, ServerTypeOK, WorkerFrame
<1> QED
  BY <1>1, <1>9, <1>10, <1>11 DEF ServerInv

\* A worker goes on with its connection.
LEMMA WorkerHolds ==
  ASSUME ServerInv, fault = "none", NEW w \in Worker, WorkerFrame(w),
         wpc[w] \notin {"proc", "data"}, wpc[w] = "run" => ~staleRun,
         NEW d \in Live, d = task[w],
         UNCHANGED << heap, clientData, lateStore >>,
         \A c \in Conn \ {d} : status'[c] = status[c],
         \A f \in AnyFD : f # sockfd[d] => kernel'[f] = kernel[f] /\ mask'[f] = mask[f],
         NEW to \in {"process", "ctl", "mask", "proc"},
         wpc' = [wpc EXCEPT ![w] = to],
         LiveOK(d)',
         W \in fired[sockfd[d]] =>
           status'[d] = "SENDING" /\ ~Parting(d) /\ kernel'[sockfd[d]] = {W}
             /\ d \notin lost,
         status' \in [Conn -> {"WAIT_RECV", "RECEIVING", "RECVED", "SENDING"}],
         kernel' \in [AnyFD -> Events], mask' \in [AnyFD -> Events],
         wseen' \in [Worker -> Events]
  PROVE  ServerInv'
<1>1. /\ OthersKept(d)
      /\ TakenOnce' /\ EndOK' /\ FaultsOK'
      /\ d \in Conn /\ heap[d] = "live"
      /\ /\ Parting(d)' <=> Parting(d)
  BY WorkerMoves DEF Live
<1>2. wpc' \in [Worker -> WorkerPlaces] /\ wpc'[w] = to
  BY DEF ServerInv, ServerTypeOK, WorkerPlaces, Awake
<1>3. UNCHANGED << sockfd, fired, task, lost >>
  BY DEF WorkerFrame
<1>4. ConnOK(d)'
  BY <1>1 DEF ConnOK
<1>5. ConnsOK' /\ Owners' /\ ClosedOK' /\ FiredOK'
  BY <1>1, <1>3, <1>4, HoldKeeps
<1>6. WorkersOK'
  <2>1. Live' = Live
    BY DEF Live
  <2> QED
    BY <1>1, <1>2, <1>3, <2>1 DEF ServerInv, WorkersOK, WorkerFrame
<1>7. ServerTypeOK'
  BY <1>2 DEF ServerInv, ServerTypeOK, WorkerFrame
<1> QED
  BY <1>1, <1>5, <1>6, <1>7 DEF ServerInv

LEMMA HandleTaskKeeps ==
  ASSUME ServerInv, fault = "none", NEW w \in Worker, HandleTask(w)
  PROVE  ServerInv'
<1>1. CASE staleRun \/ task[w] \notin Live
  <2>1. staleRun /\ Faults("task")
    BY <1>1 DEF HandleTask, ServerInv, WorkersOK
  <2> QED
    BY <2>1, FaultsKeep
<1>2. CASE ~staleRun /\ task[w] \in Live
  <2> PICK d \in Live : d = task[w]
    BY <1>2
  <2>1. /\ wpc[w] = "run" /\ UNCHANGED << status, mask, clientData, lateStore, wseen >>
        /\ \/ wpc' = [wpc EXCEPT ![w] = "deq"] /\ FreeConnection(d)
           \/ wpc' = [wpc EXCEPT ![w] = "process"] /\ UNCHANGED << heap, kernel >>
    BY <1>2 DEF HandleTask, history, Step
  <2>2. /\ wpc \in [Worker -> WorkerPlaces] /\ wseen \in [Worker -> Events]
        /\ kernel \in [AnyFD -> Events] /\ mask \in [AnyFD -> Events]
        /\ status \in [Conn -> {"WAIT_RECV", "RECEIVING", "RECVED", "SENDING"}]
    BY DEF ServerInv, ServerTypeOK
  <2>3. WorkerFrame(w)
    <3>1. \A v \in Worker \ {w} : wpc'[v] = wpc[v] /\ wseen'[v] = wseen[v]
      BY <2>1, <2>2
    <3> QED
      BY <1>2, <2>1, <3>1 DEF WorkerFrame, HandleTask, Unprocessed, mainVars, history
  <2>4. /\ status[d] = "RECVED" /\ RecvedOK(d) /\ LiveOK(d) /\ d \in Conn
        /\ \A v \in Worker : task[v] = d => v = w
        /\ ~Queued(d) /\ ~Pushing(d)
    BY <1>2, <2>1, Handed
  <2>5. /\ Has(d, IF Parting(d) /\ ~Storing(d) THEN {R} ELSE {},
                  IF Parting(d) THEN {R} ELSE {})
        /\ Seen(d, {"del_ctl", "del_store"})
    BY <2>4 DEF RecvedOK
  <2>6. CASE wpc' = [wpc EXCEPT ![w] = "deq"] /\ FreeConnection(d)
    <3>1. /\ heap' = [heap EXCEPT ![d] = "freed"]
          /\ kernel' = [kernel EXCEPT ![sockfd[d]] = {}]
          /\ wpc' = [wpc EXCEPT ![w] = "deq"]
      BY <2>1, <2>6 DEF FreeConnection
    <3>2. mask[sockfd[d]] = IF Parting(d) THEN {R} ELSE {}
      BY <2>5 DEF Has
    <3>3. status[d] # "SENDING"
      BY <2>4
    <3> QED
      BY <1>2, <2>1, <2>2, <2>3, <2>5, <3>1, <3>2, <3>3, WorkerCloses
  <2>7. CASE wpc' = [wpc EXCEPT ![w] = "process"] /\ UNCHANGED << heap, kernel >>
    <3>1. UNCHANGED << heap, kernel >> /\ wpc' = [wpc EXCEPT ![w] = "process"]
      BY <2>1, <2>7
    <3>2. wpc'[w] = "process"
      BY <2>2, <3>1
    <3>3. /\ \A c : Queued(c)' <=> Queued(c)
          /\ Parting(d)' <=> Parting(d)
          /\ Storing(d)' <=> Storing(d)
          /\ Pushing(d)' <=> Pushing(d)
          /\ Seen(d, {"del_ctl", "del_store"})' <=> Seen(d, {"del_ctl", "del_store"})
      BY <2>1, <2>3, <2>4, WorkerMoves
    <3>4. UNCHANGED << task, lconn, lpc, lost, sockfd >>
      BY <2>3 DEF WorkerFrame
    <3>5. RecvedOK(d)'
      <4>1. Worked(d, {"run", "process"})'
        BY <3>2, <3>4 DEF Worked
      <4>2. d \notin lost
        BY <2>4 DEF RecvedOK, Untaken
      <4>3. \A v \in Worker : task'[v] = d => wpc'[v] \in {"run", "process"}
        BY <2>4, <3>2, <3>4
      <4>4. \A k, m : Has(d, k, m)' <=> Has(d, k, m)
        BY <2>1, <3>1, <3>4 DEF Has
      <4> QED
        BY <2>4, <3>3, <3>4, <4>1, <4>2, <4>3, <4>4 DEF RecvedOK
    <3>6. LiveOK(d)'
      BY <2>1, <2>4, <3>3, <3>4, <3>5 DEF LiveOK
    <3>7. W \notin fired[sockfd[d]]
      BY <2>4, NotFired
    <3> QED
      BY <1>2, <2>1, <2>2, <2>3, <3>1, <3>6, <3>7, WorkerHolds
  <2> QED
    BY <2>1, <2>6, <2>7
<1> QED
  BY <1>1, <1>2

LEMMA ProcessKeeps ==
  ASSUME ServerInv, Running, NEW w \in Worker, Process(w)
  PROVE  ServerInv'
<1>1. CASE engine = "freed" \/ el = "freed"
  <2>1. Faults("engine") \/ Faults("loop")
    BY <1>1 DEF Process
  <2>2. busyAtStop
    BY <1>1, LateWorker DEF Process
  <2> QED
    BY <2>1, <2>2, FaultsKeep
<1>2. CASE engine # "freed" /\ el # "freed"
  <2>0. wpc[w] = "process"
    BY DEF Process
  <2> PICK d \in Live : d = task[w]
    BY <2>0, Handed
  <2>1. /\ UNCHANGED << heap, kernel, mask, clientData, lateStore >>
        /\ status' = [status EXCEPT ![d] = "SENDING"]
        /\ wseen' = [wseen EXCEPT ![w] = mask[sockfd[d]]]
        /\ wpc' = [wpc EXCEPT ![w] = "ctl"]
    BY <1>2 DEF Process, history, loopVars, Step
  <2>2. /\ wpc \in [Worker -> WorkerPlaces] /\ wseen \in [Worker -> Events]
        /\ kernel \in [AnyFD -> Events] /\ mask \in [AnyFD -> Events]
        /\ status \in [Conn -> {"WAIT_RECV", "RECEIVING", "RECVED", "SENDING"}]
    BY DEF ServerInv, ServerTypeOK
  <2>3. WorkerFrame(w)
    <3>1. \A v \in Worker \ {w} : wpc'[v] = wpc[v] /\ wseen'[v] = wseen[v]
      BY <2>1, <2>2
    <3> QED
      BY <1>2, <2>0, <3>1 DEF WorkerFrame, Process, Unprocessed, mainVars,
                              history, loopVars, Running
  <2>4. /\ status[d] = "RECVED" /\ RecvedOK(d) /\ LiveOK(d) /\ d \in Conn
        /\ \A v \in Worker : task[v] = d => v = w
        /\ ~Queued(d) /\ ~Pushing(d) /\ (lconn = d => lpc \notin {"body", "push"})
        /\ sockfd[d] \in AnyFD
    BY <2>0, Handed
  <2>5. /\ status'[d] = "SENDING" /\ \A c \in Conn \ {d} : status'[c] = status[c]
        /\ wpc'[w] = "ctl" /\ wseen'[w] = mask[sockfd[d]]
        /\ status' \in [Conn -> {"WAIT_RECV", "RECEIVING", "RECVED", "SENDING"}]
        /\ wseen' \in [Worker -> Events]
    BY <2>1, <2>2, <2>4
  <2>6. /\ \A c : Queued(c)' <=> Queued(c)
        /\ Parting(d)' <=> Parting(d)
        /\ Storing(d)' <=> Storing(d)
        /\ Pushing(d)' <=> Pushing(d)
        /\ Seen(d, {"del_ctl", "del_store"})' <=> Seen(d, {"del_ctl", "del_store"})
    BY <2>1, <2>3, <2>4, <2>5, WorkerMoves DEF Running
  <2>7. UNCHANGED << task, lconn, lpc, lost, sockfd >>
    BY <2>3 DEF WorkerFrame
  <2>8. CtlOK(d, w)'
    <3>1. /\ Has(d, IF Parting(d) /\ ~Storing(d) THEN {R} ELSE {},
                    IF Parting(d) THEN {R} ELSE {})
          /\ Seen(d, {"del_ctl", "del_store"})
          /\ d \notin lost
      BY <2>4 DEF RecvedOK, Untaken
    <3>2. \A k, m : Has(d, k, m)' <=> Has(d, k, m)
      BY <2>1, <2>7 DEF Has
    <3>3. wseen'[w] = IF Parting(d) THEN {R} ELSE {}
      BY <2>5, <3>1 DEF Has
    <3>4. wseen'[w] = IF Parting(d) THEN {R} ELSE wseen'[w] \ {W}
      BY <3>3
    <3> QED
      BY <2>6, <2>7, <3>1, <3>2, <3>4 DEF CtlOK
  <2>9. SendingOK(d)'
    <3>1. Worked(d, {"ctl", "mask"})'
      BY <2>5, <2>7 DEF Worked
    <3> QED
      BY <2>4, <2>5, <2>6, <2>7, <2>8, <3>1 DEF SendingOK
  <2>10. LiveOK(d)'
    BY <2>4, <2>5, <2>6, <2>7, <2>9 DEF LiveOK
  <2>11. W \notin fired[sockfd[d]]
    BY <2>4, NotFired
  <2> QED
    BY <2>0, <2>1, <2>2, <2>3, <2>5, <2>10, <2>11, WorkerHolds DEF Running
<1> QED
  BY <1>1, <1>2

LEMMA CreateCtlKeeps ==
  ASSUME ServerInv, Running, NEW w \in Worker, CreateCtl(w)
  PROVE  ServerInv'
<1>1. CASE el = "freed"
  <2>1. Faults("loop") /\ wpc[w] = "ctl"
    BY <1>1 DEF CreateCtl
  <2>2. busyAtStop
    BY <1>1, <2>1, LateWorker
  <2> QED
    BY <2>1, <2>2, FaultsKeep
<1>2. CASE el # "freed"
  <2>0. wpc[w] = "ctl" /\ fault = "none"
    BY DEF CreateCtl, Running
  <2> PICK d \in Live : d = task[w]
    BY <2>0, Handed
  <2>1. /\ UNCHANGED << status, mask, clientData, lateStore >>
        /\ IF AddSucceeds(sockfd[d], wseen[w])
           THEN /\ wpc' = [wpc EXCEPT ![w] = "mask"]
                /\ kernel' = [kernel EXCEPT ![sockfd[d]] = wseen[w] \cup {W}]
                /\ wseen' = [wseen EXCEPT ![w] = mask[sockfd[d]]]
                /\ UNCHANGED heap
           ELSE /\ wpc' = [wpc EXCEPT ![w] = "deq"]
                /\ heap' = [heap EXCEPT ![d] = "freed"]
                /\ kernel' = [kernel EXCEPT ![sockfd[d]] = {}]
                /\ wseen' = [wseen EXCEPT ![w] = {}]
    BY <1>2 DEF CreateCtl, FreeConnection, history, Step
  <2>2. /\ wpc \in [Worker -> WorkerPlaces] /\ wseen \in [Worker -> Events]
        /\ kernel \in [AnyFD -> Events] /\ mask \in [AnyFD -> Events]
        /\ status \in [Conn -> {"WAIT_RECV", "RECEIVING", "RECVED", "SENDING"}]
    BY DEF ServerInv, ServerTypeOK
  <2>3. WorkerFrame(w)
    <3>1. \A v \in Worker \ {w} : wpc'[v] = wpc[v] /\ wseen'[v] = wseen[v]
      BY <2>1, <2>2
    <3> QED
      BY <1>2, <2>0, <3>1 DEF WorkerFrame, CreateCtl, Unprocessed, mainVars,
                              history, Running
  <2>4. /\ status[d] = "SENDING" /\ SendingOK(d) /\ LiveOK(d) /\ d \in Conn
        /\ \A v \in Worker : task[v] = d => v = w
        /\ ~Queued(d) /\ ~Pushing(d) /\ (lconn = d => lpc \notin {"body", "push"})
        /\ sockfd[d] \in AnyFD /\ CtlOK(d, w)
    BY <2>0, Handed
  <2>5. /\ kernel[sockfd[d]] = IF Parting(d) /\ ~Storing(d) THEN {R} ELSE {}
        /\ mask[sockfd[d]] = IF Parting(d) THEN {R} ELSE {}
        /\ Seen(d, {"del_ctl", "del_store"})
        /\ wseen[w] = IF Parting(d) THEN {R} ELSE wseen[w] \ {W}
        /\ d \notin lost
    BY <2>4 DEF CtlOK, Has
  <2>6. W \notin fired[sockfd[d]]
    BY <2>5, EventsDiffer, NotFired
  <2>7. CASE ~AddSucceeds(sockfd[d], wseen[w])
    <3>1. kernel[sockfd[d]] # {W}
      BY <2>5, EventsDiffer
    <3>2. wseen' \in [Worker -> Events]
      BY <2>1, <2>2, <2>7 DEF Events
    <3> QED
      BY <2>0, <2>1, <2>3, <2>5, <2>7, <3>1, <3>2, WorkerCloses
  <2>8. CASE AddSucceeds(sockfd[d], wseen[w])
    <3>1. /\ wpc' = [wpc EXCEPT ![w] = "mask"] /\ UNCHANGED heap
          /\ kernel' = [kernel EXCEPT ![sockfd[d]] = wseen[w] \cup {W}]
          /\ wseen' = [wseen EXCEPT ![w] = mask[sockfd[d]]]
      BY <2>1, <2>8
    <3>2. wseen[w] \in Events /\ wseen[w] \cup {W} \in Events
          /\ mask[sockfd[d]] \in Events
      BY <2>2, <2>4 DEF Events
    <3>3. /\ wpc'[w] = "mask" /\ wseen'[w] = mask[sockfd[d]]
          /\ kernel'[sockfd[d]] = wseen[w] \cup {W}
          /\ \A f \in AnyFD : f # sockfd[d] => kernel'[f] = kernel[f]
          /\ kernel' \in [AnyFD -> Events] /\ wseen' \in [Worker -> Events]
      BY <2>2, <2>4, <3>1, <3>2
    <3>4. /\ \A c : Queued(c)' <=> Queued(c)
          /\ Parting(d)' <=> Parting(d)
          /\ Storing(d)' <=> Storing(d)
          /\ Pushing(d)' <=> Pushing(d)
          /\ Seen(d, {"del_ctl", "del_store"})' <=> Seen(d, {"del_ctl", "del_store"})
      BY <2>0, <2>1, <2>3, <2>4, WorkerMoves
    <3>5. UNCHANGED << task, lconn, lpc, lost, sockfd >>
      BY <2>3 DEF WorkerFrame
    <3>6. MaskOK(d, w)'
      <4>1. CASE Parting(d)
        <5>1. kernel[sockfd[d]] # {} /\ ~Storing(d)
          BY <2>5, <2>8, <4>1 DEF AddSucceeds
        <5>2. Has(d, {R, W}, {R})' /\ wseen'[w] = {R}
          BY <2>1, <2>5, <3>3, <3>5, <4>1 DEF Has
        <5> QED
          BY <2>5, <3>4, <3>5, <4>1, <5>1, <5>2 DEF MaskOK
      <4>2. CASE ~Parting(d)
        <5>1. wseen[w] = {} /\ mask[sockfd[d]] = {}
          BY <2>5, <2>8, <4>2 DEF AddSucceeds
        <5>2. Has(d, {W}, {})' /\ wseen'[w] = {}
          BY <2>1, <3>3, <3>5, <5>1 DEF Has
        <5> QED
          BY <2>5, <3>4, <3>5, <4>2, <5>2 DEF MaskOK
      <4> QED
        BY <4>1, <4>2
    <3>7. SendingOK(d)'
      <4>1. Worked(d, {"ctl", "mask"})'
        BY <3>3, <3>5 DEF Worked
      <4> QED
        BY <2>4, <3>3, <3>4, <3>5, <3>6, <4>1 DEF SendingOK
    <3>8. LiveOK(d)'
      BY <2>1, <2>4, <3>4, <3>5, <3>7 DEF LiveOK
    <3> QED
      BY <2>0, <2>1, <2>2, <2>3, <2>6, <3>1, <3>3, <3>8, WorkerHolds
  <2> QED
    BY <2>7, <2>8
<1> QED
  BY <1>1, <1>2

LEMMA CreateStoreKeeps ==
  ASSUME ServerInv, Running, NEW w \in Worker, CreateStore(w)
  PROVE  ServerInv'
<1>1. CASE el = "freed"
  <2>1. Faults("loop") /\ wpc[w] = "mask"
    BY <1>1 DEF CreateStore
  <2>2. busyAtStop
    BY <1>1, <2>1, LateWorker
  <2> QED
    BY <2>1, <2>2, FaultsKeep
<1>2. CASE el # "freed"
  <2>0. wpc[w] = "mask" /\ fault = "none"
    BY DEF CreateStore, Running
  <2> PICK d \in Live : d = task[w]
    BY <2>0, Handed
  <2> PICK loaded \in {wseen[w], mask[sockfd[d]]} :
             mask' = [mask EXCEPT ![sockfd[d]] = loaded \cup {W}]
    BY <1>2 DEF CreateStore
  <2>1. /\ UNCHANGED << heap, status, kernel, clientData, lateStore >>
        /\ wpc' = [wpc EXCEPT ![w] = "proc"]
        /\ wseen' = [wseen EXCEPT ![w] = {}]
    BY <1>2 DEF CreateStore, connVars, history, Step
  <2>2. /\ wpc \in [Worker -> WorkerPlaces] /\ wseen \in [Worker -> Events]
        /\ kernel \in [AnyFD -> Events] /\ mask \in [AnyFD -> Events]
        /\ status \in [Conn -> {"WAIT_RECV", "RECEIVING", "RECVED", "SENDING"}]
    BY DEF ServerInv, ServerTypeOK
  <2>3. WorkerFrame(w)
    <3>1. \A v \in Worker \ {w} : wpc'[v] = wpc[v] /\ wseen'[v] = wseen[v]
      BY <2>1, <2>2
    <3> QED
      BY <1>2, <2>0, <3>1 DEF WorkerFrame, CreateStore, Unprocessed, connVars,
                              mainVars, history, Running
  <2>4. /\ status[d] = "SENDING" /\ SendingOK(d) /\ LiveOK(d) /\ d \in Conn
        /\ \A v \in Worker : task[v] = d => v = w
        /\ ~Queued(d) /\ ~Pushing(d) /\ (lconn = d => lpc \notin {"body", "push"})
        /\ sockfd[d] \in AnyFD /\ MaskOK(d, w)
    BY <2>0, Handed
  <2>5. /\ wpc'[w] = "proc"
        /\ mask'[sockfd[d]] = loaded \cup {W}
        /\ \A f \in AnyFD : f # sockfd[d] => mask'[f] = mask[f]
        /\ mask' \in [AnyFD -> Events] /\ wseen' \in [Worker -> Events]
    <3>1. {} \in Events /\ loaded \cup {W} \in Events
      BY <2>2, <2>4 DEF Events
    <3> QED
      BY <2>1, <2>2, <2>4, <3>1
  <2>6. /\ \A c : Queued(c)' <=> Queued(c)
        /\ Parting(d)' <=> Parting(d)
        /\ Storing(d)' <=> Storing(d)
        /\ Pushing(d)' <=> Pushing(d)
        /\ Seen(d, {"del_ctl", "del_store"})' <=> Seen(d, {"del_ctl", "del_store"})
    BY <2>0, <2>1, <2>3, <2>4, WorkerMoves
  <2>7. UNCHANGED << task, lconn, lpc, lseen, lost, sockfd >>
    BY <2>3 DEF WorkerFrame
  <2>8. DoneOK(d)'
    <3>1. CASE Parting(d) /\ ~Storing(d)
      <4>1. /\ Has(d, {R, W}, {R}) /\ wseen[w] = {R} /\ d \notin lost
            /\ Seen(d, {"del_ctl", "del_store"})
        BY <2>4, <3>1 DEF MaskOK
      <4>2. mask'[sockfd[d]] = {R, W}
        BY <2>5, <4>1 DEF Has
      <4>3. Has(d, {R, W}, {R, W})' /\ d \notin lost'
        BY <2>1, <2>7, <4>1, <4>2 DEF Has
      <4>4. lpc' = "del_ctl" => lseen' = {R}
        BY <2>7, <3>1, <4>1 DEF Parting, Seen
      <4> QED
        BY <2>6, <3>1, <4>3, <4>4 DEF DoneOK
    <3>2. CASE ~(Parting(d) /\ ~Storing(d)) /\ d \in lost
      <4>1. kernel[sockfd[d]] = {}
        BY <2>4, <3>2 DEF MaskOK, Has
      <4> QED
        BY <2>1, <2>6, <2>7, <3>2, <4>1 DEF DoneOK
    <3>3. CASE ~(Parting(d) /\ ~Storing(d)) /\ d \notin lost
      <4>1. ~Parting(d) /\ ~Storing(d)
        BY <2>4, <3>3 DEF MaskOK, Storing, Parting, PartingPlaces
      <4>2. Has(d, {W}, {}) /\ wseen[w] = {}
        BY <2>4, <3>3, <4>1 DEF MaskOK
      <4>3. Has(d, {W}, {W})'
        BY <2>1, <2>5, <2>7, <4>2 DEF Has
      <4> QED
        BY <2>6, <2>7, <3>3, <4>1, <4>3 DEF DoneOK
    <3> QED
      BY <3>1, <3>2, <3>3
  <2>9. SendingOK(d)'
    <3>1. \A v \in Worker : task'[v] = d => wpc'[v] = "proc"
      BY <2>4, <2>5, <2>7
    <3> QED
      BY <2>4, <2>6, <2>7, <2>8, <3>1 DEF SendingOK
  <2>10. LiveOK(d)'
    BY <2>1, <2>4, <2>6, <2>7, <2>9 DEF LiveOK
  <2>11. W \in fired[sockfd[d]] =>
           kernel[sockfd[d]] = {W} /\ ~Parting(d) /\ d \notin lost
    <3>1. W \in fired[sockfd[d]] => ~Parting(d) /\ kernel[sockfd[d]] = {W}
      BY NotFired
    <3>2. ~Parting(d) /\ kernel[sockfd[d]] = {W} => d \notin lost
      BY <2>4 DEF MaskOK, Has
    <3> QED
      BY <3>1, <3>2
  <2> QED
    BY <2>0, <2>1, <2>2, <2>3, <2>4, <2>5, <2>10, <2>11, WorkerHolds
<1> QED
  BY <1>1, <1>2

\* The store of the handler, for a connection that may have been closed.
LEMMA CreateProcKeeps ==
  ASSUME ServerInv, Running, NEW w \in Worker, CreateProc(w)
  PROVE  ServerInv'
<1>1. CASE el = "freed"
  <2>1. Faults("loop") /\ wpc[w] = "proc"
    BY <1>1 DEF CreateProc
  <2>2. busyAtStop
    BY <1>1, <2>1, LateWorker
  <2> QED
    BY <2>1, <2>2, FaultsKeep
<1>2. CASE el # "freed"
  <2>0. wpc[w] = "proc" /\ fault = "none" /\ task[w] \in Conn
    BY DEF CreateProc, Running, ServerInv, WorkersOK
  <2>1. /\ UNCHANGED << heap, status, kernel, mask, wseen, lost, sockfd >>
        /\ UNCHANGED << tasks, task, staleRun, clientData, lateStore, fired >>
        /\ wpc' = [wpc EXCEPT ![w] = "data"]
    BY <1>2 DEF CreateProc, connVars, history, Unprocessed, Step
  <2>2. wpc \in [Worker -> WorkerPlaces]
    BY DEF ServerInv, ServerTypeOK
  <2>3. /\ wpc'[w] = "data" /\ wpc' \in [Worker -> WorkerPlaces]
        /\ \A v \in Worker \ {w} : wpc'[v] = wpc[v]
    BY <2>1, <2>2 DEF WorkerPlaces, Awake
  <2>4. WorkerFrame(w)
    BY <1>2, <2>0, <2>1, <2>3 DEF WorkerFrame, CreateProc, mainVars, history, Running
  <2>5. /\ TakenOnce' /\ EndOK' /\ FaultsOK'
        /\ \A c \in Conn : SameLoop(c)
    BY <2>0, <2>1, <2>3, <2>4, WorkerMoves
  <2>6. \A c \in Conn : SameHands(c)
    BY <2>0, <2>1, <2>3 DEF SameHands, HandPlaces
  <2>7. ConnsOK' /\ ClosedOK' /\ Owners'
    BY <2>1, <2>3, <2>5, <2>6, QuietFrame
  <2>8. FiredOK'
    BY <2>1, <2>5, FiredFrame
  <2>9. WorkersOK'
    <3>1. Live' = Live
      BY <2>1 DEF Live
    <3> QED
      BY <2>0, <2>1, <2>3, <3>1 DEF ServerInv, WorkersOK
  <2>10. ServerTypeOK'
    BY <2>1, <2>3, <2>4 DEF ServerInv, ServerTypeOK, WorkerFrame
  <2> QED
    BY <2>5, <2>7, <2>8, <2>9, <2>10 DEF ServerInv
<1> QED
  BY <1>1, <1>2

\* The store of the client data, which may come after the connection has been
\* closed, and its descriptor opened for another.
LEMMA CreateDataKeeps ==
  ASSUME ServerInv, Running, NEW w \in Worker, CreateData(w)
  PROVE  ServerInv'
<1>1. CASE el = "freed"
  <2>1. Faults("loop") /\ wpc[w] = "data"
    BY <1>1 DEF CreateData
  <2>2. busyAtStop
    BY <1>1, <2>1, LateWorker
  <2> QED
    BY <2>1, <2>2, FaultsKeep
<1>2. CASE el # "freed"
  <2>0. wpc[w] = "data" /\ fault = "none" /\ task[w] \in Conn
    BY DEF CreateData, Running, ServerInv, WorkersOK
  <2> PICK d \in Conn : d = task[w]
    BY <2>0
  <2>1. /\ UNCHANGED << heap, status, kernel, mask, wseen, lost, sockfd >>
        /\ UNCHANGED << tasks, task, staleRun >>
        /\ wpc' = [wpc EXCEPT ![w] = "deq"]
        /\ clientData' = [clientData EXCEPT ![sockfd[d]] = d]
        /\ lateStore' = (lateStore \/ clientData[sockfd[d]] # d)
    BY <1>2 DEF CreateData, connVars, Unprocessed, Step
  <2>2. /\ wpc \in [Worker -> WorkerPlaces] /\ lateStore \in BOOLEAN
        /\ clientData \in [AnyFD -> Conn \cup {NoData}]
        /\ sockfd[d] \in AnyFD /\ heap[d] \in {"none", "live", "freed"}
    BY DEF ServerInv, ServerTypeOK
  <2>3. /\ wpc'[w] = "deq" /\ wpc' \in [Worker -> WorkerPlaces]
        /\ \A v \in Worker \ {w} : wpc'[v] = wpc[v]
        /\ clientData'[sockfd[d]] = d
        /\ clientData' \in [AnyFD -> Conn \cup {NoData}]
        /\ \A f \in AnyFD : f # sockfd[d] => clientData'[f] = clientData[f]
        /\ lateStore' \in BOOLEAN /\ (lateStore => lateStore')
    BY <2>1, <2>2 DEF WorkerPlaces, Awake
  <2>4. WorkerFrame(w)
    BY <1>2, <2>0, <2>1, <2>3 DEF WorkerFrame, CreateData, mainVars, Running
  <2>5. /\ TakenOnce' /\ EndOK' /\ FaultsOK'
        /\ \A c \in Conn : SameLoop(c)
    BY <2>0, <2>1, <2>3, <2>4, WorkerMoves
  <2>6. \A c \in Conn : SameHands(c)
    BY <2>0, <2>1, <2>3 DEF SameHands, HandPlaces
  <2>7. ConnsOK' /\ ClosedOK'
    BY <2>1, <2>3, <2>5, <2>6, QuietFrame
  <2>8. FiredOK'
    BY <2>1, <2>4, <2>5, FiredFrame DEF WorkerFrame
  <2>9. heap[d] = "live" \/ heap[d] = "freed"
    <3>1. heap[d] = "none" => NoneOK(d)
      BY DEF ServerInv, ConnsOK, ConnOK
    <3> QED
      BY <2>2, <3>1 DEF NoneOK, Untaken
  <2>10. Owners'
    <3>0. Live' = Live
      BY <2>1 DEF Live
    <3>1. \A a, b \in Live : sockfd'[a] = sockfd'[b] => a = b
      BY <2>1 DEF ServerInv, Owners
    <3>2. ASSUME NEW c \in Live
          PROVE  \/ clientData'[sockfd[c]] = c
                 \/ /\ lateStore' /\ clientData'[sockfd[c]] \in Conn
                    /\ heap[clientData'[sockfd[c]]] = "freed"
      <4>0. /\ sockfd[c] \in AnyFD
            /\ \/ clientData[sockfd[c]] = c
               \/ /\ lateStore /\ clientData[sockfd[c]] \in Conn
                  /\ heap[clientData[sockfd[c]]] = "freed"
        BY DEF ServerInv, ServerTypeOK, Owners, Live
      <4>1. CASE sockfd[c] # sockfd[d]
        BY <2>3, <4>0, <4>1
      <4>2. CASE sockfd[c] = sockfd[d] /\ c = d
        BY <2>3, <4>2
      <4>3. CASE sockfd[c] = sockfd[d] /\ c # d
        <5>1. heap[d] = "freed"
          BY <2>9, <4>3 DEF ServerInv, Owners, Live
        <5>2. lateStore'
          BY <2>1, <2>2, <4>0, <4>3
        <5> QED
          BY <2>3, <4>3, <5>1, <5>2
      <4> QED
        BY <4>1, <4>2, <4>3
    <3> QED
      BY <2>1, <3>0, <3>1, <3>2 DEF Owners
  <2>11. WorkersOK'
    <3>1. Live' = Live
      BY <2>1 DEF Live
    <3> QED
      BY <2>1, <2>3, <3>1 DEF ServerInv, WorkersOK
  <2>12. ServerTypeOK'
    BY <2>1, <2>3, <2>4 DEF ServerInv, ServerTypeOK, WorkerFrame
  <2> QED
    BY <2>5, <2>7, <2>8, <2>10, <2>11, <2>12 DEF ServerInv
<1> QED
  BY <1>1, <1>2

-----------------------------------------------------------------------------
(* The handlers of the loop.                                               *)

\* A descriptor with an event the loop may dispatch is open, and of one
\* connection.
LEMMA AtDispatch ==
  ASSUME ServerInv, lpc = "dispatch"
  PROVE  /\ lpc \notin LoopPlaces
         /\ \A c : ~Parting(c) /\ ~Pushing(c) /\ ~Storing(c)
         /\ \A fd \in FreeFDs : mask[fd] = {} /\ kernel[fd] = {}
         /\ \A fd \in FD : mask[fd] # {} /\ clientData[fd] \in Live =>
              sockfd[clientData[fd]] = fd
<1>1. lpc \notin LoopPlaces /\ \A c : ~Parting(c) /\ ~Pushing(c) /\ ~Storing(c)
  BY DEF LoopPlaces, PartingPlaces, Parting, Pushing, Storing
<1>2. \A fd \in FreeFDs : mask[fd] = {} /\ kernel[fd] = {}
  BY <1>1 DEF ServerInv, ClosedOK
<1>3. ASSUME NEW fd \in FD, mask[fd] # {}, clientData[fd] \in Live
      PROVE  sockfd[clientData[fd]] = fd
  <2>1. fd \notin FreeFDs
    BY <1>2, <1>3
  <2>2. PICK c \in Live : sockfd[c] = fd
    BY <2>1, OpenFD
  <2>3. clientData[fd] = c
    BY <1>3, <2>2 DEF ServerInv, Owners, Live
  <2> QED
    BY <2>2, <2>3
<1> QED
  BY <1>1, <1>2, <1>3

\* The handler goes no further than its dispatch.
LEMMA DispatchedKeeps ==
  ASSUME ServerInv, fault = "none", NEW fd \in AnyFD, NEW m \in {R, W},
         Dispatched(fd, m),
         UNCHANGED << tasks, wpc, task, staleRun >>,
         UNCHANGED << heap, status, sockfd, lost, wseen, lateStore, fault >>,
         UNCHANGED << mask, kernel, clientData >>,
         UNCHANGED << lpc, lconn, lseen, el, engine, busyAtStop >>
  PROVE  ServerInv'
<1>1. fired' = [fired EXCEPT ![fd] = @ \ {m}]
  BY DEF Dispatched
<1>2. /\ fired' \in [AnyFD -> Events]
      /\ \A f \in AnyFD : W \in fired'[f] => W \in fired[f]
  BY <1>1 DEF ServerInv, ServerTypeOK, Events
<1>3. /\ TakenOnce' /\ ConnsOK' /\ Owners' /\ ClosedOK' /\ WorkersOK'
      /\ FiredOK'
  BY <1>1, <1>2, SameLoopFrame, OutsideKeeps
<1>4. ServerTypeOK'
  BY <1>1, <1>2 DEF ServerInv, ServerTypeOK
<1>5. EndOK' /\ FaultsOK'
  BY <1>1, EndFrame, FaultFrame
<1> QED
  BY <1>3, <1>4, <1>5 DEF ServerInv

\* A handler that closes its connection.
LEMMA HandlerCloses ==
  ASSUME ServerInv, fault = "none", NEW d \in Live, lpc = "dispatch",
         NEW m \in {R, W}, Dispatched(sockfd[d], m),
         DeleteFileEvent(sockfd[d], m), mask[sockfd[d]] = {m},
         m = W \/ W \notin fired[sockfd[d]],
         ~Queued(d),
         \A w \in Worker : task[w] = d =>
           /\ wpc[w] \notin {"process", "ctl", "mask"}
           /\ wpc[w] = "run" => staleRun,
         heap' = [heap EXCEPT ![d] = "freed"],
         UNCHANGED << tasks, wpc, task, staleRun, wseen >>,
         UNCHANGED << status, sockfd, lost, lateStore, fault, clientData >>,
         UNCHANGED << lpc, lconn, lseen, el, engine, busyAtStop >>
  PROVE  ServerInv'
<1>1. /\ kernel \in [AnyFD -> Events] /\ mask \in [AnyFD -> Events]
      /\ fired \in [AnyFD -> Events] /\ sockfd[d] \in AnyFD
      /\ heap \in [Conn -> {"none", "live", "freed"}]
      /\ d \in Conn
  BY DEF ServerInv, ServerTypeOK, Live
<1>2. {} \in Events
  BY DEF Events
<1>3. /\ mask'[sockfd[d]] = {} /\ kernel'[sockfd[d]] = {}
      /\ \A f \in AnyFD : f # sockfd[d] => kernel'[f] = kernel[f] /\ mask'[f] = mask[f]
      /\ kernel' \in [AnyFD -> Events] /\ mask' \in [AnyFD -> Events]
  BY <1>1, <1>2 DEF DeleteFileEvent
<1>4. /\ fired' \in [AnyFD -> Events]
      /\ \A f \in AnyFD : W \in fired'[f] => W \in fired[f] /\ f # sockfd[d]
  BY <1>1 DEF Dispatched, Events
<1>5. lpc \notin LoopPlaces /\ ~Parting(d)' /\ (lconn' = d => lpc' \notin {"body", "push"})
  BY AtDispatch DEF Parting, LoopPlaces
<1>6. /\ \A c : Queued(c)' <=> Queued(c)
      /\ \A c \in Conn : SameHands(c) /\ SameLoop(c)
  BY SameHandsFrame, SameLoopFrame DEF Queued
<1>7. OthersKept(d)
  BY <1>6 DEF OthersKept
<1>8. ConnsOK' /\ Owners' /\ ClosedOK' /\ FiredOK'
  BY <1>3, <1>4, <1>5, <1>6, <1>7, CloseKeeps
<1>9. TakenOnce'
  BY <1>6 DEF ServerInv, TakenOnce
<1>10. WorkersOK'
  <2>1. Live' = Live \ {d}
    BY <1>1 DEF Live
  <2> QED
    BY <2>1 DEF ServerInv, WorkersOK
<1>11. ServerTypeOK'
  <2>1. heap' \in [Conn -> {"none", "live", "freed"}]
    BY <1>1
  <2> QED
    BY <1>3, <1>4, <2>1 DEF ServerInv, ServerTypeOK
<1>12. EndOK' /\ FaultsOK'
  BY EndFrame, FaultFrame
<1> QED
  BY <1>8, <1>9, <1>10, <1>11, <1>12 DEF ServerInv

LEMMA OnWriteKeeps ==
  ASSUME ServerInv, fault = "none", NEW fd \in FD, OnWrite(fd)
  PROVE  ServerInv'
<1>1. /\ lpc = "dispatch" /\ W \in fired[fd] /\ W \in mask[fd]
      /\ Dispatched(fd, W) /\ clientData[fd] \in Live
      /\ UNCHANGED << tasks, wpc, task, staleRun, wseen >>
      /\ UNCHANGED << status, sockfd, lost, lateStore, fault, clientData >>
      /\ UNCHANGED << lpc, lconn, lseen, el, engine, busyAtStop >>
      /\ fd \in AnyFD
  BY DEF OnWrite, AtEvent, Fires, poolVars, mainVars, history, AnyFD
<1> PICK d \in Live : d = clientData[fd]
  BY <1>1
<1>2. sockfd[d] = fd
  BY <1>1, AtDispatch
<1>3. CASE status[d] = "SENDING"
  <2>1. heap' = [heap EXCEPT ![d] = "freed"] /\ DeleteFileEvent(fd, W)
    BY <1>3 DEF OnWrite
  <2>2. PICK c \in Live : sockfd[c] = fd /\ kernel[fd] = {W} /\ c \notin lost
    BY <1>1 DEF ServerInv, FiredOK
  <2>3. c = d
    BY <1>2, <2>2 DEF ServerInv, Owners
  <2>4. ~Worked(d, {"ctl", "mask"}) /\ mask[fd] = {W}
    BY <1>1, <1>2, <2>2, <2>3, AtDispatch, WriteEvent
  <2>5. SendingOK(d)
    BY <1>3 DEF ServerInv, ConnsOK, ConnOK, LiveOK, Live
  <2>6. ~Queued(d) /\ \A w \in Worker : task[w] = d =>
           /\ wpc[w] \notin {"process", "ctl", "mask"}
           /\ wpc[w] = "run" => staleRun
    BY <2>4, <2>5 DEF SendingOK, Worked
  <2> QED
    BY <1>1, <1>2, <2>1, <2>4, <2>6, HandlerCloses
<1>4. CASE status[d] # "SENDING"
  <2>1. UNCHANGED << heap, mask, kernel >>
    BY <1>4 DEF OnWrite
  <2> QED
    BY <1>1, <2>1, DispatchedKeeps
<1> QED
  BY <1>3, <1>4

\* The call of a handler that was never stored.
LEMMA OnUnsetKeeps ==
  ASSUME ServerInv, NEW fd \in FD, OnUnset(fd)
  PROVE  ServerInv'
<1>1. Faults("handler")
  BY DEF OnUnset
<1> QED
  BY <1>1, FaultsKeep

LEMMA OnReadKeeps ==
  ASSUME ServerInv, fault = "none", NEW fd \in FD, OnRead(fd)
  PROVE  ServerInv'
<1>1. /\ lpc = "dispatch" /\ R \in fired[fd] /\ R \in mask[fd]
      /\ Dispatched(fd, R) /\ clientData[fd] \in Live
      /\ UNCHANGED << tasks, wpc, task, staleRun, wseen >>
      /\ UNCHANGED << sockfd, lost, lateStore, fault, clientData >>
      /\ UNCHANGED << lseen, el, engine, busyAtStop >>
      /\ fd \in AnyFD
  BY DEF OnRead, AtEvent, Fires, poolVars, history, AnyFD
<1> PICK d \in Live : d = clientData[fd]
  BY <1>1
<1>2. sockfd[d] = fd /\ d \in Conn /\ heap[d] = "live" /\ LiveOK(d)
  BY <1>1, AtDispatch DEF ServerInv, ConnsOK, ConnOK, Live
<1>3. ASSUME status[d] \in {"WAIT_RECV", "RECEIVING"}
      PROVE  UnreadOK(d) /\ W \notin fired[fd]
  BY <1>2, <1>3, NotFired DEF LiveOK
<1>4. CASE status[d] = "WAIT_RECV" /\ ReadFails(fd, d)
  <2>1. /\ heap' = [heap EXCEPT ![d] = "freed"] /\ DeleteFileEvent(fd, R)
        /\ UNCHANGED << status, lpc, lconn >>
    BY <1>4 DEF ReadFails
  <2>2. mask[fd] = {R} /\ ~Queued(d) /\ \A w \in Worker : task[w] # d
    BY <1>2, <1>3, <1>4 DEF UnreadOK, Has, Untaken
  <2> QED
    BY <1>1, <1>2, <1>3, <1>4, <2>1, <2>2, HandlerCloses
<1>5. CASE /\ status[d] \in {"WAIT_RECV", "RECEIVING"}
           /\ status' = [status EXCEPT ![d] = "RECEIVING"]
           /\ lpc' = "body" /\ lconn' = d
           /\ UNCHANGED << mask, kernel, heap >>
  <2>1. /\ status \in [Conn -> {"WAIT_RECV", "RECEIVING", "RECVED", "SENDING"}]
        /\ fired \in [AnyFD -> Events]
    BY DEF ServerInv, ServerTypeOK
  <2>2. /\ status'[d] = "RECEIVING" /\ \A c \in Conn \ {d} : status'[c] = status[c]
        /\ status' \in [Conn -> {"WAIT_RECV", "RECEIVING", "RECVED", "SENDING"}]
    BY <1>2, <1>5, <2>1
  <2>3. /\ fired' \in [AnyFD -> Events]
        /\ \A f \in AnyFD : W \in fired'[f] => W \in fired[f]
    BY <1>1, <2>1 DEF Dispatched, Events
  <2>4. lpc \notin LoopPlaces
    BY <1>1, AtDispatch
  <2>5. /\ \A c : Queued(c)' <=> Queued(c)
        /\ TakenOnce' /\ WorkersOK'
        /\ \A c \in Conn : SameHands(c)
    BY <1>1, <1>5, PoolSame
  <2>6. OthersKept(d)
    BY <1>1, <1>2, <1>5, <2>2, <2>4, <2>5, OtherLoops DEF OthersKept
  <2>7. ConnOK(d)'
    <3>1. ~Parting(d)' /\ ~Pushing(d)' /\ ~Storing(d)'
      BY <1>5 DEF Parting, PartingPlaces, Pushing, Storing
    <3>2. UnreadOK(d)'
      BY <1>1, <1>3, <1>5, <2>5, <3>1 DEF UnreadOK, Has, Untaken
    <3>3. LiveOK(d)'
      BY <1>1, <1>2, <2>2, <3>1, <3>2 DEF LiveOK
    <3> QED
      BY <1>2, <1>5, <3>3 DEF ConnOK
  <2>8. ConnsOK' /\ Owners' /\ ClosedOK' /\ FiredOK'
    BY <1>1, <1>2, <1>3, <1>5, <2>3, <2>6, <2>7, HoldKeeps
  <2>9. ServerTypeOK'
    BY <1>1, <1>2, <1>5, <2>2, <2>3 DEF ServerInv, ServerTypeOK, MainPlaces, LoopPlaces
  <2>10. EndOK'
    BY <1>1, <1>5, EndFrame DEF EndPlaces
  <2>11. FaultsOK'
    BY <1>1, FaultFrame
  <2> QED
    BY <2>5, <2>8, <2>9, <2>10, <2>11 DEF ServerInv
<1> QED
  BY <1>4, <1>5 DEF OnRead

\* accept takes the first client of the backlog and the lowest descriptor.
LEMMA LowestIn ==
  ASSUME NEW S \in SUBSET Nat, S # {}
  PROVE  Lowest(S) \in S
<1>1. IsWellFoundedOn(OpToRel(<, Nat), Nat)
  BY NatLessThanWellFounded
<1>2. PICK m \in S : \A n \in S : << n, m >> \notin OpToRel(<, Nat)
  BY <1>1, WFMin
<1>3. ASSUME NEW n \in S PROVE m <= n
  <2>1. n \in Nat /\ m \in Nat
    OBVIOUS
  <2>2. ~(n < m)
    BY <1>2, <2>1 DEF OpToRel
  <2> QED
    BY <2>1, <2>2
<1> QED
  BY <1>2, <1>3 DEF Lowest

LEMMA OnAcceptKeeps ==
  ASSUME ServerInv, fault = "none", OnAccept
  PROVE  ServerInv'
<1>1. /\ lpc = "dispatch" /\ Dispatched(LISTENER, R) /\ LISTENER \in AnyFD
      /\ UNCHANGED << tasks, wpc, task, staleRun, wseen >>
      /\ UNCHANGED << status, lost, lateStore, fault >>
      /\ UNCHANGED << lpc, lconn, lseen, el, engine, busyAtStop >>
  BY DEF OnAccept, AtEvent, poolVars, mainVars, history, AnyFD
<1>2. CASE AcceptFails
  <2>1. UNCHANGED << heap, sockfd, mask, kernel, clientData >>
    BY <1>2 DEF OnAccept
  <2> QED
    BY <1>1, <2>1, DispatchedKeeps
<1>3. CASE ~AcceptFails
  <2>1. Lowest(Backlog) \in Backlog
    <3>1. Backlog \in SUBSET Nat /\ Backlog # {}
      BY <1>3, ConnAssumption DEF AcceptFails, Backlog
    <3> QED
      BY <3>1, LowestIn
  <2>2. Lowest(FreeFDs) \in FreeFDs
    <3>1. FreeFDs \in SUBSET Nat /\ FreeFDs # {}
      BY <1>3, FDAssumption DEF AcceptFails, FreeFDs
    <3> QED
      BY <3>1, LowestIn
  <2> PICK d \in Conn : d = Lowest(Backlog)
    BY <2>1 DEF Backlog
  <2> PICK fd \in FreeFDs : fd = Lowest(FreeFDs)
    BY <2>2
  <2>3. heap[d] = "none" /\ NoneOK(d)
    BY <2>1 DEF Backlog, ServerInv, ConnsOK, ConnOK
  <2>4. /\ fd \in FD /\ fd \in AnyFD /\ mask[fd] = {} /\ kernel[fd] = {}
        /\ lpc \notin LoopPlaces /\ \A c : ~Parting(c) /\ ~Pushing(c) /\ ~Storing(c)
    BY <1>1, AtDispatch DEF FreeFDs, AnyFD
  <2>5. /\ sockfd' = [sockfd EXCEPT ![d] = fd]
        /\ heap' = [heap EXCEPT ![d] = "live"]
        /\ kernel' = [kernel EXCEPT ![fd] = {R}]
        /\ mask' = [mask EXCEPT ![fd] = {R}]
        /\ clientData' = [clientData EXCEPT ![fd] = d]
    <3>1. AddSucceeds(fd, mask[fd])
      BY <2>4 DEF AddSucceeds
    <3> QED
      BY <1>3, <2>4, <3>1 DEF OnAccept, CreateFileEvent
  <2>6. /\ kernel \in [AnyFD -> Events] /\ mask \in [AnyFD -> Events]
        /\ fired \in [AnyFD -> Events] /\ sockfd \in [Conn -> AnyFD]
        /\ heap \in [Conn -> {"none", "live", "freed"}]
        /\ clientData \in [AnyFD -> Conn \cup {NoData}]
    BY DEF ServerInv, ServerTypeOK
  <2>7. /\ heap'[d] = "live" /\ sockfd'[d] = fd
        /\ kernel'[fd] = {R} /\ mask'[fd] = {R} /\ clientData'[fd] = d
        /\ \A c \in Conn \ {d} : heap'[c] = heap[c] /\ sockfd'[c] = sockfd[c]
        /\ \A f \in AnyFD : f # fd => /\ kernel'[f] = kernel[f] /\ mask'[f] = mask[f]
                                      /\ clientData'[f] = clientData[f]
    BY <2>4, <2>5, <2>6
  <2>8. {R} \in Events
    BY DEF Events
  <2>9. /\ kernel' \in [AnyFD -> Events] /\ mask' \in [AnyFD -> Events]
        /\ sockfd' \in [Conn -> AnyFD]
        /\ heap' \in [Conn -> {"none", "live", "freed"}]
        /\ clientData' \in [AnyFD -> Conn \cup {NoData}]
    BY <2>4, <2>5, <2>6, <2>8
  <2>10. /\ fired' \in [AnyFD -> Events]
         /\ \A f \in AnyFD : W \in fired'[f] => W \in fired[f]
    BY <1>1, <2>6 DEF Dispatched, Events
  <2>11. /\ \A c : Queued(c)' <=> Queued(c)
         /\ \A c \in Conn : SameHands(c) /\ SameLoop(c)
    BY <1>1, SameHandsFrame, SameLoopFrame DEF Queued
  <2>12. Live' = Live \cup {d} /\ d \notin Live
    BY <2>3, <2>7 DEF Live
  <2>13. FreeFDs' = FreeFDs \ {fd}
    <3>1. \A c \in Live : sockfd'[c] = sockfd[c]
      BY <2>7, <2>12 DEF Live
    <3>2. OpenFDs' = OpenFDs \cup {fd}
      BY <2>7, <2>12, <3>1 DEF OpenFDs
    <3> QED
      BY <3>2 DEF FreeFDs
  <2>14. \A c : ~Parting(c)' /\ ~Pushing(c)' /\ ~Storing(c)'
    BY <1>1, <2>4 DEF Parting, Pushing, Storing
  <2>15. ASSUME NEW c \in Conn \ {d} PROVE ConnOK(c)'
    <3>1. ConnOK(c) /\ SameConn(c)
      BY <1>1, <2>7, <2>11 DEF ServerInv, ConnsOK, SameConn
    <3>2. heap[c] = "live" \/ Parting(c) => SameEvents(c)
      <4>1. heap[c] = "live" => sockfd[c] # fd /\ sockfd[c] \in AnyFD
        BY <2>6, OpenFD DEF Live
      <4> QED
        BY <2>4, <2>7, <4>1 DEF SameEvents
    <3> QED
      BY <2>4, <2>11, <3>1, <3>2, LoopIsPart, ConnFrame
  <2>16. ConnOK(d)'
    <3>1. UnreadOK(d)'
      BY <1>1, <2>3, <2>7, <2>11, <2>14 DEF NoneOK, UnreadOK, Has, Untaken
    <3>2. status'[d] = "WAIT_RECV"
      BY <1>1, <2>3 DEF NoneOK
    <3>3. LiveOK(d)'
      BY <1>1, <2>4, <2>7, <2>14, <3>1, <3>2 DEF LiveOK, LoopPlaces
    <3> QED
      BY <2>7, <3>3 DEF ConnOK
  <2>17. ConnsOK'
    BY <2>15, <2>16 DEF ConnsOK
  <2>18. Owners'
    <3>1. \A a \in Live : sockfd[a] # fd /\ sockfd[a] \in AnyFD /\ a \in Conn \ {d}
      BY <2>6, <2>12, OpenFD DEF Live
    <3>2. \A a, b \in Live' : sockfd'[a] = sockfd'[b] => a = b
      BY <2>7, <2>12, <3>1 DEF ServerInv, Owners
    <3>3. ASSUME NEW c \in Live'
          PROVE  \/ clientData'[sockfd'[c]] = c
                 \/ /\ lateStore' /\ clientData'[sockfd'[c]] \in Conn
                    /\ heap'[clientData'[sockfd'[c]]] = "freed"
      <4>1. CASE c = d
        BY <2>7, <4>1
      <4>2. CASE c # d
        <5>1. /\ c \in Live /\ sockfd'[c] = sockfd[c]
              /\ clientData'[sockfd[c]] = clientData[sockfd[c]]
          BY <2>7, <2>12, <3>1, <4>2
        <5>2. \A a \in Conn : heap[a] = "freed" => heap'[a] = "freed"
          BY <2>3, <2>7
        <5> QED
          BY <1>1, <5>1, <5>2 DEF ServerInv, Owners
      <4> QED
        BY <4>1, <4>2
    <3> QED
      BY <3>2, <3>3 DEF Owners
  <2>19. ClosedOK'
    <3>1. \A f \in FreeFDs' : mask'[f] = {} /\ kernel'[f] = {}
      BY <1>1, <2>7, <2>13, AtDispatch DEF FreeFDs, AnyFD
    <3> QED
      BY <3>1 DEF ClosedOK
  <2>20. FiredOK'
    <3> SUFFICES ASSUME NEW f \in AnyFD, W \in fired'[f]
                 PROVE  \E c \in Live' :
                          /\ sockfd'[c] = f /\ status'[c] = "SENDING"
                          /\ ~Parting(c)' /\ kernel'[f] = {W} /\ c \notin lost'
      BY DEF FiredOK
    <3>1. PICK c \in Live : /\ sockfd[c] = f /\ status[c] = "SENDING"
                            /\ kernel[f] = {W} /\ c \notin lost
      BY <2>10 DEF ServerInv, FiredOK
    <3>2. f # fd /\ c \in Conn \ {d} /\ c \in Live'
      BY <2>12, <3>1, OpenFD DEF Live
    <3> QED
      BY <1>1, <2>7, <2>14, <3>1, <3>2
  <2>21. TakenOnce'
    BY <1>1, <2>11 DEF ServerInv, TakenOnce
  <2>22. WorkersOK'
    BY <1>1, <2>12 DEF ServerInv, WorkersOK
  <2>23. ServerTypeOK'
    BY <1>1, <2>9, <2>10 DEF ServerInv, ServerTypeOK
  <2>24. EndOK' /\ FaultsOK'
    BY <1>1, EndFrame, FaultFrame
  <2> QED
    BY <2>17, <2>18, <2>19, <2>20, <2>21, <2>22, <2>23, <2>24 DEF ServerInv
<1> QED
  BY <1>2, <1>3

-----------------------------------------------------------------------------
(* The invariant, and what it says.                                        *)

LEMMA PoolBroadcastKeeps ==
  ASSUME ServerInv, fault = "none", PoolBroadcast
  PROVE  ServerInv'
<1>0. wpc \in [Worker -> WorkerPlaces] /\ Broadcast
  BY DEF ServerInv, ServerTypeOK, PoolBroadcast
<1>1. /\ UNCHANGED << tasks, task, wseen, staleRun, heap, status, lateStore >>
      /\ UNCHANGED << sockfd, clientData, fired, kernel, mask, lost, fault >>
      /\ UNCHANGED << lpc, lconn, lseen, el, engine, busyAtStop >>
  BY DEF PoolBroadcast, Broadcast, loopVars, connVars, mainVars, history
<1>2. /\ TakenOnce' /\ WorkersOK' /\ (Busy' <=> Busy)
      /\ \A c \in Conn : SameHands(c)
  BY <1>0, <1>1, SignalWakes, WakeKeeps
<1>3. \A c \in Conn : SameLoop(c)
  BY <1>1, SameLoopFrame
<1>4. ConnsOK' /\ ClosedOK' /\ Owners'
  BY <1>1, <1>2, <1>3, QuietFrame
<1>5. FiredOK'
  BY <1>1, <1>3, FiredFrame
<1>6. ServerTypeOK'
  <2>1. wpc' \in [Worker -> WorkerPlaces]
    BY <1>0, SignalWakes
  <2> QED
    BY <1>1, <2>1 DEF ServerInv, ServerTypeOK
<1>7. EndOK'
  BY <1>1, <1>2 DEF ServerInv, EndOK
<1>8. FaultsOK'
  BY <1>1, FaultFrame
<1> QED
  BY <1>2, <1>4, <1>5, <1>6, <1>7, <1>8 DEF ServerInv

LEMMA InitConns == ServerInit => ServerInv
<1> SUFFICES ASSUME ServerInit PROVE ServerInv
  OBVIOUS
<1>1. /\ tasks = << >> /\ wpc = [w \in Worker |-> "start"]
      /\ task = [w \in Worker |-> NoTask] /\ staleRun = FALSE
      /\ mask = [fd \in AnyFD |-> {}] /\ kernel = [fd \in AnyFD |-> {}]
      /\ fired = [fd \in AnyFD |-> {}] /\ clientData = [fd \in AnyFD |-> NoData]
      /\ heap = [c \in Conn |-> "none"] /\ sockfd = [c \in Conn |-> LISTENER]
      /\ status = [c \in Conn |-> "WAIT_RECV"]
      /\ lpc = "boot" /\ lseen = {} /\ wseen = [w \in Worker |-> {}]
      /\ el = "none" /\ engine = "live" /\ fault = "none"
      /\ lost = {} /\ lateStore = FALSE
  BY DEF ServerInit, PoolInit, EventLoopInit
<1>2. /\ "boot" \in MainPlaces /\ "boot" \notin LoopPlaces
      /\ "boot" \notin EndPlaces /\ "start" \in WorkerPlaces
      /\ {} \in Events /\ LISTENER \in AnyFD
      /\ staleRun \in BOOLEAN /\ lateStore \in BOOLEAN
  BY <1>1 DEF MainPlaces, LoopPlaces, PartingPlaces, EndPlaces, WorkerPlaces,
              Events, AnyFD
<1>3. ServerTypeOK
  <2>1. /\ tasks \in Seq(Conn) /\ wpc \in [Worker -> WorkerPlaces]
        /\ task \in [Worker -> Conn \cup {NoTask}]
    BY <1>1, <1>2, EmptySeq
  <2>2. /\ mask \in [AnyFD -> Events] /\ kernel \in [AnyFD -> Events]
        /\ fired \in [AnyFD -> Events] /\ lseen \in Events
        /\ wseen \in [Worker -> Events]
        /\ clientData \in [AnyFD -> Conn \cup {NoData}]
    BY <1>1, <1>2
  <2>3. /\ heap \in [Conn -> {"none", "live", "freed"}]
        /\ sockfd \in [Conn -> AnyFD]
        /\ status \in [Conn -> {"WAIT_RECV", "RECEIVING", "RECVED", "SENDING"}]
    BY <1>1, <1>2
  <2> QED
    BY <1>1, <1>2, <2>1, <2>2, <2>3 DEF ServerTypeOK
<1>4. \A c : ~Queued(c)
  BY <1>1 DEF Queued
<1>5. \A w \in Worker : task[w] = NoTask
  BY <1>1
<1>6. TakenOnce
  BY <1>1, <1>4, <1>5, PoolAssumption, ConnAssumption DEF TakenOnce
<1>7. ConnsOK
  <2>1. \A c \in Conn : NoneOK(c)
    BY <1>1, <1>2, <1>4, <1>5, PoolAssumption, ConnAssumption DEF NoneOK, Untaken
  <2> QED
    BY <1>1, <2>1 DEF ConnsOK, ConnOK
<1>8. Live = {}
  BY <1>1 DEF Live
<1>9. Owners /\ ClosedOK /\ FiredOK /\ WorkersOK
  BY <1>1, <1>8 DEF Owners, ClosedOK, FiredOK, WorkersOK, FreeFDs, AnyFD
<1>10. EndOK /\ FaultsOK
  BY <1>1, <1>2 DEF EndOK, FaultsOK
<1> QED
  BY <1>3, <1>6, <1>7, <1>9, <1>10 DEF ServerInv

LEMMA MainKeeps ==
  ASSUME ServerInv, Running, MainStep
  PROVE  ServerInv'
<1>0. fault = "none"
  BY DEF Running
<1>1. CASE \/ Boot \/ WorkersStarted \/ EnterMain \/ CheckStop \/ DispatchEnd
           \/ FreeLoop \/ FreeEngine \/ PoolExit \/ PoolJoined
  BY <1>0, <1>1, StartAndEndKeep
<1>2. CASE Listen \/ Close
  BY <1>0, <1>2, ListenKeeps
<1>3. CASE PollEvents
  BY <1>0, <1>3, PollKeeps
<1>4. CASE \E fd \in AnyFD, m \in {R, W} : DispatchNone(fd, m) \/ OnFreed(fd, m)
  BY <1>0, <1>4, PassOverKeeps, OnFreedKeeps
<1>5. CASE OnAccept
  BY <1>0, <1>5, OnAcceptKeeps
<1>6. CASE \E fd \in FD : OnRead(fd) \/ OnWrite(fd) \/ OnUnset(fd)
  BY <1>0, <1>6, OnReadKeeps, OnWriteKeeps, OnUnsetKeeps
<1>7. CASE BodyEnds \/ BodyFails \/ BodyRead \/ Push \/ PushSignal
  BY <1>0, <1>7, BodyEndsKeeps, BodyFailsKeeps, BodyReadKeeps, PushKeeps,
     PushSignalKeeps
<1>8. CASE DeleteSees \/ DeleteCtl \/ DeleteStore
  BY <1>0, <1>8, DeleteSeesKeeps, DeleteCtlKeeps, DeleteStoreKeeps
<1>9. CASE PoolBroadcast
  BY <1>0, <1>9, PoolBroadcastKeeps
<1> QED
  BY <1>1, <1>2, <1>3, <1>4, <1>5, <1>6, <1>7, <1>8, <1>9 DEF MainStep

LEMMA WorkerKeeps ==
  ASSUME ServerInv, Running, NEW w \in Worker,
         WorkerStep(w) \/ (WakeUp(w) /\ Untouched)
  PROVE  ServerInv'
<1>0. fault = "none"
  BY DEF Running
<1>1. CASE (WorkerLoop(w) \/ WakeUp(w)) /\ Untouched
  BY <1>0, <1>1, WaitsKeep, DequeueKeeps, DequeueReturnsKeeps DEF WorkerLoop
<1>2. CASE HandleTask(w)
  BY <1>0, <1>2, HandleTaskKeeps
<1>3. CASE Process(w) \/ CreateCtl(w)
  BY <1>3, ProcessKeeps, CreateCtlKeeps
<1>4. CASE CreateStore(w) \/ CreateProc(w) \/ CreateData(w)
  BY <1>4, CreateStoreKeeps, CreateProcKeeps, CreateDataKeeps
<1> QED
  BY <1>1, <1>2, <1>3, <1>4 DEF WorkerStep

LEMMA NextConns ==
  ASSUME ServerInv, [ServerNext]_serverVars
  PROVE  ServerInv'
<1>1. CASE UNCHANGED serverVars
  BY <1>1, StutterKeeps
<1>2. CASE ServerNext
  <2>1. Running /\ fault = "none"
    BY <1>2 DEF ServerNext, Running
  <2>2. CASE MainStep
    BY <2>1, <2>2, MainKeeps
  <2>3. CASE \E w \in Worker : WorkerStep(w) \/ (WakeUp(w) /\ Untouched)
    BY <2>1, <2>3, WorkerKeeps
  <2>4. CASE (\E c \in Conn : ClientConnect(c) \/ ClientSend(c)) \/ SignalStop
    BY <2>1, <2>4, ClientsKeep
  <2>5. CASE ListenFails \/ BodyPart
    BY <2>1, <2>5, StartAndEndKeep, BodyEndsKeeps
  <2> QED
    BY <1>2, <2>2, <2>3, <2>4, <2>5 DEF ServerNext
<1> QED
  BY <1>1, <1>2

\* Where every connection is, and what the kernel and the event loop hold for
\* its descriptor, at every step of the two hand-overs (server.c:124, server.c:193).
THEOREM ServerInvHolds == ServerSpec => []ServerInv
  BY InitConns, NextConns, PTL DEF ServerSpec

\* Every connection is in somebody's hands until it is freed, and in one pair
\* of hands (server.c:124, server.c:193).
THEOREM ConnectionsAccounted == ServerSpec => []ConnectionAccounted
<1>1. ServerInv => ConnectionAccounted
  <2> SUFFICES ASSUME ServerInv, ~lateStore, NEW c \in Conn
               PROVE  /\ heap[c] = "live" =>
                           \/ Watched(c) \/ ByLoop(c) \/ Queued(c)
                           \/ Worked(c, {"run", "process", "ctl"})
                           \/ c \in lost
                      /\ heap[c] = "freed" =>
                           ~Queued(c) /\ (~staleRun => ~Worked(c, {"run", "process", "ctl"}))
                      /\ Queued(c) => ~Worked(c, {"run", "process", "ctl", "mask",
                                                   "proc"})
    BY DEF ConnectionAccounted
  <2>1. ConnOK(c)
        /\ status[c] \in {"WAIT_RECV", "RECEIVING", "RECVED", "SENDING"}
    BY DEF ServerInv, ConnsOK, ServerTypeOK
  <2>2. heap[c] = "freed" =>
          ~Queued(c) /\ (~staleRun => ~Worked(c, {"run", "process", "ctl"}))
    BY <2>1 DEF ConnOK, FreedOK, Worked
  <2>3. Queued(c) => ~Worked(c, {"run", "process", "ctl", "mask", "proc"})
    BY DEF ServerInv, TakenOnce, Worked
  <2>4. ASSUME heap[c] = "live"
        PROVE  \/ Watched(c) \/ ByLoop(c) \/ Queued(c)
               \/ Worked(c, {"run", "process", "ctl"})
               \/ c \in lost
    <3>1. LiveOK(c) /\ clientData[sockfd[c]] = c
      BY <2>1, <2>4 DEF ConnOK, ServerInv, Owners, Live
    <3>2. CASE status[c] \in {"WAIT_RECV", "RECEIVING"}
      BY <3>1, <3>2 DEF LiveOK, UnreadOK, Has, Watched
    <3>3. CASE status[c] = "RECVED"
      BY <3>1, <3>3 DEF LiveOK, Pushing, ByLoop, RecvedOK, Worked
    <3>4. CASE status[c] = "SENDING"
      <4>1. SendingOK(c)
        BY <3>1, <3>4 DEF LiveOK
      <4>2. kernel[sockfd[c]] # {} => Watched(c)
        BY <3>1, <3>4 DEF Watched
      <4>3. ASSUME NEW w \in Worker, task[w] = c, wpc[w] = "mask"
            PROVE  kernel[sockfd[c]] # {} \/ c \in lost
        <5>1. MaskOK(c, w)
          BY <4>1, <4>3 DEF SendingOK
        <5> QED
          BY <5>1 DEF MaskOK, Has
      <4>4. ASSUME ~Worked(c, {"ctl", "mask"})
            PROVE  kernel[sockfd[c]] # {} \/ c \in lost
        <5>1. DoneOK(c)
          BY <4>1, <4>4 DEF SendingOK
        <5> QED
          BY <5>1 DEF DoneOK, Has
      <4> QED
        BY <4>2, <4>3, <4>4 DEF Worked
    <3> QED
      BY <2>1, <3>2, <3>3, <3>4
  <2> QED
    BY <2>2, <2>3, <2>4
<1> QED
  BY <1>1, ServerInvHolds, PTL

\* When the loop waits, a closed descriptor has no event left (ae_epoll.c:76).
THEOREM NothingClosedMonitored == ServerSpec => []ClosedUnmonitored
<1>1. ServerInv => ClosedUnmonitored
  BY DEF ServerInv, ClosedOK, ClosedUnmonitored, Parting, PartingPlaces
<1> QED
  BY <1>1, ServerInvHolds, PTL

-----------------------------------------------------------------------------
(* The write handler: HandlersOK, above the invariant of the connections.  *)

\* The workers between their stores of the mask and of the handler stay there.
ProcKept ==
  \A w \in Worker : wpc[w] = "proc" => wpc'[w] = "proc" /\ task'[w] = task[w]

\* What aeDeleteFileEvent has read is still what it has read.
SeenKept ==
  lpc' \in {"del_ctl", "del_store"} =>
    lpc \in {"del_ctl", "del_store"} /\ lconn' = lconn /\ lseen' = lseen

\* A connection that a worker has keeps its descriptor.
SocketsKept ==
  \A w \in Worker : wpc[w] = "proc" /\ task[w] \in Conn =>
    sockfd'[task[w]] = sockfd[task[w]]

LEMMA HandledKept ==
  ASSUME ProcKept, SocketsKept, wfileProc \subseteq wfileProc', NEW fd,
         Handled(fd)
  PROVE  Handled(fd)'
<1>1. CASE fd \in wfileProc
  BY <1>1 DEF Handled
<1>2. CASE \E w \in Worker : wpc[w] = "proc" /\ task[w] \in Conn
                              /\ sockfd[task[w]] = fd
  BY <1>2 DEF Handled, ProcKept, SocketsKept
<1> QED
  BY <1>1, <1>2 DEF Handled

\* A step that adds no write event to a mask.
LEMMA HandlersFrame ==
  ASSUME HandlersOK, ProcKept, UNCHANGED << wfileProc, sockfd >>, SeenKept,
         \A fd \in AnyFD : W \in mask'[fd] => W \in mask[fd],
         FaultsOK', fault' # "handler"
  PROVE  HandlersOK'
<1>1. \A fd : Handled(fd) => Handled(fd)'
  BY HandledKept DEF SocketsKept
<1>2. FaultsExplained'
  BY DEF FaultsOK, FaultsExplained
<1> QED
  BY <1>1, <1>2 DEF HandlersOK, SeenKept

LEMMA HandlersAlone ==
  ASSUME HandlersOK, FaultsOK',
         UNCHANGED << wfileProc, sockfd, mask, wpc, task, lpc, lconn, lseen >>,
         UNCHANGED << fired, fault >>
  PROVE  HandlersOK'
<1>1. \A fd : Handled(fd)' <=> Handled(fd)
  BY DEF Handled
<1>2. FaultsExplained'
  BY DEF HandlersOK, FaultsOK, FaultsExplained
<1> QED
  BY <1>1, <1>2 DEF HandlersOK

LEMMA FaultsHandlers ==
  ASSUME HandlersOK, NEW what, Faults(what), FaultsOK', what # "handler"
  PROVE  HandlersOK'
<1>1. /\ UNCHANGED << wfileProc, sockfd, mask, wpc, task, lpc, lconn, lseen >>
      /\ fault' = what
  BY DEF Faults, poolVars, loopVars, connVars, mainVars
<1> QED
  BY <1>1, HandlersFrame DEF ProcKept, SeenKept

LEMMA OnUnsetHandlers ==
  ASSUME HandlersOK, NEW fd \in FD, OnUnset(fd), FaultsOK'
  PROVE  HandlersOK'
<1>1. /\ UNCHANGED << wfileProc, sockfd, mask, wpc, task, lpc, lconn, lseen, fired >>
      /\ fault' = "handler" /\ W \in fired[fd] /\ W \in mask[fd]
      /\ fd \notin wfileProc /\ fd \in AnyFD
  BY DEF OnUnset, Faults, Fires, AnyFD, poolVars, loopVars, connVars, mainVars
<1>2. \A f : Handled(f)' <=> Handled(f)
  BY <1>1 DEF Handled
<1>3. PICK w \in Worker : wpc[w] = "proc" /\ task[w] \in Conn /\ sockfd[task[w]] = fd
  BY <1>1 DEF HandlersOK, Handled
<1>4. FaultsExplained'
  BY <1>1, <1>3 DEF FaultsOK, FaultsExplained
<1> QED
  BY <1>1, <1>2, <1>4 DEF HandlersOK

\* aeDeleteFileEvent: what it reads of the mask, and what it stores.
LEMMA DeleteHandlers ==
  ASSUME ServerInv, HandlersOK, fault = "none",
         DeleteSees \/ DeleteCtl \/ DeleteStore
  PROVE  HandlersOK'
<1>1. /\ UNCHANGED << wfileProc, sockfd, wpc, task, fault >>
      /\ lpc \in LoopPlaces
  BY DEF DeleteSees, DeleteCtl, DeleteStore, Main, poolVars, loopVars, connVars,
         history, LoopPlaces, PartingPlaces
<1>2. \A f : Handled(f)' <=> Handled(f)
  BY <1>1 DEF Handled
<1>3. sockfd[lconn] \in AnyFD /\ mask \in [AnyFD -> Events]
  BY <1>1, InHand DEF ServerInv, ServerTypeOK
<1>4. FaultsExplained'
  BY <1>1 DEF FaultsExplained
<1>5. CASE DeleteSees \/ DeleteCtl
  <2>1. /\ UNCHANGED mask
        /\ lpc' \in {"del_ctl", "del_store"} =>
             lconn' = lconn /\ lseen' = mask[sockfd[lconn]]
    BY <1>5 DEF DeleteSees, DeleteCtl, Main, loopVars
  <2> QED
    BY <1>1, <1>2, <1>3, <1>4, <2>1 DEF HandlersOK
<1>6. CASE DeleteStore
  <2>1. PICK loaded \in {lseen, mask[sockfd[lconn]]} :
               mask' = [mask EXCEPT ![sockfd[lconn]] = loaded \ {R}]
    BY <1>6 DEF DeleteStore
  <2>2. lpc = "del_store" /\ lpc' = "dispatch"
    BY <1>6 DEF DeleteStore, Main
  <2>3. W \in loaded => Handled(sockfd[lconn])
    BY <1>3, <2>2 DEF HandlersOK
  <2>4. ASSUME NEW fd \in AnyFD, W \in mask'[fd] PROVE Handled(fd)
    BY <1>3, <2>1, <2>3, <2>4 DEF HandlersOK
  <2> QED
    BY <1>2, <1>4, <2>2, <2>4 DEF HandlersOK
<1> QED
  BY <1>5, <1>6

\* A descriptor accept returns is of no worker's connection.
LEMMA OnAcceptHandlers ==
  ASSUME ServerInv, HandlersOK, fault = "none", OnAccept
  PROVE  HandlersOK'
<1>1. /\ UNCHANGED << wfileProc, wpc, task, fault >>
      /\ lpc = "dispatch" /\ lpc' = "dispatch"
  BY DEF OnAccept, AtEvent, poolVars, mainVars
<1>2. mask \in [AnyFD -> Events] /\ sockfd \in [Conn -> AnyFD]
  BY DEF ServerInv, ServerTypeOK
<1>3. \A fd \in AnyFD : W \in mask'[fd] => W \in mask[fd]
  <2>1. CASE UNCHANGED mask
    BY <2>1
  <2>2. CASE \E newfd, c : CreateFileEvent(newfd, R, c)
    <3> PICK newfd : mask' = [mask EXCEPT ![newfd] = @ \cup {R}]
      BY <2>2 DEF CreateFileEvent
    <3> QED
      BY <1>2, EventsDiffer
  <2> QED
    BY <2>1, <2>2 DEF OnAccept
<1>4. SocketsKept
  <2>1. CASE UNCHANGED sockfd
    BY <2>1 DEF SocketsKept
  <2>2. CASE ~AcceptFails
    <3> DEFINE c == Lowest(Backlog)
    <3>1. c \in Backlog
      <4>1. Backlog \in SUBSET Nat
        BY ConnAssumption DEF Backlog
      <4> QED
        BY <2>2, <4>1, LowestIn DEF AcceptFails
    <3>2. c \in Conn /\ Untaken(c)
      BY <3>1 DEF Backlog, ServerInv, ConnsOK, ConnOK, NoneOK
    <3>3. \E fd : sockfd' = [sockfd EXCEPT ![c] = fd]
      BY <2>2 DEF OnAccept
    <3> HIDE DEF c
    <3> QED
      BY <1>2, <3>2, <3>3 DEF SocketsKept, Untaken
  <2> QED
    BY <2>1, <2>2 DEF OnAccept
<1>5. \A fd : Handled(fd) => Handled(fd)'
  BY <1>1, <1>4, HandledKept DEF ProcKept
<1>6. FaultsExplained'
  BY <1>1 DEF FaultsExplained
<1> QED
  BY <1>1, <1>3, <1>5, <1>6 DEF HandlersOK

LEMMA MainHandlers ==
  ASSUME ServerInv, HandlersOK, Running, MainStep, FaultsOK'
  PROVE  HandlersOK'
<1>0. fault = "none" /\ mask \in [AnyFD -> Events] /\ wpc \in [Worker -> WorkerPlaces]
  BY DEF Running, ServerInv, ServerTypeOK
<1>1. CASE DeleteSees \/ DeleteCtl \/ DeleteStore
  BY <1>0, <1>1, DeleteHandlers
<1>2. CASE OnAccept
  BY <1>0, <1>2, OnAcceptHandlers
<1>3. CASE \E fd \in FD : OnUnset(fd)
  BY <1>3, OnUnsetHandlers
<1>4. CASE \E fd \in AnyFD, m \in {R, W} : OnFreed(fd, m)
  BY <1>4, FaultsHandlers DEF OnFreed
<1> USE DEF ProcKept, SeenKept
<1>5. CASE \/ Boot \/ WorkersStarted \/ EnterMain \/ CheckStop \/ PollEvents
           \/ DispatchEnd
  <2>1. /\ UNCHANGED << wfileProc, sockfd, mask, wpc, task, fault >>
        /\ lpc' \notin {"del_ctl", "del_store"}
    BY <1>5 DEF Boot, WorkersStarted, EnterMain, CheckStop, PollEvents,
                DispatchEnd, Main, poolVars, loopVars, connVars
  <2> QED
    BY <1>0, <2>1, HandlersFrame
<1>6. CASE Close \/ FreeLoop \/ FreeEngine \/ PoolExit \/ PoolJoined
  <2>1. /\ UNCHANGED << wfileProc, sockfd, mask, wpc, task, fault >>
        /\ lpc' \notin {"del_ctl", "del_store"}
    BY <1>6 DEF Close, FreeLoop, FreeEngine, PoolExit, SetExit, PoolJoined, Main,
                poolVars, loopVars, connVars
  <2> QED
    BY <1>0, <2>1, HandlersFrame
<1>7. CASE Listen
  <2>1. /\ UNCHANGED << wfileProc, sockfd, wpc, task, fault >>
        /\ lpc' \notin {"del_ctl", "del_store"}
        /\ mask' = [mask EXCEPT ![LISTENER] = @ \cup {R}]
    BY <1>7 DEF Listen, Main, poolVars, connVars, CreateFileEvent
  <2>2. \A fd \in AnyFD : W \in mask'[fd] => W \in mask[fd]
    BY <1>0, <2>1, EventsDiffer
  <2> QED
    BY <1>0, <2>1, <2>2, HandlersFrame
<1>8. CASE \E fd \in AnyFD, m \in {R, W} : DispatchNone(fd, m)
  <2>1. UNCHANGED << wfileProc, sockfd, mask, wpc, task, fault, lpc, lconn, lseen >>
    BY <1>8 DEF DispatchNone, poolVars, mainVars, connVars
  <2> QED
    BY <1>0, <2>1, HandlersFrame
<1>9. CASE \E fd \in FD : OnRead(fd) \/ OnWrite(fd)
  <2>1. /\ UNCHANGED << wfileProc, sockfd, wpc, task, fault >>
        /\ lpc' \notin {"del_ctl", "del_store"}
    BY <1>9 DEF OnRead, OnWrite, AtEvent, ReadFails, poolVars, mainVars
  <2>2. mask' = mask \/ \E fd \in FD, m \in {R, W} : DeleteFileEvent(fd, m)
    BY <1>9 DEF OnRead, OnWrite, ReadFails
  <2>3. \A fd \in AnyFD : W \in mask'[fd] => W \in mask[fd]
    BY <1>0, <2>2 DEF DeleteFileEvent
  <2> QED
    BY <1>0, <2>1, <2>3, HandlersFrame
<1>10. CASE BodyEnds \/ BodyFails \/ BodyRead \/ Push
  <2>1. /\ UNCHANGED << wfileProc, sockfd, wpc, task, fault >>
        /\ lpc' \notin {"del_ctl", "del_store"}
        /\ mask' = mask \/ DeleteFileEvent(sockfd[lconn], R)
    BY <1>10 DEF BodyEnds, BodyFails, BodyRead, Push, PushEnqueue, Main, poolVars,
                 loopVars, connVars
  <2>2. \A fd \in AnyFD : W \in mask'[fd] => W \in mask[fd]
    BY <1>0, <2>1 DEF DeleteFileEvent
  <2> QED
    BY <1>0, <2>1, <2>2, HandlersFrame
<1>11. CASE PushSignal \/ PoolBroadcast
  <2>1. /\ UNCHANGED << wfileProc, sockfd, mask, task, fault >>
        /\ lpc' \notin {"del_ctl", "del_store"}
    BY <1>11 DEF PushSignal, PoolBroadcast, Signal, Broadcast, Main, loopVars,
                 connVars, mainVars
  <2>2. \A w \in Worker : wpc[w] = "proc" => wpc'[w] = "proc"
    BY <1>0, <1>11 DEF PushSignal, PoolBroadcast, Signal, Broadcast, Asleep
  <2> QED
    BY <1>0, <2>1, <2>2, HandlersFrame
<1> QED
  BY <1>1, <1>2, <1>3, <1>4, <1>5, <1>6, <1>7, <1>8, <1>9, <1>10, <1>11
  DEF MainStep

\* The steps of a worker to another place than "proc", and from another.
LEMMA WorkerFrameHandlers ==
  ASSUME HandlersOK, FaultsOK', fault' # "handler", NEW w \in Worker,
         wpc[w] # "proc",
         \A v \in Worker \ {w} : wpc'[v] = wpc[v] /\ task'[v] = task[v],
         UNCHANGED << wfileProc, sockfd, mask, lpc, lconn, lseen >>
  PROVE  HandlersOK'
<1>1. ProcKept /\ SeenKept
  BY DEF ProcKept, SeenKept
<1> QED
  BY <1>1, HandlersFrame

LEMMA WorkerHandlers ==
  ASSUME ServerInv, HandlersOK, Running, NEW w \in Worker,
         WorkerStep(w) \/ (WakeUp(w) /\ Untouched), FaultsOK'
  PROVE  HandlersOK'
<1>0. /\ fault = "none" /\ mask \in [AnyFD -> Events]
      /\ wpc \in [Worker -> WorkerPlaces]
      /\ task \in [Worker -> Conn \cup {NoTask}]
      /\ sockfd \in [Conn -> AnyFD]
  BY DEF Running, ServerInv, ServerTypeOK
<1>1. CASE \E what \in {"task", "loop", "engine"} : Faults(what)
  BY <1>1, FaultsHandlers
<1>2. CASE (WorkerLoop(w) \/ WakeUp(w)) /\ Untouched
  <2>1. UNCHANGED << wfileProc, sockfd, mask, lpc, lconn, lseen, fault >>
    BY <1>2 DEF Untouched, loopVars, connVars, mainVars
  <2>2. /\ wpc[w] # "proc"
        /\ \A v \in Worker \ {w} : wpc'[v] = wpc[v] /\ task'[v] = task[v]
    BY <1>0, <1>2 DEF WorkerLoop, Start, TestExit, Wait, WakeUp, Dequeue,
                      DequeueReturns, Step
  <2> QED
    BY <1>0, <2>1, <2>2, WorkerFrameHandlers
<1>3. CASE /\ HandleTask(w) \/ Process(w) \/ CreateCtl(w) \/ CreateData(w)
           /\ ~\E what \in {"task", "loop", "engine"} : Faults(what)
  <2>1. UNCHANGED << wfileProc, sockfd, mask, lpc, lconn, lseen, fault, task >>
    BY <1>3 DEF HandleTask, Process, CreateCtl, CreateData, FreeConnection,
                Unprocessed, loopVars, connVars, mainVars
  <2>2. wpc[w] # "proc" /\ \A v \in Worker \ {w} : wpc'[v] = wpc[v]
    BY <1>0, <1>3 DEF HandleTask, Process, CreateCtl, CreateData, Step
  <2> QED
    BY <1>0, <2>1, <2>2, WorkerFrameHandlers
<1>4. CASE /\ CreateStore(w)
           /\ ~\E what \in {"task", "loop", "engine"} : Faults(what)
  <2>1. /\ UNCHANGED << wfileProc, sockfd, lpc, lconn, lseen, fault, task >>
        /\ wpc[w] = "mask" /\ wpc' = [wpc EXCEPT ![w] = "proc"]
        /\ \E loaded : mask' = [mask EXCEPT ![sockfd[task[w]]] = loaded]
    BY <1>4 DEF CreateStore, Step, Unprocessed, connVars, mainVars
  <2>2. task[w] \in Conn
    BY <2>1 DEF ServerInv, WorkersOK
  <2>3. ProcKept /\ SocketsKept
    BY <1>0, <2>1 DEF ProcKept, SocketsKept
  <2>4. \A fd : Handled(fd) => Handled(fd)'
    BY <2>1, <2>3, HandledKept
  <2>5. ASSUME NEW fd, fd = sockfd[task[w]] PROVE Handled(fd)'
    BY <1>0, <2>1, <2>2, <2>5 DEF Handled
  <2>6. ASSUME NEW fd \in AnyFD, W \in mask'[fd] PROVE Handled(fd)'
    <3>1. fd = sockfd[task[w]] \/ W \in mask[fd]
      BY <1>0, <2>1, <2>6
    <3> QED
      BY <2>4, <2>5, <3>1 DEF HandlersOK
  <2>7. FaultsExplained'
    BY <1>0, <2>1 DEF FaultsExplained
  <2> QED
    BY <2>1, <2>4, <2>6, <2>7 DEF HandlersOK
<1>5. CASE /\ CreateProc(w)
           /\ ~\E what \in {"task", "loop", "engine"} : Faults(what)
  <2>1. /\ UNCHANGED << mask, sockfd, lpc, lconn, lseen, fault, task >>
        /\ wpc' = [wpc EXCEPT ![w] = "data"]
        /\ wfileProc' = wfileProc \cup {sockfd[task[w]]}
    BY <1>5 DEF CreateProc, Step, Unprocessed, connVars, mainVars
  <2>2. ASSUME NEW fd, Handled(fd) PROVE Handled(fd)'
    BY <1>0, <2>1, <2>2 DEF Handled
  <2>3. FaultsExplained'
    BY <1>0, <2>1 DEF FaultsExplained
  <2> QED
    BY <2>1, <2>2, <2>3 DEF HandlersOK
<1> QED
  BY <1>1, <1>2, <1>3, <1>4, <1>5 DEF WorkerStep

LEMMA NextHandlers ==
  ASSUME ServerInv, HandlersOK, [ServerNext]_serverVars
  PROVE  HandlersOK'
<1>0. FaultsOK'
  BY NextConns DEF ServerInv
<1> USE DEF ProcKept, SeenKept
<1>1. CASE UNCHANGED serverVars
  <2>1. UNCHANGED << wfileProc, sockfd, mask, wpc, task, lpc, lconn, lseen, fired, fault >>
    BY <1>1 DEF serverVars, poolVars, loopVars, connVars, mainVars
  <2> QED
    BY <1>0, <2>1, HandlersAlone
<1>2. CASE ServerNext
  <2>1. Running /\ fault = "none"
    BY <1>2 DEF ServerNext, Running
  <2>2. CASE MainStep
    BY <1>0, <2>1, <2>2, MainHandlers
  <2>3. CASE \E w \in Worker : WorkerStep(w) \/ (WakeUp(w) /\ Untouched)
    BY <1>0, <2>1, <2>3, WorkerHandlers
  <2>4. CASE Faults("signal")
    BY <1>0, <2>4, FaultsHandlers
  <2>5. CASE \/ \E c \in Conn : ClientConnect(c) \/ ClientSend(c)
             \/ SignalStop /\ ~Faults("signal")
             \/ ListenFails \/ BodyPart
    <3>1. UNCHANGED << wfileProc, sockfd, mask, wpc, task, fault >> /\ SeenKept
      BY <2>5 DEF ClientConnect, ClientSend, SignalStop, ListenFails, BodyPart,
                  Main, poolVars, loopVars, connVars, mainVars
    <3> QED
      BY <1>0, <2>1, <3>1, HandlersFrame
  <2> QED
    BY <1>2, <2>2, <2>3, <2>4, <2>5 DEF ServerNext
<1> QED
  BY <1>1, <1>2

\* The loop calls a write handler only of a descriptor for which one has been
\* stored, or is about to be (ae.c:147, ae.c:450).
THEOREM HandlersHold == ServerSpec => [](ServerInv /\ HandlersOK)
<1>1. ServerInit => HandlersOK
  BY DEF ServerInit, EventLoopInit, HandlersOK, FaultsExplained
<1> QED
  BY <1>1, InitConns, NextConns, NextHandlers, PTL DEF ServerSpec

\* The undefined steps that can be taken, and when (queue.c:49, server.c:193,
\* ae.c:147, server.c:57).
THEOREM AllFaultsExplained == ServerSpec => []FaultsExplained
<1>1. HandlersOK => FaultsExplained
  BY DEF HandlersOK
<1> QED
  BY <1>1, HandlersHold, PTL

===============================================================================
