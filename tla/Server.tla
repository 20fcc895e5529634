------------------------------- MODULE Server --------------------------------
(***************************************************************************)
(* server.c with net.c and ts.c: the life of a connection across the       *)
(* thread of the event loop, which accepts it, reads its request and       *)
(* writes its reply, and the worker that processes the request; start and  *)
(* shutdown.                                                               *)
(*                                                                         *)
(* A connection is handed from the loop to a worker through the pool's     *)
(* queue and back through aeCreateFileEvent; each thread goes on touching  *)
(* the events of the descriptor after it has handed it over, and these     *)
(* touches are steps here.  The processing of a request, the engine's      *)
(* functions included, is one step (see Engine and Lookup).                *)
(*                                                                         *)
(* Clients are external.  A client has sent nothing but its end, the       *)
(* header of 4 bytes, or all, by the time it is accepted; what it asks for *)
(* is drawn where the server looks at it.  Accepted sockets are blocking   *)
(* (server.c:75 makes the listening one non-blocking once more): reading a *)
(* body waits.  Replies are taken to fit the buffer of the socket.         *)
(*                                                                         *)
(* A fault is a step whose effect C does not define; nothing is said of    *)
(* what follows it.                                                        *)
(***************************************************************************)
EXTENDS ThreadPool, EventLoop

CONSTANTS Conn,        \* the connections, numbers 1..n in the order they come
          MaxSignals   \* bound: signals of one behaviour

ASSUME ConnAssumption == Conn \subseteq Nat /\ Task = Conn /\ ClientData = Conn

VARIABLES
  client,    \* client[c]: "none", "header", "whole", "closed"
  heap,      \* heap[c]: the ts_connection_t, "none", "live" or "freed"
  sockfd,    \* sockfd[c]
  status,    \* status[c]
  lpc,       \* where the main thread is
  lconn,     \* its local conn
  lseen,     \* the mask aeDeleteFileEvent has read
  wseen,     \* wseen[w]: the mask aeCreateFileEvent has read
  el,        \* the event loop: "none", "live" or "freed"
  engine,    \* the engine: "live" or "freed"
  signals,   \* signals sent so far
  fault,     \* what undefined step has been taken
  lost,      \* history: connections whose task or event was lost
  lateStore, \* history: a clientData stored after the descriptor was reused
  busyAtStop \* history: requests were with the pool when the loop ended

connVars == << client, heap, sockfd, status >>
mainVars == << lpc, lconn, lseen, el, engine, signals >>
history  == << lost, lateStore, busyAtStop >>
serverVars == << poolVars, loopVars, connVars, mainVars, wseen, fault, history >>

ServerInit ==
  /\ PoolInit
  /\ EventLoopInit
  /\ client = [c \in Conn |-> "none"]
  /\ heap = [c \in Conn |-> "none"]
  /\ sockfd = [c \in Conn |-> LISTENER]
  /\ status = [c \in Conn |-> "WAIT_RECV"]
  /\ lpc = "boot" /\ lconn = NoData /\ lseen = {}
  /\ wseen = [w \in Worker |-> {}]
  /\ el = "none" /\ engine = "live"
  /\ signals = 0
  /\ fault = "none"
  /\ lost = {} /\ lateStore = FALSE /\ busyAtStop = FALSE

Live == {c \in Conn : heap[c] = "live"}
OpenFDs == {sockfd[c] : c \in Live}
FreeFDs == FD \ OpenFDs
Lowest(S) == CHOOSE x \in S : \A y \in S : x <= y

\* A place of the main thread and the next.
Main(from, to) == lpc = from /\ lpc' = to

\* ts_connection_free: the descriptor is closed, and epoll forgets it.
FreeConnection(c) ==
  /\ heap' = [heap EXCEPT ![c] = "freed"]
  /\ kernel' = [kernel EXCEPT ![sockfd[c]] = {}]

Faults(what) ==
  /\ fault' = what
  /\ UNCHANGED << poolVars, loopVars, connVars, mainVars, wseen, history >>

-----------------------------------------------------------------------------
(* The clients, and the signals.                                           *)

\* In the backlog of the listening socket, in order.
Backlog == {c \in Conn : client[c] # "none" /\ heap[c] = "none"}

ClientConnect(c) ==
  /\ client[c] = "none"
  /\ \A b \in Conn : b < c => client[b] # "none"
  /\ lpc \notin {"boot", "workers", "exited"}
  /\ \E s \in {"header", "whole", "closed"} :
       client' = [client EXCEPT ![c] = s]
  /\ UNCHANGED << poolVars, loopVars, heap, sockfd, status, mainVars, wseen,
                  fault, history >>

\* The body arrives, or the client gives up.
ClientSend(c) ==
  /\ client[c] = "header"
  /\ \E s \in {"whole", "closed"} : client' = [client EXCEPT ![c] = s]
  /\ UNCHANGED << poolVars, loopVars, heap, sockfd, status, mainVars, wseen,
                  fault, history >>

\* ts_sighandler.  A signal handled by the main thread also ends its wait.
SignalStop ==
  /\ signals < MaxSignals
  /\ lpc # "exited"
  /\ IF el # "live"
     THEN Faults("signal")
     ELSE /\ signals' = signals + 1
          /\ stop' = TRUE
          /\ lpc' \in {lpc, IF lpc = "poll" THEN "check" ELSE lpc}
          /\ UNCHANGED << poolVars, mask, clientData, kernel, fired, wfileProc,
                          connVars, lconn, lseen, el, engine, wseen, fault,
                          history >>

-----------------------------------------------------------------------------
(* main, ts_server_init and ts_server_start up to aeMain.                  *)

\* aeCreateEventLoop, ts_engine_new.
Boot ==
  /\ Main("boot", "workers")
  /\ el' = "live"
  /\ UNCHANGED << poolVars, loopVars, connVars, lconn, lseen, engine, signals,
                  wseen, fault, history >>

\* ts_threadpool_init waits for every worker.
WorkersStarted ==
  /\ Main("workers", "listen")
  /\ Alive = Worker
  /\ UNCHANGED << poolVars, loopVars, connVars, lconn, lseen, el, engine,
                  signals, wseen, fault, history >>

\* anetTcpServer fails, for want of an address or a socket, and has closed what
\* it opened; so ends the process.
ListenFails ==
  /\ Main("listen", "exited")
  /\ UNCHANGED << poolVars, loopVars, connVars, lconn, lseen, el, engine,
                  signals, wseen, fault, history >>

Listen ==
  /\ Main("listen", "main")
  /\ CreateFileEvent(LISTENER, R, NoData)
  /\ UNCHANGED << poolVars, fired, wfileProc, stop, connVars, lconn, lseen, el,
                  engine, signals, wseen, fault, history >>

\* aeMain begins with stop = 0.
EnterMain ==
  /\ Main("main", "check")
  /\ stop' = FALSE
  /\ UNCHANGED << poolVars, mask, clientData, kernel, fired, wfileProc,
                  connVars, lconn, lseen, el, engine, signals, wseen, fault,
                  history >>

-----------------------------------------------------------------------------
(* The loop.                                                               *)

\* Requests that are with the pool: queued, or in a worker's hands.
Busy == tasks # << >> \/ \E w \in Worker :
          wpc[w] \in {"run", "process", "ctl", "mask", "proc", "data"}

CheckStop ==
  /\ Main("check", IF stop THEN "close" ELSE "poll")
  /\ busyAtStop' = (stop /\ Busy)
  /\ UNCHANGED << poolVars, loopVars, connVars, lconn, lseen, el, engine,
                  signals, wseen, fault, lost, lateStore >>

\* The listener is readable while a client waits; a connection when something
\* of its request, or its end, has come; it can always be written.
Ready == [fd \in AnyFD |->
  IF fd = LISTENER THEN (IF Backlog # {} THEN {R} ELSE {})
  ELSE {W} \cup (IF \E c \in Live : sockfd[c] = fd /\ client[c] # "none"
                 THEN {R} ELSE {})]

PollEvents ==
  /\ Main("poll", "dispatch")
  /\ Poll(Ready)
  /\ UNCHANGED << poolVars, mask, clientData, kernel, wfileProc, stop, connVars,
                  lconn, lseen, el, engine, signals, wseen, fault, history >>

DispatchEnd ==
  /\ Main("dispatch", "check")
  /\ \A fd \in AnyFD : fired[fd] = {}
  /\ UNCHANGED << poolVars, loopVars, connVars, lconn, lseen, el, engine,
                  signals, wseen, fault, history >>

\* An event that is no longer in the mask is passed over.
DispatchNone(fd, m) ==
  /\ lpc = "dispatch"
  /\ m \in fired[fd] /\ ~Fires(fd, m)
  /\ Dispatched(fd, m)
  /\ UNCHANGED << poolVars, mask, clientData, kernel, wfileProc, stop, connVars,
                  mainVars, wseen, fault, history >>

AtEvent(fd, m) == lpc = "dispatch" /\ Fires(fd, m) /\ Dispatched(fd, m)

\* anetTcpAccept.  Without a descriptor left accept fails and the client stays
\* in the backlog.
AcceptFails == Backlog = {} \/ FreeFDs = {}

\* ts_server_on_accept_handler.
OnAccept ==
  /\ AtEvent(LISTENER, R)
  /\ IF AcceptFails
     THEN UNCHANGED << mask, clientData, kernel, heap, sockfd >>
     ELSE LET c == Lowest(Backlog)
              newfd == Lowest(FreeFDs)
          IN  /\ sockfd' = [sockfd EXCEPT ![c] = newfd]
              /\ IF AddSucceeds(newfd, mask[newfd])
                 THEN /\ CreateFileEvent(newfd, R, c)
                      /\ heap' = [heap EXCEPT ![c] = "live"]
                 ELSE /\ heap' = [heap EXCEPT ![c] = "freed"]
                      /\ UNCHANGED << mask, clientData, kernel >>
  /\ UNCHANGED << poolVars, wfileProc, stop, client, status, mainVars, wseen,
                  fault, history >>

\* The handlers take the connection from clientData, whatever it is.
OnFreed(fd, m) ==
  /\ lpc = "dispatch" /\ Fires(fd, m) /\ (m = W => fd \in wfileProc)
  /\ fd # LISTENER /\ clientData[fd] \notin Live
  /\ Faults("connection")

\* goto failed: the connection is freed, then its event deleted.
ReadFails(fd, c) ==
  /\ heap' = [heap EXCEPT ![c] = "freed"]
  /\ DeleteFileEvent(fd, R)
  /\ UNCHANGED << status, lpc, lconn >>

\* ts_server_on_read_handler up to the read of the body.  The length in the
\* header may be one that is refused (server.c:97); at the end of the stream the
\* header keeps the value that was on the stack, good or bad.
OnRead(fd) ==
  /\ AtEvent(fd, R)
  /\ fd # LISTENER
  /\ clientData[fd] \in Live
  /\ LET c == clientData[fd] IN
     \/ /\ status[c] = "WAIT_RECV"
        /\ ReadFails(fd, c)
     \/ /\ status[c] \in {"WAIT_RECV", "RECEIVING"}
        /\ status' = [status EXCEPT ![c] = "RECEIVING"]
        /\ lpc' = "body"
        /\ lconn' = c
        /\ UNCHANGED << mask, kernel, heap >>
  /\ UNCHANGED << poolVars, clientData, wfileProc, stop, client, sockfd, lseen,
                  el, engine, signals, wseen, fault, history >>

\* read returns 0, which nothing is done about.
BodyEnds ==
  /\ Main("body", "dispatch")
  /\ client[lconn] = "closed"
  /\ lconn' = NoData
  /\ UNCHANGED << poolVars, loopVars, connVars, lseen, el, engine, signals,
                  wseen, fault, history >>

\* read returns a part of the body: the next event is for the rest.
BodyPart ==
  /\ Main("body", "dispatch")
  /\ client[lconn] = "header"
  /\ lconn' = NoData
  /\ UNCHANGED << poolVars, loopVars, connVars, lseen, el, engine, signals,
                  wseen, fault, history >>

\* read fails, as when the client has reset the connection: goto failed.
BodyFails ==
  /\ Main("body", "dispatch")
  /\ client[lconn] = "closed"
  /\ heap' = [heap EXCEPT ![lconn] = "freed"]
  /\ DeleteFileEvent(sockfd[lconn], R)
  /\ lconn' = NoData
  /\ UNCHANGED << poolVars, clientData, fired, wfileProc, stop, client, sockfd,
                  status, lseen, el, engine, signals, wseen, fault, history >>

BodyRead ==
  /\ Main("body", "push")
  /\ client[lconn] = "whole"
  /\ status' = [status EXCEPT ![lconn] = "RECVED"]
  /\ UNCHANGED << poolVars, loopVars, client, heap, sockfd, lconn, lseen, el,
                  engine, signals, wseen, fault, history >>

\* ts_threadpool_push; the result it returns is never negative.
Push ==
  /\ Main("push", "signal")
  /\ PushEnqueue(lconn)
  /\ lost' = IF tasks' = tasks THEN lost \cup {lconn} ELSE lost
  /\ UNCHANGED << loopVars, connVars, lconn, lseen, el, engine, signals, wseen,
                  fault, lateStore, busyAtStop >>

PushSignal ==
  /\ Main("signal", "delete")
  /\ Signal
  /\ UNCHANGED << loopVars, connVars, lconn, lseen, el, engine, signals, wseen,
                  fault, history >>

\* aeDeleteFileEvent(el, fd, AE_READABLE); the worker may be at its own event.
DeleteSees ==
  /\ lpc = "delete"
  /\ IF mask[sockfd[lconn]] = {}
     THEN lpc' = "dispatch" /\ lconn' = NoData /\ UNCHANGED lseen
     ELSE lpc' = "del_ctl" /\ lseen' = mask[sockfd[lconn]] /\ UNCHANGED lconn
  /\ UNCHANGED << poolVars, loopVars, connVars, el, engine, signals, wseen,
                  fault, history >>

DeleteCtl ==
  /\ Main("del_ctl", "del_store")
  /\ DelEvent(sockfd[lconn], lseen, {R})
  /\ lseen' = mask[sockfd[lconn]]
  /\ lost' = IF W \in kernel[sockfd[lconn]] \ kernel'[sockfd[lconn]]
             THEN lost \cup {lconn} ELSE lost
  /\ UNCHANGED << poolVars, mask, clientData, fired, wfileProc, stop, connVars,
                  lconn, el, engine, signals, wseen, fault, lateStore,
                  busyAtStop >>

\* The mask is loaded and stored without a lock, the load at any time since
\* epoll_ctl: a bit the other thread has set meanwhile may be lost.
DeleteStore ==
  /\ Main("del_store", "dispatch")
  /\ \E loaded \in {lseen, mask[sockfd[lconn]]} :
       mask' = [mask EXCEPT ![sockfd[lconn]] = loaded \ {R}]
  /\ lconn' = NoData /\ lseen' = {}
  /\ UNCHANGED << poolVars, clientData, kernel, fired, wfileProc, stop,
                  connVars, el, engine, signals, wseen, fault, history >>

\* fe->wfileProc is called whatever it holds: what malloc left there, on the
\* first use of a descriptor.
OnUnset(fd) ==
  /\ lpc = "dispatch" /\ Fires(fd, W)
  /\ fd \notin wfileProc
  /\ Faults("handler")

\* ts_server_on_write_handler: written or not, the connection is freed.
OnWrite(fd) ==
  /\ AtEvent(fd, W)
  /\ fd \in wfileProc
  /\ clientData[fd] \in Live
  /\ IF status[clientData[fd]] = "SENDING"
     THEN /\ heap' = [heap EXCEPT ![clientData[fd]] = "freed"]
          /\ DeleteFileEvent(fd, W)
     ELSE UNCHANGED << heap, mask, kernel >>
  /\ UNCHANGED << poolVars, clientData, wfileProc, stop, client, sockfd, status,
                  mainVars, wseen, fault, history >>

-----------------------------------------------------------------------------
(* A worker processes a request.                                           *)

Unprocessed == << tasks, signal, exit, task, staleRun >>

\* ts_server_request_process_handler: the task is freed, the action examined.
\* When it is unknown, or the body does not unpack, the connection is freed.
HandleTask(w) ==
  /\ wpc[w] = "run"
  /\ IF staleRun \/ task[w] \notin Live
     THEN Faults("task")
     ELSE /\ \/ Step(w, "run", "deq") /\ FreeConnection(task[w])
             \/ Step(w, "run", "process") /\ UNCHANGED << heap, kernel >>
          /\ UNCHANGED << Unprocessed, mask, clientData, fired, wfileProc, stop,
                          client, sockfd, status, mainVars, wseen, fault,
                          history >>

\* Mutant of Process: the reply is left to be sent in the old status.
ProcessKeepStatus(w) ==
  /\ wpc[w] = "process"
  /\ IF engine = "freed" THEN Faults("engine")
     ELSE IF el = "freed" THEN Faults("loop")
     ELSE /\ Step(w, "process", "ctl")
          /\ wseen' = [wseen EXCEPT ![w] = mask[sockfd[task[w]]]]
          /\ UNCHANGED << Unprocessed, loopVars, connVars, mainVars, fault,
                          history >>

\* The engine does what is asked, the packet becomes the reply, and
\* aeCreateFileEvent reads the mask.
Process(w) ==
  /\ wpc[w] = "process"
  /\ IF engine = "freed" THEN Faults("engine")
     ELSE IF el = "freed" THEN Faults("loop")
     ELSE /\ Step(w, "process", "ctl")
          /\ status' = [status EXCEPT ![task[w]] = "SENDING"]
          /\ wseen' = [wseen EXCEPT ![w] = mask[sockfd[task[w]]]]
          /\ UNCHANGED << Unprocessed, loopVars, client, heap, sockfd, mainVars,
                          fault, history >>

\* Mutant of CreateCtl: a failure is not looked at.
CreateCtlUnchecked(w) ==
  LET fd == sockfd[task[w]] IN
  /\ wpc[w] = "ctl"
  /\ IF el = "freed" THEN Faults("loop")
     ELSE /\ Step(w, "ctl", "mask")
          /\ wseen' = [wseen EXCEPT ![w] = mask[fd]]
          /\ kernel' = IF AddSucceeds(fd, wseen[w])
                       THEN [kernel EXCEPT ![fd] = wseen[w] \cup {W}] ELSE kernel
          /\ UNCHANGED << Unprocessed, mask, clientData, fired, wfileProc, stop,
                          connVars, mainVars, fault, history >>

\* epoll_ctl; when it fails the worker frees the connection.
CreateCtl(w) ==
  LET fd == sockfd[task[w]] IN
  /\ wpc[w] = "ctl"
  /\ IF el = "freed" THEN Faults("loop")
     ELSE /\ IF AddSucceeds(fd, wseen[w])
             THEN /\ Step(w, "ctl", "mask")
                  /\ kernel' = [kernel EXCEPT ![fd] = wseen[w] \cup {W}]
                  /\ wseen' = [wseen EXCEPT ![w] = mask[fd]]
                  /\ UNCHANGED heap
             ELSE /\ Step(w, "ctl", "deq")
                  /\ FreeConnection(task[w])
                  /\ wseen' = [wseen EXCEPT ![w] = {}]
          /\ UNCHANGED << Unprocessed, mask, clientData, fired, wfileProc, stop,
                          client, sockfd, status, mainVars, fault, history >>

\* The mask is loaded and stored as above.  From here on the loop may call
\* wfileProc, send the reply and free the connection.
CreateStore(w) ==
  LET fd == sockfd[task[w]] IN
  /\ wpc[w] = "mask"
  /\ IF el = "freed" THEN Faults("loop")
     ELSE /\ Step(w, "mask", "proc")
          /\ \E loaded \in {wseen[w], mask[fd]} :
               mask' = [mask EXCEPT ![fd] = loaded \cup {W}]
          /\ wseen' = [wseen EXCEPT ![w] = {}]
          /\ UNCHANGED << Unprocessed, clientData, kernel, fired, wfileProc,
                          stop, connVars, mainVars, fault, history >>

CreateProc(w) ==
  /\ wpc[w] = "proc"
  /\ IF el = "freed" THEN Faults("loop")
     ELSE /\ Step(w, "proc", "data")
          /\ wfileProc' = wfileProc \cup {sockfd[task[w]]}
          /\ UNCHANGED << Unprocessed, mask, clientData, kernel, fired, stop,
                          connVars, mainVars, wseen, fault, history >>

CreateData(w) ==
  LET fd == sockfd[task[w]] IN
  /\ wpc[w] = "data"
  /\ IF el = "freed" THEN Faults("loop")
     ELSE /\ Step(w, "data", "deq")
          /\ clientData' = [clientData EXCEPT ![fd] = task[w]]
          /\ lateStore' = (lateStore \/ clientData[fd] # task[w])
          /\ UNCHANGED << Unprocessed, mask, kernel, fired, wfileProc, stop,
                          connVars, mainVars, wseen, fault, lost, busyAtStop >>

-----------------------------------------------------------------------------
(* ts_server_start after aeMain.                                           *)

Close ==
  /\ Main("close", "free_loop")
  /\ kernel' = [kernel EXCEPT ![LISTENER] = {}]
  /\ UNCHANGED << poolVars, mask, clientData, fired, wfileProc, stop, connVars,
                  lconn, lseen, el, engine, signals, wseen, fault, history >>

\* aeDeleteEventLoop
FreeLoop ==
  /\ Main("free_loop", "free_engine")
  /\ el' = "freed"
  /\ UNCHANGED << poolVars, loopVars, connVars, lconn, lseen, engine, signals,
                  wseen, fault, history >>

\* ts_engine_free, once its two threads have been joined.
FreeEngine ==
  /\ Main("free_engine", "pool_exit")
  /\ engine' = "freed"
  /\ UNCHANGED << poolVars, loopVars, connVars, lconn, lseen, el, signals,
                  wseen, fault, history >>

\* ts_threadpool_destroy
PoolExit ==
  /\ Main("pool_exit", "pool_join")
  /\ SetExit
  /\ UNCHANGED << loopVars, connVars, lconn, lseen, el, engine, signals, wseen,
                  fault, history >>

PoolBroadcast ==
  /\ lpc = "pool_join"
  /\ Alive # {}
  /\ Broadcast
  /\ UNCHANGED << loopVars, connVars, mainVars, wseen, fault, history >>

PoolJoined ==
  /\ Main("pool_join", "exited")
  /\ Alive = {}
  /\ UNCHANGED << poolVars, loopVars, connVars, lconn, lseen, el, engine,
                  signals, wseen, fault, history >>

-----------------------------------------------------------------------------

Running == fault = "none" /\ lpc # "exited"

MainStep ==
  \/ Boot
  \/ WorkersStarted
  \/ Listen
  \/ EnterMain
  \/ CheckStop
  \/ PollEvents
  \/ DispatchEnd
  \/ \E fd \in AnyFD, m \in {R, W} : DispatchNone(fd, m) \/ OnFreed(fd, m)
  \/ OnAccept
  \/ \E fd \in FD : OnRead(fd) \/ OnWrite(fd) \/ OnUnset(fd)
  \/ BodyEnds
  \/ BodyFails
  \/ BodyRead
  \/ Push
  \/ PushSignal
  \/ DeleteSees
  \/ DeleteCtl
  \/ DeleteStore
  \/ Close
  \/ FreeLoop
  \/ FreeEngine
  \/ PoolExit
  \/ PoolBroadcast
  \/ PoolJoined

Untouched == UNCHANGED << loopVars, connVars, mainVars, wseen, fault, history >>

WorkerStep(w) ==
  \/ WorkerLoop(w) /\ Untouched
  \/ HandleTask(w)
  \/ Process(w)
  \/ CreateCtl(w)
  \/ CreateStore(w)
  \/ CreateProc(w)
  \/ CreateData(w)

ServerNext ==
  /\ Running
  /\ \/ MainStep
     \/ \E w \in Worker : WorkerStep(w) \/ (WakeUp(w) /\ Untouched)
     \/ \E c \in Conn : ClientConnect(c) \/ ClientSend(c)
     \/ SignalStop
     \/ ListenFails
     \/ BodyPart

\* A client that has sent the header sends the rest or closes.
ServerFairness ==
  /\ WF_serverVars(Running /\ MainStep)
  /\ \A w \in Worker : WF_serverVars(Running /\ WorkerStep(w))
  /\ \A c \in Conn : WF_serverVars(Running /\ ClientSend(c))

ServerSpec == ServerInit /\ [][ServerNext]_serverVars
ServerFairSpec == ServerSpec /\ ServerFairness

-----------------------------------------------------------------------------
(* Properties.                                                             *)

\* The event sees every push (threadpool.c:43): the workers do not all sleep on
\* a queue that is not empty, unless the push has yet to signal.  A flag that is
\* set while they all sleep would not help them.
NoLostWakeup ==
  tasks # << >> /\ Asleep = Worker => lpc = "signal"

Queued(c) == \E i \in DOMAIN tasks : tasks[i] = c
Worked(c, places) == \E w \in Worker : task[w] = c /\ wpc[w] \in places
ByLoop(c) == lconn = c /\ lpc \in {"body", "push"}
Watched(c) ==
  /\ kernel[sockfd[c]] # {} /\ clientData[sockfd[c]] = c
  /\ status[c] \in {"WAIT_RECV", "RECEIVING", "SENDING"}

\* Every connection is in somebody's hands until it is freed: watched by epoll
\* for its request or its reply, with the loop, queued, or with a worker; or its
\* task or event has been lost on one of the two known ways, a refused enqueue
\* or an event deleted over the worker's.  A freed one is with nobody, and no
\* two hold one.  A store of clientData that came too late undoes this.
ConnectionAccounted ==
  fault = "none" /\ ~lateStore =>
    \A c \in Conn :
      /\ heap[c] = "live" =>
           \/ Watched(c) \/ ByLoop(c) \/ Queued(c)
           \/ Worked(c, {"run", "process", "ctl"})
           \/ c \in lost
      /\ heap[c] = "freed" =>
           ~Queued(c) /\ (~staleRun => ~Worked(c, {"run", "process", "ctl"}))
      /\ Queued(c) => ~Worked(c, {"run", "process", "ctl", "mask", "proc"})

\* When the loop waits, a descriptor that is closed has no event left: accept
\* may get it again and adds its events to none (ae_epoll.c:76).
ClosedUnmonitored ==
  lpc \in {"check", "poll"} =>
    \A fd \in FreeFDs : mask[fd] = {} /\ kernel[fd] = {}

\* The undefined steps that can be taken, and when: a task run again only after
\* a dequeue returned a size it should not have; a freed connection read only
\* after a late store of clientData; a write handler that was never stored called
\* only while a worker is between its stores of the mask and of wfileProc of that
\* descriptor (ae.c:147-149); the loop or the engine used after shutdown freed it
\* only by requests the pool already had when the loop ended.
FaultsExplained ==
  /\ fault = "task" => staleRun
  /\ fault = "connection" => lateStore
  /\ fault = "handler" =>
       \E w \in Worker : /\ wpc[w] = "proc" /\ sockfd[task[w]] \notin wfileProc
                        /\ W \in fired[sockfd[task[w]]]
  /\ fault \in {"loop", "engine"} => busyAtStop

\* A request that has been sent is answered or its connection closed, whatever
\* the other clients do, unless its task or event is lost or the server stops.
RequestEnds ==
  \A c \in Conn :
    heap[c] = "live" /\ client[c] = "whole" ~>
      \/ heap[c] = "freed"
      \/ c \in lost
      \/ stop \/ ~Running

\* A stop the loop can see, because it is not waiting for events, ends in the
\* pool's threads joined and the process ended, or in a fault.
ShutdownEnds ==
  stop /\ lpc \in {"check", "dispatch", "body", "push", "signal", "delete",
                   "del_ctl", "del_store", "close"} ~> ~Running

=============================================================================
