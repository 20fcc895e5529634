------------------------------ MODULE ServerInv -------------------------------
(***************************************************************************)
(* The inductive invariant about connections behind the theorems of        *)
(* ServerProofs.  It says, for every place a connection can be at, which   *)
(* events the kernel and the event loop hold for its descriptor, through   *)
(* the two hand-overs: the loop to a worker, and the worker back.          *)
(* HandlersOK, above it, is about the write handlers the loop calls.       *)
(***************************************************************************)
EXTENDS Server

\* Where a worker looks into the queue again before it sleeps, or never does.
Awake == {"woken", "deq", "empty", "run", "process", "ctl", "mask", "proc",
          "data", "gone"}

WorkerPlaces == Awake \cup {"start", "loop", "wait", "asleep"}

\* Where the main thread deletes the read event of the connection it pushed.
PartingPlaces == {"signal", "delete", "del_ctl", "del_store"}
LoopPlaces    == {"body", "push"} \cup PartingPlaces
EndPlaces     == {"close", "free_loop", "free_engine", "pool_exit", "pool_join"}
MainPlaces    == {"boot", "workers", "listen", "main", "check", "poll",
                  "dispatch", "exited"} \cup LoopPlaces \cup EndPlaces

Events == SUBSET {R, W}

ServerTypeOK ==
  /\ tasks \in Seq(Conn)
  /\ wpc \in [Worker -> WorkerPlaces]
  /\ task \in [Worker -> Conn \cup {NoTask}]
  /\ mask \in [AnyFD -> Events]
  /\ kernel \in [AnyFD -> Events]
  /\ fired \in [AnyFD -> Events]
  /\ clientData \in [AnyFD -> Conn \cup {NoData}]
  /\ heap \in [Conn -> {"none", "live", "freed"}]
  /\ sockfd \in [Conn -> AnyFD]
  /\ status \in [Conn -> {"WAIT_RECV", "RECEIVING", "RECVED", "SENDING"}]
  /\ lpc \in MainPlaces
  /\ lpc \in LoopPlaces => lconn \in Conn
  /\ lseen \in Events
  /\ wseen \in [Worker -> Events]
  /\ staleRun \in BOOLEAN
  /\ lateStore \in BOOLEAN

\* A connection is queued once and taken by one worker.
TakenOnce ==
  /\ \A i, j \in 1..Len(tasks) : tasks[i] = tasks[j] => i = j
  /\ \A v, w \in Worker : task[v] = task[w] /\ task[v] # NoTask => v = w
  /\ \A c \in Conn, w \in Worker : Queued(c) => task[w] # c

Untaken(c) == ~Queued(c) /\ \A w \in Worker : task[w] # c

Pushing(c) == lconn = c /\ lpc = "push"
Parting(c) == lconn = c /\ lpc \in PartingPlaces
Storing(c) == lconn = c /\ lpc = "del_store"

\* Before it is accepted.
NoneOK(c) ==
  /\ status[c] = "WAIT_RECV"
  /\ Untaken(c)
  /\ c \notin lost
  /\ lconn = c => lpc \notin LoopPlaces

\* The events of an open descriptor: kernel, mask.
Has(c, k, m) == kernel[sockfd[c]] = k /\ mask[sockfd[c]] = m

\* What aeDeleteFileEvent has read of the mask.
Seen(c, places) == lconn = c /\ lpc \in places => lseen = {R}

\* Its request has not come, or has not been handed over.
UnreadOK(c) ==
  /\ Has(c, {R}, {R})
  /\ Untaken(c)
  /\ c \notin lost
  /\ ~Parting(c)

\* Its request is with the pool, or was refused by the queue.
RecvedOK(c) ==
  /\ Has(c, IF Parting(c) /\ ~Storing(c) THEN {R} ELSE {},
            IF Parting(c) THEN {R} ELSE {})
  /\ Seen(c, {"del_ctl", "del_store"})
  /\ \/ c \in lost /\ Untaken(c)
     \/ c \notin lost /\ (Queued(c) \/ Worked(c, {"run", "process"}))
  /\ \A w \in Worker : task[w] = c => wpc[w] \in {"run", "process"}
  /\ lconn = c => lpc # "body"

\* Its worker is about to call epoll_ctl.
CtlOK(c, w) ==
  /\ Has(c, IF Parting(c) /\ ~Storing(c) THEN {R} ELSE {},
            IF Parting(c) THEN {R} ELSE {})
  /\ Seen(c, {"del_ctl", "del_store"})
  /\ wseen[w] = IF Parting(c) THEN {R} ELSE wseen[w] \ {W}
  /\ c \notin lost

\* It is about to store the mask.
MaskOK(c, w) ==
  IF Parting(c)
  THEN /\ Has(c, IF Storing(c) THEN {} ELSE {R, W}, {R})
       /\ wseen[w] = {R}
       /\ Seen(c, {"del_ctl", "del_store"})
       /\ c \in lost <=> Storing(c)
  ELSE \/ Has(c, {W}, {}) /\ wseen[w] = {} /\ c \notin lost
       \/ Has(c, {}, {}) /\ c \in lost

\* The write event is there, or lost.
DoneOK(c) ==
  IF Parting(c) /\ ~Storing(c)
  THEN /\ Has(c, {R, W}, {R, W})
       /\ lpc = "del_ctl" => lseen \in {{R}, {R, W}}
       /\ c \notin lost
  ELSE IF c \in lost THEN kernel[sockfd[c]] = {}
  ELSE IF Storing(c) THEN Has(c, {W}, {R, W}) /\ lseen = {R, W}
  ELSE Has(c, {W}, {W})

SendingOK(c) ==
  /\ lconn = c => lpc \notin {"body", "push"}
  /\ ~Queued(c)
  /\ \A w \in Worker : task[w] = c =>
       /\ wpc[w] # "process"
       /\ wpc[w] = "run" => staleRun
       /\ wpc[w] = "ctl" => CtlOK(c, w)
       /\ wpc[w] = "mask" => MaskOK(c, w)
  /\ ~Worked(c, {"ctl", "mask"}) => DoneOK(c)

LiveOK(c) ==
  /\ sockfd[c] \in FD
  /\ lconn = c /\ lpc = "body" => status[c] = "RECEIVING"
  /\ Pushing(c) => status[c] = "RECVED"
  /\ status[c] \in {"WAIT_RECV", "RECEIVING"} \/ Pushing(c) => UnreadOK(c)
  /\ status[c] = "RECVED" /\ ~Pushing(c) => RecvedOK(c)
  /\ status[c] = "SENDING" => SendingOK(c)

\* Closed: the loop may be deleting its read event, its worker storing it as
\* client data.
FreedOK(c) ==
  /\ ~Queued(c)
  /\ \A w \in Worker : task[w] = c =>
       /\ wpc[w] \notin {"process", "ctl", "mask"}
       /\ wpc[w] = "run" => staleRun
  /\ lconn = c => lpc \notin {"body", "push"}
  /\ Parting(c) => /\ sockfd[c] \in FreeFDs
                   /\ Has(c, {}, {R})
                   /\ Seen(c, {"del_ctl", "del_store"})

ConnOK(c) ==
  /\ heap[c] = "none" => NoneOK(c)
  /\ heap[c] = "live" => LiveOK(c)
  /\ heap[c] = "freed" => FreedOK(c)

ConnsOK == \A c \in Conn : ConnOK(c)

\* Open descriptors are of one connection each, which is their client data
\* unless a freed one has been stored late.
Owners ==
  /\ \A c, d \in Live : sockfd[c] = sockfd[d] => c = d
  /\ \A c \in Live :
       \/ clientData[sockfd[c]] = c
       \/ /\ lateStore /\ clientData[sockfd[c]] \in Conn
          /\ heap[clientData[sockfd[c]]] = "freed"

\* A closed descriptor has no events, but for the read event being deleted.
ClosedOK ==
  \A fd \in FreeFDs :
    /\ kernel[fd] = {}
    /\ mask[fd] # {} => \E c \in Conn : heap[c] = "freed" /\ Parting(c)
                                        /\ sockfd[c] = fd

\* A write event to dispatch is of a reply that waits to be sent.
FiredOK ==
  \A fd \in AnyFD : W \in fired[fd] =>
    \E c \in Live : /\ sockfd[c] = fd /\ status[c] = "SENDING" /\ ~Parting(c)
                    /\ kernel[fd] = {W} /\ c \notin lost

\* A worker's places, and the task it has there.
WorkersOK ==
  \A w \in Worker :
    /\ wpc[w] \in {"process", "ctl", "mask", "proc", "data"} => task[w] \in Conn
    /\ wpc[w] = "run" /\ ~staleRun => task[w] \in Live

\* What is left of the server when it ends.
EndOK ==
  /\ el = "freed" => lpc \in {"free_engine", "pool_exit", "pool_join", "exited"}
  /\ engine = "freed" => lpc \in {"pool_exit", "pool_join", "exited"}
  /\ lpc \in EndPlaces /\ ~busyAtStop => ~Busy

\* The faults that the connections and the end of the server explain.
FaultsOK ==
  /\ fault = "task" => staleRun
  /\ fault = "connection" => lateStore
  /\ fault \in {"loop", "engine"} => busyAtStop

ServerInv ==
  /\ ServerTypeOK
  /\ TakenOnce
  /\ ConnsOK
  /\ Owners
  /\ ClosedOK
  /\ FiredOK
  /\ WorkersOK
  /\ EndOK
  /\ FaultsOK

\* A descriptor's write handler has been stored, or a worker is about to.
Handled(fd) ==
  \/ fd \in wfileProc
  \/ \E w \in Worker : wpc[w] = "proc" /\ task[w] \in Conn
                        /\ sockfd[task[w]] = fd

\* The loop calls the handler of no other: a write event is in the mask, or in
\* what aeDeleteFileEvent has read of it, only of a descriptor that is handled.
HandlersOK ==
  /\ \A fd \in AnyFD : W \in mask[fd] => Handled(fd)
  /\ lpc \in {"del_ctl", "del_store"} /\ W \in lseen => Handled(sockfd[lconn])
  /\ FaultsExplained

=============================================================================
