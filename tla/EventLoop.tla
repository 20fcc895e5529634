------------------------------ MODULE EventLoop ------------------------------
(***************************************************************************)
(* The file events of ae.c over epoll (ae_epoll.c), as the server uses     *)
(* them: the thread of aeMain adds, deletes and dispatches events, and     *)
(* other threads add events too.  There is no lock.  aeCreateFileEvent and *)
(* aeDeleteFileEvent read the mask of the descriptor to choose the call of *)
(* epoll_ctl, make the call, then load and store the mask; the last of     *)
(* them is a step for each, since another thread may be between its own.   *)
(*                                                                         *)
(* The kernel forgets the interest in a descriptor that is closed.         *)
(***************************************************************************)
EXTENDS Naturals, Sequences, FiniteSets

CONSTANTS FD,         \* the descriptors accept may return, small numbers
          ClientData, \* what clientData points to
          NoData

ASSUME FDAssumption == FD \subseteq Nat \ {0} /\ IsFiniteSet(FD)

R == "readable"   \* AE_READABLE
W == "writable"   \* AE_WRITABLE
LISTENER == 0     \* the descriptor of ts_server->fd
AnyFD == FD \cup {LISTENER}

VARIABLES
  mask,        \* mask[fd]: events[fd].mask, {} for AE_NONE
  clientData,  \* clientData[fd]: events[fd].clientData
  kernel,      \* kernel[fd]: what epoll watches for, {} when not registered
  fired,       \* fired[fd]: the events of the last poll still to dispatch
  wfileProc,   \* the descriptors whose events[fd].wfileProc has been stored
  stop         \* eventLoop->stop

loopVars == << mask, clientData, kernel, fired, wfileProc, stop >>

EventLoopInit ==
  /\ mask = [fd \in AnyFD |-> {}]
  /\ clientData = [fd \in AnyFD |-> NoData]
  /\ kernel = [fd \in AnyFD |-> {}]
  /\ fired = [fd \in AnyFD |-> {}]
  /\ wfileProc = {}   \* events is malloc'ed
  /\ stop = FALSE

\* aeApiAddEvent chooses EPOLL_CTL_ADD when the mask it saw was empty and
\* EPOLL_CTL_MOD when not: the one fails with EEXIST, the other with ENOENT.
AddSucceeds(fd, seen) == (seen = {}) <=> (kernel[fd] = {})

\* aeApiDelEvent with the mask it saw: EPOLL_CTL_MOD or EPOLL_CTL_DEL; its
\* failure is not looked at.
DelEvent(fd, seen, m) ==
  kernel' = [kernel EXCEPT ![fd] = IF @ = {} THEN {} ELSE seen \ m]

\* aeCreateFileEvent without another thread about.  The handler it stores is the
\* one of m = R, before any event of R.
CreateFileEvent(fd, m, data) ==
  /\ AddSucceeds(fd, mask[fd])
  /\ kernel' = [kernel EXCEPT ![fd] = mask[fd] \cup {m}]
  /\ mask' = [mask EXCEPT ![fd] = @ \cup {m}]
  /\ clientData' = [clientData EXCEPT ![fd] = data]

\* Mutant of DeleteFileEvent: epoll's failure leaves the mask as it is.
DeleteFileEventKeepMask(fd, m) ==
  /\ kernel' = [kernel EXCEPT ![fd] = {}]
  /\ UNCHANGED mask

\* aeDeleteFileEvent after the descriptor was closed, no other thread about.
DeleteFileEvent(fd, m) ==
  /\ mask' = [mask EXCEPT ![fd] = @ \ {m}]
  /\ kernel' = [kernel EXCEPT ![fd] = {}]

\* aeApiPoll: everything watched that is ready.
Poll(ready) ==
  /\ \E fd \in AnyFD : kernel[fd] \cap ready[fd] # {}
  /\ fired' = [fd \in AnyFD |-> kernel[fd] \cap ready[fd]]

\* aeProcessEvents: the handler of m is called if the mask still has it.
Fires(fd, m) == m \in fired[fd] \cap mask[fd]

\* The event of m has been dispatched, or is not wanted any more.
Dispatched(fd, m) == fired' = [fired EXCEPT ![fd] = @ \ {m}]

=============================================================================
