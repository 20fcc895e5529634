----------------------------- MODULE TimeEvents ------------------------------
(***************************************************************************)
(* The time events of ae.c: at each turn of the loop aeProcessEvents waits *)
(* no longer than the nearest timer allows and then processTimeEvents      *)
(* walks the list of timers.  A handler may create timers and delete any,  *)
(* its own included, while the list is walked; a deleted timer stays in    *)
(* the list, with the id AE_DELETED_EVENT_ID, until a later walk meets it. *)
(* The server runs this code at every turn but creates no timer: here the  *)
(* user of ae is any.                                                      *)
(*                                                                         *)
(* Time is counted in ticks, SECOND to the second.  The wall clock may be  *)
(* set back while the loop waits.  The list, linked both ways in the code, *)
(* is a sequence; a walk takes its next timer before the current one is    *)
(* freed, and timers are only created at the head, behind it.              *)
(***************************************************************************)
EXTENDS Integers, Sequences, SequencesExt, FiniteSets

CONSTANTS SECOND,      \* ticks of a second, 1000 in the code
          Delay,       \* what timers are created with, and repeated after
          MaxTimers,   \* bound: timers of a behaviour
          MaxClock     \* bound: the wall clock

ASSUME TimeAssumption == SECOND \in Nat \ {0} /\ Delay \subseteq Nat

DELETED == -1   \* AE_DELETED_EVENT_ID
NOMORE == -1    \* AE_NOMORE; also: no timer created, none deleted
FOREVER == -1   \* no timeout

VARIABLES
  timers,     \* the list, head first: records of at, the timer's address, which
              \* is the id it was created with, id and when
  nextId,     \* timeEventNextId
  lastTime,   \* lastTime, in seconds
  clock,      \* gettimeofday
  tpc,        \* "turn", "wait", "walk"
  timeout,    \* of aeApiPoll: ticks left, or FOREVER
  te,         \* place in the list of the timer to look at
  maxId,      \* the newest timer when the walk began
  setBack,    \* history: how often the clock was set back
  expected,   \* history: timers the walk was to call when it began
  called,     \* history: whose handlers this walk has called, in order
  killed,     \* history: timers deleted, or that have asked for no more
  finalized   \* history: timers freed

timeVars == << timers, nextId, lastTime, clock, tpc, timeout, te, maxId,
               setBack, expected, called, killed, finalized >>

Seconds(t) == t \div SECOND

TimeInit ==
  /\ timers = << >>
  /\ nextId = 0
  /\ clock = SECOND
  /\ lastTime = Seconds(clock)
  /\ tpc = "turn"
  /\ timeout = FOREVER
  /\ te = 1
  /\ maxId = -1
  /\ setBack = 0
  /\ expected = {} /\ called = << >> /\ killed = {} /\ finalized = {}

Ids(list) == {list[k].id : k \in DOMAIN list} \ {DELETED}

\* aeAddMillisecondsToNow
Later(delay) == clock + delay

\* aeCreateTimeEvent: at the head.
Created(list, delay) == << [at |-> nextId, id |-> nextId, when |-> Later(delay)] >> \o list

\* aeDeleteTimeEvent: the timer of this id, if there is one, is marked.
Marked(list, id) ==
  [k \in DOMAIN list |-> IF list[k].id = id THEN [list[k] EXCEPT !.id = DELETED]
                         ELSE list[k]]

-----------------------------------------------------------------------------
(* Outside the walk: a handler of a file event creates or deletes timers.  *)

CreateTimer(delay) ==
  /\ tpc = "turn" /\ nextId < MaxTimers
  /\ timers' = Created(timers, delay)
  /\ nextId' = nextId + 1
  /\ UNCHANGED << lastTime, clock, tpc, timeout, te, maxId, setBack, expected,
                  called, killed, finalized >>

DeleteTimer(id) ==
  /\ tpc = "turn" /\ id \in Ids(timers)
  /\ timers' = Marked(timers, id)
  /\ killed' = killed \cup {id}
  /\ UNCHANGED << nextId, lastTime, clock, tpc, timeout, te, maxId, setBack, expected,
                  called, finalized >>

-----------------------------------------------------------------------------
(* aeProcessEvents: the wait.                                              *)

\* aeSearchNearestTimer: the first of those that are nearest, deleted or not.
Nearest ==
  CHOOSE k \in DOMAIN timers :
    /\ \A j \in DOMAIN timers : timers[k].when <= timers[j].when
    /\ \A j \in 1..k - 1 : timers[k].when < timers[j].when

BeginWait ==
  /\ tpc = "turn"
  /\ tpc' = "wait"
  /\ timeout' = IF timers = << >> THEN FOREVER
                ELSE LET ms == timers[Nearest].when - clock
                     IN  IF ms > 0 THEN ms ELSE 0
  /\ UNCHANGED << timers, nextId, lastTime, clock, te, maxId, setBack, expected,
                  called, killed, finalized >>

\* A tick goes by.
Elapse ==
  /\ \/ tpc = "wait" /\ timeout # 0
     \/ tpc = "walk"
  /\ clock < MaxClock
  /\ clock' = clock + 1
  /\ timeout' = IF tpc = "walk" \/ timeout = FOREVER THEN timeout ELSE timeout - 1
  /\ UNCHANGED << timers, nextId, lastTime, tpc, te, maxId, setBack, expected,
                  called, killed, finalized >>

\* Not as far as the first second of all.
SetClockBack ==
  /\ tpc = "wait" /\ setBack = 0
  /\ \E t \in SECOND..clock - 1 : clock' = t
  /\ setBack' = 1
  /\ UNCHANGED << timers, nextId, lastTime, tpc, timeout, te, maxId, expected,
                  called, killed, finalized >>

-----------------------------------------------------------------------------
(* processTimeEvents.                                                      *)

IsDue(timer, now) == timer.id # DELETED /\ now >= timer.when

\* When the clock has gone back every timer is made due: when_sec = 0.
Forced(list) ==
  [k \in DOMAIN list |-> [list[k] EXCEPT !.when = @ % SECOND]]

\* The wait ends, at its timeout or with a file event, and the walk begins.
BeginWalk ==
  /\ tpc = "wait"
  /\ tpc' = "walk"
  /\ timers' = IF Seconds(clock) < lastTime THEN Forced(timers) ELSE timers
  /\ lastTime' = Seconds(clock)
  /\ te' = 1
  /\ maxId' = nextId - 1
  /\ expected' = {timers[k].id : k \in {j \in DOMAIN timers :
                    /\ timers[j].id # DELETED
                    /\ Seconds(clock) < lastTime \/ IsDue(timers[j], clock)}}
  /\ called' = << >>
  /\ UNCHANGED << nextId, clock, timeout, setBack, killed, finalized >>

AtTimer == tpc = "walk" /\ te <= Len(timers)
Callable == timers[te].id \in 0..maxId /\ IsDue(timers[te], clock)

\* The timer is freed, its finalizer called.
Unlink ==
  /\ AtTimer
  /\ timers[te].id = DELETED
  /\ timers' = RemoveAt(timers, te)
  /\ finalized' = finalized \cup {timers[te].at}
  /\ UNCHANGED << nextId, lastTime, clock, tpc, timeout, te, maxId, setBack,
                  expected, called, killed >>

PassOver ==
  /\ AtTimer
  /\ timers[te].id # DELETED
  /\ ~Callable
  /\ te' = te + 1
  /\ UNCHANGED << timers, nextId, lastTime, clock, tpc, timeout, maxId, setBack,
                  expected, called, killed, finalized >>

\* What a handler does to the list: it deletes a timer, creates one, or neither.
HandlerDone(list, delay, id) ==
  IF delay = NOMORE THEN Marked(list, id) ELSE Created(Marked(list, id), delay)

\* Mutant of AfterCall: a timer that asks for no more keeps its id.
AfterCallKeepId(timer, retval) ==
  IF retval = NOMORE THEN timer ELSE [timer EXCEPT !.when = Later(retval)]

AfterCall(timer, retval) ==
  IF retval = NOMORE THEN [timer EXCEPT !.id = DELETED]
  ELSE [timer EXCEPT !.when = Later(retval)]

\* A timer is due: its handler may create a timer and delete one, and returns
\* when to be called again, if at all.
Call ==
  /\ AtTimer
  /\ Callable
  /\ \E retval \in Delay \cup {NOMORE},
        delay \in (IF nextId < MaxTimers THEN Delay ELSE {}) \cup {NOMORE},
        id \in Ids(timers) \cup {NOMORE} :
       LET list == HandlerDone(timers, delay, id)
           here == IF delay = NOMORE THEN te ELSE te + 1
       IN  /\ timers' = [list EXCEPT ![here] = AfterCall(@, retval)]
           /\ te' = here + 1
           /\ nextId' = IF delay = NOMORE THEN nextId ELSE nextId + 1
           /\ killed' = killed \cup ({id} \ {NOMORE}) \cup
                          (IF retval = NOMORE THEN {timers[te].at} ELSE {})
  /\ called' = Append(called, timers[te].at)
  /\ UNCHANGED << lastTime, clock, tpc, timeout, maxId, setBack, expected,
                  finalized >>

\* The walk is over, and with it what is local to it.
EndWalk ==
  /\ tpc = "walk" /\ te > Len(timers)
  /\ tpc' = "turn"
  /\ te' = 1 /\ maxId' = -1 /\ timeout' = FOREVER
  /\ expected' = {} /\ called' = << >>
  /\ UNCHANGED << timers, nextId, lastTime, clock, setBack, killed, finalized >>

TimeNext ==
  \/ \E delay \in Delay : CreateTimer(delay)
  \/ \E id \in Ids(timers) : DeleteTimer(id)
  \/ BeginWait
  \/ Elapse
  \/ SetClockBack
  \/ BeginWalk
  \/ Unlink
  \/ PassOver
  \/ Call
  \/ EndWalk

TimeSpec == TimeInit /\ [][TimeNext]_timeVars

-----------------------------------------------------------------------------

\* A walk calls every timer that was due when it began, or every timer if the
\* clock had been set back by then (ae.c:282), unless it is deleted before its
\* turn; it calls none twice and none that was created meanwhile.  A timer
\* deleted, or done, is never called again, and is freed once a walk has met it;
\* no other is.  And no wait goes past a timer that is not deleted.
TimersExact ==
  /\ tpc = "walk" /\ te > Len(timers) => expected \subseteq ToSet(called) \cup killed
  /\ IsInjective(called) /\ \A k \in DOMAIN called : called[k] <= maxId
  /\ \A k \in DOMAIN timers : timers[k].id = DELETED <=> timers[k].at \in killed
  /\ {timers[k].at : k \in DOMAIN timers} = 0..nextId - 1 \ finalized
  /\ finalized \subseteq killed
  /\ tpc = "wait" => \A k \in DOMAIN timers :
       \/ timers[k].id = DELETED
       \/ timeout = 0
       \/ timeout # FOREVER /\ clock + timeout <= timers[k].when

=============================================================================
