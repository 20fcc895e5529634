------------------------------ MODULE MCServer -------------------------------
(***************************************************************************)
(* Two workers, a queue of one task and two clients: the first one may do  *)
(* anything a client may, the second sends a whole request when it likes.  *)
(* A signal comes once the loop has begun, outside the handlers of events: *)
(* the loop forgets an earlier one and looks at stop only after them.      *)
(***************************************************************************)
EXTENDS Server

MCNext ==
  /\ ServerNext
  /\ \A c \in Conn \ {1} : client'[c] \in {"none", "whole"}
  /\ signals' # signals =>
       lpc \in {"check", "poll", "close", "free_loop", "free_engine",
                "pool_exit", "pool_join"}

MCSpec == ServerInit /\ [][MCNext]_serverVars /\ ServerFairness

=============================================================================
