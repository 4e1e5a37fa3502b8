--------------------------- MODULE SessionContract ---------------------------
(***************************************************************************)
(* What one end of a remote-shell connection promises about its life,      *)
(* with the flags, condition variables and joins that keep the promise     *)
(* left out.  A session is up, is told to stop once and for all, releases  *)
(* its descriptors, and ends.  Its workers move data in rounds of I/O: a   *)
(* round starts only while the session is up, and goes on after the stop   *)
(* until the worker's call returns.                                        *)
(*                                                                         *)
(* An orderly session releases nothing before its workers are done: the    *)
(* client is one, the server is not (README, "The contract").              *)
(***************************************************************************)
CONSTANTS
  Workers,   \* the threads that move data
  Orderly    \* is the release held back until no round is under way?

VARIABLES
  phase,     \* "up", "stopping", "releasing" or "ended"
  busy       \* the workers that are in a round of I/O

vars == <<phase, busy>>

Init == phase = "up" /\ busy = {}

StartRound(t) ==
  /\ phase = "up"
  /\ busy' = busy \cup {t}
  /\ UNCHANGED phase

EndRound(t) ==
  /\ phase # "ended"
  /\ busy' = busy \ {t}
  /\ UNCHANGED phase

Stop ==
  /\ phase = "up" /\ phase' = "stopping"
  /\ UNCHANGED busy

Release ==
  /\ phase = "stopping" /\ phase' = "releasing"
  /\ Orderly => busy = {}
  /\ UNCHANGED busy

\* The end of the process, which any failure may bring at any time.
End == phase' = "ended" /\ busy' = {}

Next == \/ \E t \in Workers : StartRound(t) \/ EndRound(t)
        \/ Stop \/ Release \/ End

Spec == Init /\ [][Next]_vars

=============================================================================
