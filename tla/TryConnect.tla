------------------------------ MODULE TryConnect ------------------------------
(***************************************************************************)
(* tryConnect (src/client/main.c): up to MAXNUMBEROFTRIES calls of connect *)
(* on one non-blocking socket, with the kernel's side of the connection as *)
(* the environment.  errno keeps its last value until a call fails.        *)
(***************************************************************************)
EXTENDS Integers

CONSTANT MaxTries      \* MAXNUMBEROFTRIES

ASSUME MaxTriesAssumption == MaxTries \in Nat \ {0}

VARIABLES
  pc,           \* "loop", "connect", "test", "select", "leave" or "claimed"
  success,      \* what connect returned last
  numOfTries,   \* tries left
  errno,        \* "again" (EINPROGRESS, EAGAIN) or "other"
  conn,         \* the kernel's connection
  all_alive     \* cleared by cleanup()

vars == <<pc, success, numOfTries, errno, conn, all_alive>>

\* "none": no connection; "syn": being set up; "up": set up, connect has not
\* said so; "told": connect has returned 0; "failed": refused or timed out.
ConnStates == {"none", "syn", "up", "told", "failed"}

TypeOK ==
  /\ pc \in {"loop", "connect", "test", "select", "leave", "claimed"}
  /\ success \in {-1, 0} /\ numOfTries \in 0..MaxTries
  /\ errno \in {"again", "other"} /\ conn \in ConnStates
  /\ all_alive \in BOOLEAN

Init ==
  /\ pc = "loop" /\ success = -1 /\ numOfTries = MaxTries
  /\ errno = "other" /\ conn = "none" /\ all_alive = TRUE

\* Mutant: the tries are not tested.
LoopUntilSuccess ==
  /\ pc = "loop"
  /\ pc' = IF success = -1 THEN "connect" ELSE "leave"
  /\ UNCHANGED <<success, numOfTries, errno, conn, all_alive>>

Loop ==
  /\ pc = "loop"
  /\ pc' = IF success = -1 /\ numOfTries > 0 THEN "connect" ELSE "leave"
  /\ UNCHANGED <<success, numOfTries, errno, conn, all_alive>>

\* connect on a non-blocking socket, by the state the connection is in.  Once
\* it has returned 0 it is not called again.
Connect ==
  /\ pc = "connect" /\ pc' = "test"
  /\ \/ conn = "none" /\ conn' = "syn"   /\ success' = -1 /\ errno' = "again"
     \/ conn = "none" /\ conn' = "none"  /\ success' = -1 /\ errno' = "other"  \* unreachable
     \/ conn = "syn"  /\ conn' = "syn"   /\ success' = -1 /\ errno' = "other"  \* EALREADY
     \/ conn = "up"   /\ conn' = "told"  /\ success' = 0  /\ errno' = errno
     \/ conn = "failed" /\ conn' = "none" /\ success' = -1 /\ errno' = "other"
  /\ UNCHANGED <<numOfTries, all_alive>>

\* Mutant: the tries are not counted.
TestErrnoUncounted ==
  /\ pc = "test"
  /\ pc' = IF errno = "again" THEN "loop" ELSE "select"
  /\ UNCHANGED <<success, numOfTries, errno, conn, all_alive>>

\* getsockopt(SO_ERROR), numOfTries--, and the test of errno, stale or not.
TestErrno ==
  /\ pc = "test"
  /\ numOfTries' = numOfTries - 1
  /\ pc' = IF errno = "again" THEN "loop" ELSE "select"
  /\ UNCHANGED <<success, errno, conn, all_alive>>

\* Mutant: a writable socket is taken for a connected one.
SelectTrustsWritable ==
  /\ pc = "select"
  /\ pc' = IF conn # "syn" THEN "leave" ELSE "loop"
  /\ UNCHANGED <<success, numOfTries, errno, conn, all_alive>>

\* select for writing: an unfinished handshake times out or is interrupted.
\* Anything else is writable, and the loop breaks if connect has succeeded.
Select ==
  /\ pc = "select"
  /\ pc' = IF conn # "syn" /\ success = 0 THEN "leave" ELSE "loop"
  /\ UNCHANGED <<success, numOfTries, errno, conn, all_alive>>

\* *socket < 0: never, as initClient exits when socket() fails.
NoSocket == FALSE

\* Failure is tried for, and then the success is reported all the same.
Leave ==
  /\ pc = "leave" /\ pc' = "claimed"
  /\ all_alive' = (all_alive /\ ~(numOfTries = 0 /\ NoSocket))
  /\ UNCHANGED <<success, numOfTries, errno, conn>>

\* The network finishes the handshake, one way or the other.
Network ==
  /\ conn = "syn" /\ conn' \in {"up", "failed"}
  /\ UNCHANGED <<pc, success, numOfTries, errno, all_alive>>

Terminated == pc = "claimed" /\ UNCHANGED vars

Step == Loop \/ Connect \/ TestErrno \/ Select \/ Leave
Next == Step \/ Network \/ Terminated

Spec == Init /\ [][Next]_vars

\* Nothing in the loop blocks for longer than select's three seconds.
FairSpec == Spec /\ WF_vars(Step)

-----------------------------------------------------------------------------
(* Properties. *)

\* The loop is left before its tries are used up only with a connection: no
\* errno left over from an earlier call ends it early.
EarlyExitIsConnected ==
  pc \in {"leave", "claimed"} /\ numOfTries > 0 => conn = "told"

\* tryConnect returns, however the network behaves.
Returns == <>(pc = "claimed")

\* "Sucessfully connected!!!" (main.c:146) is printed of a connection.
ClaimIsTrue == pc = "claimed" => conn \in {"up", "told"}

=============================================================================
