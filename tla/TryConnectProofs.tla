--------------------------- MODULE TryConnectProofs ---------------------------
(***************************************************************************)
(* The safety of tryConnect for any number of tries and any network.       *)
(***************************************************************************)
EXTENDS TryConnect, TLAPS

\* connect is called with a try to spend, and a 0 it returned is remembered with
\* the connection it was about.
IInv ==
  /\ TypeOK /\ EarlyExitIsConnected
  /\ pc \in {"connect", "test"} => numOfTries > 0
  /\ success = 0 => conn = "told"
  /\ pc = "connect" => success = -1

\* Every reachable state satisfies the inductive invariant.
LEMMA Invariance == Spec => []IInv
  <1> USE MaxTriesAssumption DEF IInv, TypeOK, ConnStates, EarlyExitIsConnected
  <1>1. Init => IInv
    BY DEF Init
  <1>2. IInv /\ [Next]_vars => IInv'
    <2> SUFFICES ASSUME IInv, [Next]_vars
                 PROVE  IInv'
      OBVIOUS
    <2>1. CASE Loop
      BY <2>1 DEF Loop
    <2>2. CASE Connect
      BY <2>2 DEF Connect
    <2>3. CASE TestErrno
      BY <2>3 DEF TestErrno
    <2>4. CASE Select
      BY <2>4 DEF Select
    <2>5. CASE Leave
      <3>1. all_alive' \in BOOLEAN
        BY <2>5, Zenon DEF Leave
      <3> QED
        BY <2>5, <3>1 DEF Leave
    <2>6. CASE Network
      BY <2>6 DEF Network
    <2>7. CASE UNCHANGED vars
      BY <2>7 DEF vars
    <2> QED
      BY <2>1, <2>2, <2>3, <2>4, <2>5, <2>6, <2>7 DEF Next, Step, Terminated
  <1> QED
    BY <1>1, <1>2, PTL DEF Spec

\* The tries are spent one per call, and never overspent.
THEOREM TypeCorrect == Spec => []TypeOK
  BY Invariance, PTL DEF IInv

\* However stale errno is, the loop is left early only with a connection that
\* connect itself has confirmed (client/main.c:113-141).
THEOREM EarlyExit == Spec => []EarlyExitIsConnected
  BY Invariance, PTL DEF IInv

=============================================================================
