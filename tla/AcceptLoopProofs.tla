--------------------------- MODULE AcceptLoopProofs ---------------------------
(***************************************************************************)
(* The safety of AcceptLoop for any set of clients, any backlog and any    *)
(* number of transient errors: which process holds which descriptor, and   *)
(* that a connection is forked for at most once.                           *)
(***************************************************************************)
EXTENDS AcceptLoop, TLAPS

\* client_socket holds a connection exactly while one is being handed over.
SocketInHand ==
  /\ pc \in {"loop", "select", "accept", "closing"} => client_socket = None
  /\ pc \in {"fork", "parent"} => client_socket \in Clients

\* A queued client waits once and has no session; the client in hand has left
\* the queue, and has no session before the fork.
QueuedOnce ==
  /\ \A i, j \in 1..Len(queue) : queue[i] = queue[j] => i = j
  /\ \A i \in 1..Len(queue) : forks[queue[i]] = 0 /\ queue[i] # client_socket
  /\ pc = "fork" => forks[client_socket] = 0
  /\ \A c \in Clients : forks[c] <= 1

IInv == TypeOK /\ SocketInHand /\ QueuedOnce /\ DescriptorHygiene /\ PortReleased

-----------------------------------------------------------------------------

\* Processes with different names are different processes.
LEMMA ProcsDiffer ==
  /\ \A c \in Clients : Acceptor # Session(c) /\ Acceptor # Shell(c) /\ Acceptor # Jobs(c)
  /\ \A c, d \in Clients : Session(c) # Shell(d) /\ Session(c) # Jobs(d) /\ Shell(c) # Jobs(d)
  /\ \A c, d \in Clients : Session(c) = Session(d) => c = d
  /\ \A c, d \in Clients : Shell(c) = Shell(d) => c = d
  /\ \A c, d \in Clients : Jobs(c) = Jobs(d) => c = d
  BY DEF Acceptor, Session, Shell, Jobs

\* The processes by name.
LEMMA ProcsMembers ==
  /\ Acceptor \in Procs
  /\ \A c \in Clients : Session(c) \in Procs /\ Shell(c) \in Procs /\ Jobs(c) \in Procs
  BY DEF Procs

\* What taking the head off a queue leaves in it.
LEMMA TailElements ==
  ASSUME NEW S, NEW q \in Seq(S), q # <<>>
  PROVE  /\ Head(q) \in S /\ Head(q) = q[1]
         /\ Tail(q) \in Seq(S) /\ Len(Tail(q)) = Len(q) - 1
         /\ \A i \in 1..Len(Tail(q)) : Tail(q)[i] = q[i+1] /\ i+1 \in 1..Len(q)
  OBVIOUS

\* The initial states satisfy the inductive invariant.
LEMMA InitIInv == Init => IInv
  BY MaxErrorsAssumption
     DEF Init, IInv, TypeOK, Labels, SessionStates, Procs, SocketInHand, QueuedOnce,
         DescriptorHygiene, PortReleased

\* Every step preserves it.
LEMMA NextIInv == IInv /\ [Next]_vars => IInv'
  <1> SUFFICES ASSUME IInv, [Next]_vars
               PROVE  IInv'
    OBVIOUS
  <1> USE NoneAssumption, BacklogAssumption, MaxErrorsAssumption, ProcsDiffer,
         ProcsMembers
      DEF IInv, SocketInHand, DescriptorHygiene, PortReleased, procs
  <1>1. CASE Loop
    <2>1. TypeOK'
      BY <1>1 DEF Loop, TypeOK, Labels, SessionStates
    <2>2. SocketInHand'
      BY <1>1 DEF Loop, TypeOK, Labels
    <2>3. QueuedOnce'
      BY <1>1 DEF Loop, TypeOK, QueuedOnce
    <2>4. DescriptorHygiene'
      BY <1>1 DEF Loop, TypeOK
    <2>5. PortReleased'
      BY <1>1 DEF Loop, TypeOK
    <2> QED
      BY <2>1, <2>2, <2>3, <2>4, <2>5
  <1>2. CASE Select
    <2>0. server_alive' \in BOOLEAN
      BY <1>2, Zenon DEF Select, TypeOK
    <2>1. TypeOK'
      BY <2>0, <1>2 DEF Select, TypeOK, Labels, SessionStates
    <2>2. SocketInHand'
      BY <1>2 DEF Select, TypeOK, Labels
    <2>3. QueuedOnce'
      BY <1>2 DEF Select, TypeOK, QueuedOnce
    <2>4. DescriptorHygiene'
      BY <1>2 DEF Select, TypeOK
    <2>5. PortReleased'
      BY <1>2 DEF Select, TypeOK
    <2> QED
      BY <2>1, <2>2, <2>3, <2>4, <2>5
  <1>3. CASE Accept
    <2>1. CASE /\ client_socket = None /\ queue # <<>>
               /\ client_socket' = Head(queue) /\ queue' = Tail(queue)
               /\ holders' = [holders EXCEPT ![Head(queue)] = @ \cup {Acceptor}]
               /\ pc' = "fork" /\ UNCHANGED errors
      <3>0. /\ Head(queue) \in Clients /\ Head(queue) = queue[1]
            /\ Tail(queue) \in Seq(Clients) /\ Len(Tail(queue)) = Len(queue) - 1
            /\ \A i \in 1..Len(Tail(queue)) :
                 Tail(queue)[i] = queue[i+1] /\ i+1 \in 1..Len(queue)
            /\ 1 \in 1..Len(queue)
        BY <2>1, TailElements DEF TypeOK
      <3>1. TypeOK'
        BY <1>3, <2>1, <3>0 DEF Accept, TypeOK, Labels
      <3>2. QueuedOnce'
        <4>1. \A i \in 1..Len(queue') : queue'[i] = queue[i+1] /\ i+1 \in 1..Len(queue)
          BY <2>1, <3>0
        <4>2. \A i, j \in 1..Len(queue') : queue'[i] = queue'[j] => i = j
          BY <4>1, <3>0, <2>1 DEF QueuedOnce, TypeOK
        <4>3. \A i \in 1..Len(queue') : forks[queue'[i]] = 0 /\ queue'[i] # client_socket'
          BY <4>1, <3>0, <2>1 DEF QueuedOnce, TypeOK
        <4> QED
          BY <4>2, <4>3, <1>3, <2>1, <3>0 DEF Accept, QueuedOnce
      <3>3. (SocketInHand /\ DescriptorHygiene /\ PortReleased)'
        BY <1>3, <2>1, <3>0 DEF Accept, TypeOK
      <3> QED
        BY <3>1, <3>2, <3>3
    <2>2. CASE UNCHANGED <<client_socket, queue, holders>> /\ pc' \in {"loop", "fork"}
      <3>1. pc' = "loop" /\ errors' \in 0..MaxErrors
        BY <1>3, <2>2 DEF Accept, TypeOK
      <3> QED
        BY <1>3, <2>2, <3>1 DEF Accept, TypeOK, QueuedOnce, Labels
    <2> QED
      BY <1>3, <2>1, <2>2 DEF Accept
  <1>4. CASE ForkSession
    <2>1. TypeOK'
      BY <1>4 DEF ForkSession, Inherits, TypeOK, Labels, SessionStates
    <2>2. SocketInHand'
      BY <1>4 DEF ForkSession, Inherits, TypeOK, Labels
    <2>3. QueuedOnce'
      BY <1>4 DEF ForkSession, Inherits, TypeOK, QueuedOnce
    <2>4. DescriptorHygiene'
      BY <1>4 DEF ForkSession, Inherits, TypeOK
    <2>5. PortReleased'
      BY <1>4 DEF ForkSession, Inherits, TypeOK
    <2> QED
      BY <2>1, <2>2, <2>3, <2>4, <2>5
  <1>5. CASE ForkFails
    <2>0. server_alive' \in BOOLEAN
      BY <1>5, Zenon DEF ForkFails, TypeOK
    <2>1. TypeOK'
      BY <2>0, <1>5 DEF ForkFails, Closes, StopListening, TypeOK, Labels, SessionStates
    <2>2. SocketInHand'
      BY <1>5 DEF ForkFails, Closes, StopListening, TypeOK, Labels
    <2>3. QueuedOnce'
      BY <1>5, SMTT(30) DEF ForkFails, Closes, StopListening, TypeOK, QueuedOnce
    <2>4. DescriptorHygiene'
      BY <1>5 DEF ForkFails, Closes, StopListening, TypeOK
    <2>5. PortReleased'
      BY <1>5 DEF ForkFails, Closes, StopListening, TypeOK
    <2> QED
      BY <2>1, <2>2, <2>3, <2>4, <2>5
  <1>6. CASE ParentCloses
    <2>1. TypeOK'
      BY <1>6 DEF ParentCloses, Closes, TypeOK, Labels, SessionStates
    <2>2. SocketInHand'
      BY <1>6 DEF ParentCloses, Closes, TypeOK, Labels
    <2>3. QueuedOnce'
      BY <1>6 DEF ParentCloses, Closes, TypeOK, QueuedOnce
    <2>4. DescriptorHygiene'
      BY <1>6 DEF ParentCloses, Closes, TypeOK
    <2>5. PortReleased'
      BY <1>6 DEF ParentCloses, Closes, TypeOK
    <2> QED
      BY <2>1, <2>2, <2>3, <2>4, <2>5
  <1>7. CASE CloseShop
    <2>1. TypeOK'
      BY <1>7 DEF CloseShop, StopListening, TypeOK, Labels, SessionStates
    <2>2. SocketInHand'
      BY <1>7 DEF CloseShop, StopListening, TypeOK, Labels
    <2>3. QueuedOnce'
      BY <1>7, SMTT(30) DEF CloseShop, StopListening, TypeOK, QueuedOnce
    <2>4. DescriptorHygiene'
      BY <1>7 DEF CloseShop, StopListening, TypeOK
    <2>5. PortReleased'
      BY <1>7 DEF CloseShop, StopListening, TypeOK
    <2> QED
      BY <2>1, <2>2, <2>3, <2>4, <2>5
  <1>8. ASSUME NEW c \in Clients, ChildStarts(c) PROVE IInv'
    <2>1. TypeOK'
      BY <1>8 DEF ChildStarts, StopListening, TypeOK, Labels, SessionStates
    <2>2. SocketInHand'
      BY <1>8 DEF ChildStarts, StopListening, TypeOK, Labels
    <2>3. QueuedOnce'
      BY <1>8, SMTT(30) DEF ChildStarts, StopListening, TypeOK, QueuedOnce
    <2>4. DescriptorHygiene'
      BY <1>8 DEF ChildStarts, StopListening, TypeOK
    <2>5. PortReleased'
      BY <1>8 DEF ChildStarts, StopListening, TypeOK
    <2> QED
      BY <2>1, <2>2, <2>3, <2>4, <2>5
  <1>9. ASSUME NEW c \in Clients, SpawnShell(c) PROVE IInv'
    <2>1. TypeOK'
      BY <1>9 DEF SpawnShell, Inherits, TypeOK, Labels, SessionStates
    <2>2. SocketInHand'
      BY <1>9 DEF SpawnShell, Inherits, TypeOK, Labels
    <2>3. QueuedOnce'
      BY <1>9 DEF SpawnShell, Inherits, TypeOK, QueuedOnce
    <2>4. DescriptorHygiene'
      BY <1>9 DEF SpawnShell, Inherits, TypeOK
    <2>5. PortReleased'
      BY <1>9 DEF SpawnShell, Inherits, TypeOK
    <2> QED
      BY <2>1, <2>2, <2>3, <2>4, <2>5
  <1>10. ASSUME NEW c \in Clients, InstallHandlers(c) PROVE IInv'
    <2>1. TypeOK'
      BY <1>10 DEF InstallHandlers, TypeOK, Labels, SessionStates
    <2>2. SocketInHand'
      BY <1>10 DEF InstallHandlers, TypeOK, Labels
    <2>3. QueuedOnce'
      BY <1>10 DEF InstallHandlers, TypeOK, QueuedOnce
    <2>4. DescriptorHygiene'
      BY <1>10 DEF InstallHandlers, TypeOK
    <2>5. PortReleased'
      BY <1>10 DEF InstallHandlers, TypeOK
    <2> QED
      BY <2>1, <2>2, <2>3, <2>4, <2>5
  <1>11. ASSUME NEW c \in Clients, SessionEnds(c) PROVE IInv'
    <2>1. TypeOK'
      BY <1>11 DEF SessionEnds, Closes, Interrupted, TypeOK, Labels, SessionStates
    <2>2. SocketInHand'
      BY <1>11 DEF SessionEnds, Closes, Interrupted, TypeOK, Labels
    <2>3. QueuedOnce'
      BY <1>11 DEF SessionEnds, Closes, Interrupted, TypeOK, QueuedOnce
    <2>4. DescriptorHygiene'
      BY <1>11 DEF SessionEnds, Closes, Interrupted, TypeOK
    <2>5. PortReleased'
      BY <1>11 DEF SessionEnds, Closes, Interrupted, TypeOK
    <2> QED
      BY <2>1, <2>2, <2>3, <2>4, <2>5
  <1>12. ASSUME NEW c \in Clients, ShellEnds(c) PROVE IInv'
    <2>1. TypeOK'
      BY <1>12 DEF ShellEnds, Closes, StopListening, TypeOK, Labels, SessionStates
    <2>2. SocketInHand'
      BY <1>12 DEF ShellEnds, Closes, StopListening, TypeOK, Labels
    <2>3. QueuedOnce'
      BY <1>12, SMTT(30) DEF ShellEnds, Closes, StopListening, TypeOK, QueuedOnce
    <2>4. DescriptorHygiene'
      BY <1>12 DEF ShellEnds, Closes, StopListening, TypeOK
    <2>5. PortReleased'
      BY <1>12 DEF ShellEnds, Closes, StopListening, TypeOK
    <2> QED
      BY <2>1, <2>2, <2>3, <2>4, <2>5
  <1>13. ASSUME NEW c \in Clients, Connect(c) PROVE IInv'
    <2>1. TypeOK'
      BY <1>13 DEF Connect, Queued, TypeOK, Labels, SessionStates
    <2>2. SocketInHand'
      BY <1>13 DEF Connect, Queued, TypeOK, Labels
    <2>3. QueuedOnce'
      BY <1>13, SMTT(30) DEF Connect, Queued, TypeOK, QueuedOnce
    <2>4. DescriptorHygiene'
      BY <1>13 DEF Connect, Queued, TypeOK
    <2>5. PortReleased'
      BY <1>13 DEF Connect, Queued, TypeOK
    <2> QED
      BY <2>1, <2>2, <2>3, <2>4, <2>5
  <1>14. ASSUME NEW toGroup \in BOOLEAN, Sigint(toGroup) PROVE IInv'
    <2>1. TypeOK'
      BY <1>14 DEF Sigint, Interrupted, TypeOK, Labels, SessionStates
    <2>2. SocketInHand'
      BY <1>14 DEF Sigint, Interrupted, TypeOK, Labels
    <2>3. QueuedOnce'
      BY <1>14 DEF Sigint, Interrupted, TypeOK, QueuedOnce
    <2>4. DescriptorHygiene'
      BY <1>14 DEF Sigint, Interrupted, TypeOK
    <2>5. PortReleased'
      BY <1>14 DEF Sigint, Interrupted, TypeOK
    <2> QED
      BY <2>1, <2>2, <2>3, <2>4, <2>5
  <1>15. ASSUME NEW c \in Clients, StartJobs(c) PROVE IInv'
    <2>1. TypeOK'
      BY <1>15 DEF StartJobs, Inherits, TypeOK, Labels, SessionStates
    <2>2. SocketInHand'
      BY <1>15 DEF StartJobs, Inherits, TypeOK, Labels
    <2>3. QueuedOnce'
      BY <1>15 DEF StartJobs, Inherits, TypeOK, QueuedOnce
    <2>4. DescriptorHygiene'
      BY <1>15 DEF StartJobs, Inherits, TypeOK
    <2>5. PortReleased'
      BY <1>15 DEF StartJobs, Inherits, TypeOK
    <2> QED
      BY <2>1, <2>2, <2>3, <2>4, <2>5
  <1>16. ASSUME NEW c \in Clients, JobsEnd(c) PROVE IInv'
    <2>1. TypeOK'
      BY <1>16 DEF JobsEnd, Closes, StopListening, TypeOK, Labels, SessionStates
    <2>2. SocketInHand'
      BY <1>16 DEF JobsEnd, Closes, StopListening, TypeOK, Labels
    <2>3. QueuedOnce'
      BY <1>16, SMTT(30) DEF JobsEnd, Closes, StopListening, TypeOK, QueuedOnce
    <2>4. DescriptorHygiene'
      BY <1>16 DEF JobsEnd, Closes, StopListening, TypeOK
    <2>5. PortReleased'
      BY <1>16 DEF JobsEnd, Closes, StopListening, TypeOK
    <2> QED
      BY <2>1, <2>2, <2>3, <2>4, <2>5
  <1>17. CASE UNCHANGED vars
    <2>1. TypeOK'
      BY <1>17 DEF vars, TypeOK, Labels, SessionStates
    <2>2. SocketInHand'
      BY <1>17 DEF vars, TypeOK, Labels
    <2>3. QueuedOnce'
      BY <1>17 DEF vars, TypeOK, QueuedOnce
    <2>4. DescriptorHygiene'
      BY <1>17 DEF vars, TypeOK
    <2>5. PortReleased'
      BY <1>17 DEF vars, TypeOK
    <2> QED
      BY <2>1, <2>2, <2>3, <2>4, <2>5
  <1> QED
    BY <1>1, <1>2, <1>3, <1>4, <1>5, <1>6, <1>7, <1>8, <1>9, <1>10, <1>11, <1>12, <1>13, <1>14, <1>15, <1>16, <1>17
       DEF Next, AcceptorStep, SessionStep, Terminated

-----------------------------------------------------------------------------

\* Every reachable state satisfies the inductive invariant.
LEMMA Invariance == Spec => []IInv
  BY InitIInv, NextIInv, PTL DEF Spec

\* Every variable keeps its type, whatever the number of clients and failures.
THEOREM TypeCorrect == Spec => []TypeOK
  BY Invariance, PTL DEF IInv

\* No session, shell or job ever holds the connection of another client, and the
\* acceptor lets go of each at the end of its iteration (admin/main.c:91-92).
THEOREM DescriptorsStayHome == Spec => []DescriptorHygiene
  BY Invariance, PTL DEF IInv

\* A connection taken from the queue is forked for exactly once, for
\* client_socket is reset before the next accept (admin/main.c:68, 92).
THEOREM OneFork == Spec => []OneSessionPerConnection
  <1>1. IInv => OneSessionPerConnection
    BY DEF IInv, QueuedOnce, OneSessionPerConnection, Queued
  <1> QED
    BY <1>1, Invariance, PTL

\* Only the acceptor and children that have not run yet hold the listening
\* socket: the port does not stay taken by sessions or the jobs of their shells.
THEOREM PortIsReleased == Spec => []PortReleased
  BY Invariance, PTL DEF IInv

=============================================================================
