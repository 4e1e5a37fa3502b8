------------------------------ MODULE AcceptLoop ------------------------------
(***************************************************************************)
(* The server's accept loop and the processes it forks                     *)
(* (accept_connections, src/admin/main.c).  A session is reduced to what   *)
(* the other processes can see of it: the descriptors it holds, its shell  *)
(* and the jobs of that shell, the moment it installs its own signal       *)
(* handler, and its end; its threads are in ServerSession.                 *)
(*                                                                         *)
(* fork copies every descriptor, and a descriptor is closed for the peer   *)
(* only when every process that holds a copy has closed it.  holders[c] is *)
(* the set of processes with a copy of client c's connected socket,        *)
(* listeners the set with a copy of the listening socket.                  *)
(***************************************************************************)
EXTENDS Naturals, Sequences

CONSTANTS
  Clients,     \* the clients that may connect, each once
  Backlog,     \* 2*MAXCLIENTS, the length given to listen
  MaxErrors,   \* bound: how often accept or select fails for no lasting reason
  None         \* client_socket = -1

ASSUME NoneAssumption      == None \notin Clients
ASSUME BacklogAssumption   == Backlog \in Nat \ {0}
ASSUME MaxErrorsAssumption == MaxErrors \in Nat

VARIABLES
  server_alive,   \* the acceptor's flag
  pc,             \* where the acceptor is
  client_socket,  \* the acceptor's global: a client, or None
  queue,          \* the kernel's queue of the listening socket
  session,        \* session[c]: the process forked for c
  shell,          \* shell[c]: the shell that process forked
  jobs,           \* the clients whose shell has jobs, which may outlive it
  forks,          \* forks[c]: how many sessions were forked for c
  holders,        \* holders[c]: the processes holding c's connected socket
  listeners,      \* the processes holding the listening socket
  errors          \* transient errors so far

vars == <<server_alive, pc, client_socket, queue, session, shell, jobs, forks,
          holders, listeners, errors>>
procs == <<session, shell, jobs, forks>>

Acceptor   == <<"acceptor">>
Session(c) == <<"session", c>>
Shell(c)   == <<"shell", c>>
Jobs(c)    == <<"jobs", c>>
Procs == {Acceptor} \cup UNION {{Session(c), Shell(c), Jobs(c)} : c \in Clients}

Labels == {"loop", "select", "accept", "fork", "parent", "closing", "closed"}
SessionStates == {"none", "forked", "starting", "spawned", "serving", "stopping", "ended"}

TypeOK ==
  /\ server_alive \in BOOLEAN
  /\ pc \in Labels
  /\ client_socket \in Clients \cup {None}
  /\ queue \in Seq(Clients)
  /\ session \in [Clients -> SessionStates]
  /\ shell \in [Clients -> {"none", "running", "ended"}]
  /\ jobs \subseteq Clients
  /\ forks \in [Clients -> Nat]
  /\ holders \in [Clients -> SUBSET Procs]
  /\ listeners \subseteq Procs
  /\ errors \in 0..MaxErrors

Init ==
  /\ server_alive = TRUE /\ pc = "loop" /\ client_socket = None
  /\ queue = <<>>
  /\ session = [c \in Clients |-> "none"]
  /\ shell = [c \in Clients |-> "none"]
  /\ jobs = {}
  /\ forks = [c \in Clients |-> 0]
  /\ holders = [c \in Clients |-> {}]
  /\ listeners = {Acceptor}
  /\ errors = 0

Queued(c) == \E i \in 1..Len(queue) : queue[i] = c

\* fork: process q gets a copy of every descriptor that p holds.
Inherits(q, p) ==
  /\ holders' = [d \in Clients |-> IF p \in holders[d] THEN holders[d] \cup {q}
                                   ELSE holders[d]]
  /\ listeners' = IF p \in listeners THEN listeners \cup {q} ELSE listeners

\* Process p closes its copy of the listening socket; the last one to do so
\* takes the queue with it.
StopListening(p) ==
  /\ listeners' = listeners \ {p}
  /\ queue' = IF listeners \subseteq {p} THEN <<>> ELSE queue

\* Process p closes its copy of every connected socket in C.
Closes(p, C) == [c \in Clients |-> IF c \in C THEN holders[c] \ {p} ELSE holders[c]]

-----------------------------------------------------------------------------
(* The acceptor. *)

\* Mutant: the loop is for ever.
LoopForEver ==
  /\ pc = "loop" /\ pc' = "select"
  /\ UNCHANGED <<server_alive, client_socket, queue, procs, holders, listeners, errors>>

Loop ==
  /\ pc = "loop"
  /\ pc' = IF server_alive THEN "select" ELSE "closing"
  /\ UNCHANGED <<server_alive, client_socket, queue, procs, holders, listeners, errors>>

\* Mutant: a queue of one is taken for an empty one.
SelectOffByOne ==
  /\ pc = "select"
  /\ pc' = IF Len(queue) > 1 THEN "accept" ELSE "loop"
  /\ UNCHANGED <<server_alive, client_socket, queue, procs, holders, listeners, errors>>

\* Readable; three seconds without a client; or an error other than EINTR,
\* which raises SIGINT on the acceptor itself.
Select ==
  /\ pc = "select"
  /\ \/ queue # <<>> /\ pc' = "accept" /\ UNCHANGED <<server_alive, errors>>
     \/ queue = <<>> /\ pc' = "loop" /\ UNCHANGED <<server_alive, errors>>
     \/ /\ errors < MaxErrors /\ errors' = errors + 1
        /\ pc' = "loop" /\ server_alive' = FALSE
  /\ UNCHANGED <<client_socket, queue, procs, holders, listeners>>

\* Mutant: -1 from accept is not looked at, and becomes the new client_socket.
AcceptUnchecked ==
  /\ pc = "accept" /\ client_socket = None /\ pc' = "fork"
  /\ \/ /\ queue # <<>>
        /\ client_socket' = Head(queue) /\ queue' = Tail(queue)
        /\ holders' = [holders EXCEPT ![Head(queue)] = @ \cup {Acceptor}]
        /\ UNCHANGED errors
     \/ /\ errors < MaxErrors /\ errors' = errors + 1
        /\ client_socket' = None /\ UNCHANGED <<queue, holders>>
  /\ UNCHANGED <<server_alive, procs, listeners>>

\* accept, unless client_socket still holds a connection; when it fails, the
\* loop continues.
Accept ==
  /\ pc = "accept"
  /\ IF client_socket = None
     THEN \/ /\ queue # <<>>
             /\ client_socket' = Head(queue) /\ queue' = Tail(queue)
             /\ holders' = [holders EXCEPT ![Head(queue)] = @ \cup {Acceptor}]
             /\ pc' = "fork" /\ UNCHANGED errors
          \/ /\ errors < MaxErrors /\ errors' = errors + 1
             /\ pc' = "loop" /\ UNCHANGED <<client_socket, queue, holders>>
     ELSE pc' = "fork" /\ UNCHANGED <<client_socket, queue, holders, errors>>
  /\ UNCHANGED <<server_alive, procs, listeners>>

\* The child gets a copy of all the acceptor holds.
ForkSession ==
  /\ pc = "fork" /\ pc' = "parent"
  /\ LET c == client_socket
     IN /\ session' = [session EXCEPT ![c] = "forked"]
        /\ forks' = [forks EXCEPT ![c] = @ + 1]
        /\ Inherits(Session(c), Acceptor)
  /\ UNCHANGED <<server_alive, client_socket, queue, shell, jobs, errors>>

\* fork fails: close, raise(SIGINT), exit.  The whole server is gone.
ForkFails ==
  /\ pc = "fork" /\ pc' = "closed"
  /\ server_alive' = FALSE
  /\ holders' = Closes(Acceptor, Clients)
  /\ StopListening(Acceptor)
  /\ UNCHANGED <<client_socket, procs, errors>>

\* Mutants of the end of an iteration: the acceptor keeps its copy; it keeps the
\* number of the descriptor it has closed.
ParentKeepsCopy ==
  /\ pc = "parent" /\ pc' = "loop"
  /\ client_socket' = None
  /\ UNCHANGED <<server_alive, queue, procs, holders, listeners, errors>>
ParentKeepsNumber ==
  /\ pc = "parent" /\ pc' = "loop"
  /\ holders' = Closes(Acceptor, {client_socket})
  /\ UNCHANGED <<server_alive, client_socket, queue, procs, listeners, errors>>

ParentCloses ==
  /\ pc = "parent" /\ pc' = "loop"
  /\ holders' = Closes(Acceptor, {client_socket})
  /\ client_socket' = None
  /\ UNCHANGED <<server_alive, queue, procs, listeners, errors>>

CloseShop ==
  /\ pc = "closing" /\ pc' = "closed"
  /\ StopListening(Acceptor)
  /\ UNCHANGED <<server_alive, client_socket, procs, holders, errors>>

-----------------------------------------------------------------------------
(* A session process, seen from outside. *)

\* Mutant: the child keeps the listening socket.
ChildKeepsListening(c) ==
  /\ session[c] = "forked"
  /\ session' = [session EXCEPT ![c] = "starting"]
  /\ UNCHANGED <<server_alive, pc, client_socket, queue, shell, jobs, forks, holders,
                 listeners, errors>>

\* The first thing the child does.
ChildStarts(c) ==
  /\ session[c] = "forked"
  /\ session' = [session EXCEPT ![c] = "starting"]
  /\ StopListening(Session(c))
  /\ UNCHANGED <<server_alive, pc, client_socket, shell, jobs, forks, holders, errors>>

\* do_connection forks the shell, which gets a copy of all the session holds;
\* execvp keeps it, for nothing sets FD_CLOEXEC.
SpawnShell(c) ==
  /\ session[c] = "starting"
  /\ session' = [session EXCEPT ![c] = "spawned"]
  /\ shell' = [shell EXCEPT ![c] = "running"]
  /\ Inherits(Shell(c), Session(c))
  /\ UNCHANGED <<server_alive, pc, client_socket, queue, jobs, forks, errors>>

InstallHandlers(c) ==
  /\ session[c] = "spawned"
  /\ session' = [session EXCEPT ![c] = "serving"]
  /\ UNCHANGED <<server_alive, pc, client_socket, queue, shell, jobs, forks, holders,
                 listeners, errors>>

\* SIGCHLD or SIGINT finds the acceptor in select, which then fails with EINTR.
Interrupted == UNCHANGED pc \/ (pc = "select" /\ pc' = "loop")

\* The session exits, from its set-up or from its teardown.
SessionEnds(c) ==
  /\ session[c] \in {"starting", "serving", "stopping"}
  /\ session' = [session EXCEPT ![c] = "ended"]
  /\ holders' = Closes(Session(c), Clients)
  /\ Interrupted
  /\ UNCHANGED <<server_alive, client_socket, queue, shell, jobs, forks, listeners, errors>>

\* The shell forks, and what it starts inherits what the shell has inherited.
StartJobs(c) ==
  /\ shell[c] = "running" /\ c \notin jobs
  /\ jobs' = jobs \cup {c}
  /\ Inherits(Jobs(c), Shell(c))
  /\ UNCHANGED <<server_alive, pc, client_socket, queue, session, shell, forks, errors>>

\* The shell exits, with jobs left behind or without.
ShellEnds(c) ==
  /\ shell[c] = "running"
  /\ shell' = [shell EXCEPT ![c] = "ended"]
  /\ holders' = Closes(Shell(c), Clients)
  /\ StopListening(Shell(c))
  /\ UNCHANGED <<server_alive, pc, client_socket, session, jobs, forks, errors>>

\* The last of the jobs exits.
JobsEnd(c) ==
  /\ c \in jobs
  /\ jobs' = jobs \ {c}
  /\ holders' = Closes(Jobs(c), Clients)
  /\ StopListening(Jobs(c))
  /\ UNCHANGED <<server_alive, pc, client_socket, session, shell, forks, errors>>

-----------------------------------------------------------------------------
(* Clients and signals. *)

\* A connection is queued while any process listens and there is room.
Connect(c) ==
  /\ listeners # {} /\ ~Queued(c) /\ forks[c] = 0 /\ client_socket # c
  /\ Len(queue) < Backlog
  /\ queue' = Append(queue, c)
  /\ UNCHANGED <<server_alive, pc, client_socket, procs, holders, listeners, errors>>

\* SIGINT to the process group, or to the acceptor alone.  A session still in
\* its set-up runs the handler it inherited, which clears a flag it never reads.
Sigint(toGroup) ==
  /\ server_alive' = FALSE
  /\ session' = [c \in Clients |-> IF toGroup /\ session[c] = "serving"
                                   THEN "stopping" ELSE session[c]]
  /\ Interrupted
  /\ UNCHANGED <<client_socket, queue, shell, jobs, forks, holders, listeners, errors>>

AcceptorStep == \/ Loop \/ Select \/ Accept \/ ForkSession \/ ForkFails
                \/ ParentCloses \/ CloseShop
SessionStep(c) == ChildStarts(c) \/ SpawnShell(c) \/ InstallHandlers(c)

\* The server is down, every session, shell and job has gone.
Terminated == /\ pc = "closed" /\ jobs = {}
              /\ \A c \in Clients : session[c] \in {"none", "ended"} /\ shell[c] # "running"
              /\ UNCHANGED vars

Next == \/ AcceptorStep
        \/ \E c \in Clients : \/ SessionStep(c) \/ SessionEnds(c) \/ StartJobs(c)
                              \/ ShellEnds(c) \/ JobsEnd(c) \/ Connect(c)
        \/ \E toGroup \in BOOLEAN : Sigint(toGroup)
        \/ Terminated

Spec == Init /\ [][Next]_vars

\* The acceptor's select wakes at least every three seconds, and a child runs.
\* Clients, signals and the ends of sessions, shells and jobs come as they like.
Fairness == /\ WF_vars(AcceptorStep)
            /\ \A c \in Clients : WF_vars(SessionStep(c))

FairSpec == Spec /\ Fairness

-----------------------------------------------------------------------------
(* Properties. *)

\* A connected socket is held by its own session, its shell and the shell's jobs, and
\* by the acceptor only between accept and the parent's close: no session inherits the socket of
\* another, so a client that hangs up is not kept alive by its neighbours.
DescriptorHygiene ==
  \A c \in Clients :
    /\ holders[c] \subseteq {Acceptor, Session(c), Shell(c), Jobs(c)}
    /\ Acceptor \in holders[c] => client_socket = c /\ pc \in {"fork", "parent"}

\* One accepted connection, one session: a client is forked for at most once,
\* and not while it still waits in the queue.
OneSessionPerConnection ==
  \A c \in Clients : forks[c] <= 1 /\ (Queued(c) => forks[c] = 0)

\* Apart from the acceptor, only a child that has not run yet listens; no shell
\* ever does.  So once the shop is closed and its last child has started, the
\* port is free, whatever sessions and jobs live on.
PortReleased ==
  listeners \subseteq
    {Acceptor} \cup {Session(c) : c \in {d \in Clients : session[d] = "forked"}}

\* A client that got into the queue gets a session, unless the server goes down.
QueuedIsServed == \A c \in Clients : Queued(c) ~> (forks[c] = 1 \/ ~server_alive)

\* A server told to stop closes its listening socket.
ShutdownCloses == ~server_alive ~> (pc = "closed" /\ Acceptor \notin listeners)

\* A connection outlives its session only in the shell and its jobs: some time after
\* the end of the session, and from then on, nobody else holds it, a shell as long as
\* it runs, jobs as long as there are any; so it is free once they are gone.
ConnectionFreed ==
  \A c \in Clients :
    LET alive == {p \in {Shell(c), Jobs(c)} : IF p = Shell(c) THEN shell[c] = "running"
                                                             ELSE c \in jobs}
    IN session[c] = "ended" ~> [](holders[c] = alive)

=============================================================================
