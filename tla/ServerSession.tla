---------------------------- MODULE ServerSession ----------------------------
(***************************************************************************)
(* One server session: the process the acceptor forks for a client, from   *)
(* the first line of do_connection to the exit(-1) that ends it            *)
(* (src/admin/Sources/client_mgmt.c).  Three threads share three atomic    *)
(* flags and three condition variables:                                    *)
(*                                                                         *)
(*   "main"  do_connection, then cleanup_crew_client                       *)
(*   "cmd"   command_prompt_thread: socket -> pty master                   *)
(*   "out"   writeOutput: pty master -> socket                             *)
(*                                                                         *)
(* Each condition variable has exactly one possible waiter (exitCond:      *)
(* main, cmdCond: cmd, outCond: out), and its mutex is never held by the   *)
(* thread that signals it.  The mutexes therefore exclude nothing, and a   *)
(* wait is three states of its thread: "check" (about to read the flags),  *)
(* "park" (the flags said wait, not registered yet) and "parked".  A       *)
(* signal wakes a parked thread and is lost on any other.                  *)
(*                                                                         *)
(* A guard such as while(out_alive&&all_alive) loads two atomics; it is    *)
(* one step here, which loses nothing because all_alive never becomes 1    *)
(* again and every switch-off clears it first (README, "Atomicity").       *)
(***************************************************************************)
EXTENDS Naturals

CONSTANTS
  TLSModes,       \* the values of will_use_tls (server, argv[4]) a run starts with
  MaxSigints,     \* bound: how many SIGINTs a plaintext session is sent
  MaxSigintsTLS   \* bound: the same under TLS

ASSUME TLSModesAssumption == TLSModes \subseteq BOOLEAN
ASSUME MaxSigintsAssumption == MaxSigints \in Nat /\ MaxSigintsTLS \in Nat

VARIABLES
  all_alive, out_alive, cmd_alive,  \* the atomic flags of fileshit.c
  pc,        \* pc[t]: where thread t is
  after,     \* after[t]: where t goes on when switch_all_off returns
  handler,   \* handler[t]: stores its running signal handler still has to do
  peer,      \* the client's end of the connection
  shell,     \* the shell process and what it leaves on the pty
  master,    \* master_fd
  sock,      \* client_socket, this process's copy
  ssl,       \* server_ssl, "off" when the server runs without TLS
  sigints,   \* SIGINTs delivered so far
  missed     \* history: has a signal come between a waiter's check and its wait?

vars  == <<all_alive, out_alive, cmd_alive, pc, after, handler,
           peer, shell, master, sock, ssl, sigints, missed>>
flags == <<all_alive, out_alive, cmd_alive>>
fds   == <<master, sock, ssl>>
env   == <<peer, shell, sigints>>

Workers == {"cmd", "out"}
Threads == Workers \cup {"main"}

\* The labels at which a worker is inside recvsome/sendsome/readsome/writesome
\* or their _ssl variants; "spin": an SSL call has failed for good, errno still
\* says EAGAIN, and the helper tries again without reading a flag.
SocketLabels == {"recv", "send", "spin"}
PtyLabels    == {"write", "read"}
IoLabels     == SocketLabels \cup PtyLabels
OffLabels    == {"off_all", "off_out", "off_cmd", "off_sig"}
WaitLabels   == {"check", "park", "parked"}
SetupLabels  == {"tls", "pty", "spawn", "create_cmd", "install"}
ReapLabels   == {"reap", "if_cmd", "join_cmd", "if_out", "join_out"}
CloseLabels  == {"ssl_off", "close_master", "close_sock", "exit"}
MainLabels   == SetupLabels \cup {"publish", "create_out"} \cup WaitLabels
                  \cup ReapLabels \cup CloseLabels \cup {"done", "crashed"}
CmdLabels    == {"none", "loop", "recv", "write", "spin", "gone"}
                  \cup WaitLabels \cup OffLabels
OutLabels    == {"none", "announce", "signal_cmd", "loop", "read", "send", "spin",
                 "gone"}
                  \cup WaitLabels \cup OffLabels

TypeOK ==
  /\ all_alive \in BOOLEAN /\ out_alive \in BOOLEAN /\ cmd_alive \in BOOLEAN
  /\ pc \in [Threads -> MainLabels \cup CmdLabels \cup OutLabels]
  /\ pc["main"] \in MainLabels /\ pc["cmd"] \in CmdLabels /\ pc["out"] \in OutLabels
  /\ after \in [Workers -> {"none", "loop", "off_all", "gone"}]
  /\ handler \in [Threads -> 0..3]
  /\ peer \in {"open", "closed", "reset", "dead"}
  /\ shell \in {"none", "running", "jobs", "gone"}
  /\ master \in {"none", "open", "closed"} /\ sock \in {"open", "closed"}
  /\ ssl \in {"off", "none", "live", "null"}
  /\ sigints \in Nat /\ missed \in BOOLEAN

\* Set when the program starts and never again.
will_use_tls == ssl # "off"

SigintBound == IF will_use_tls THEN MaxSigintsTLS ELSE MaxSigints

Init ==
  /\ ssl \in {IF tls THEN "none" ELSE "off" : tls \in TLSModes}
  /\ all_alive = TRUE /\ out_alive = FALSE /\ cmd_alive = FALSE
  /\ pc = [t \in Threads |-> IF t # "main" THEN "none"
                             ELSE IF will_use_tls THEN "tls" ELSE "pty"]
  /\ after = [t \in Workers |-> "none"]
  /\ handler = [t \in Threads |-> 0]
  /\ peer = "open" /\ shell = "none"
  /\ master = "none" /\ sock = "open"
  /\ sigints = 0 /\ missed = FALSE

-----------------------------------------------------------------------------
(* Helpers. *)

Ended == pc["main"] \in {"done", "crashed"}     \* exit() took every thread along

\* Thread t may take its step at label l: it is there, runs no signal handler,
\* and the process still exists.
At(t, l) == pc[t] = l /\ handler[t] = 0 /\ ~Ended

Goto(t, l) == pc' = [pc EXCEPT ![t] = l] /\ UNCHANGED missed

\* t signals the condition variable w waits on, and goes to l.
Signal(t, w, l) ==
  /\ pc' = [pc EXCEPT ![t] = l, ![w] = IF pc[w] = "parked" THEN "check" ELSE pc[w]]
  /\ missed' = (missed \/ pc[w] = "park")

\* Mutant: writeOutput sends what a failed read left behind.
OnErrorSendsAnyway(t) == IF t = "cmd" THEN "off_all"
                         ELSE IF pc[t] = "read" THEN "send" ELSE "gone"

\* What follows when the I/O call t is in returns -1.
OnError(t) == IF t = "cmd" THEN "off_all"            \* break, then switch_all_off
              ELSE IF pc[t] = "read" THEN "loop"     \* numread<=0: continue
              ELSE "gone"                            \* break: the thread returns

\* t's I/O call fails inside the helper, which runs exit_emergency_func first.
Emergency(t) ==
  /\ after' = [after EXCEPT ![t] = OnError(t)]
  /\ Goto(t, "off_all")

\* cmd leaves its loop: switch_all_off, then return.
CmdBreak ==
  /\ Goto("cmd", "off_all")
  /\ after' = [after EXCEPT !["cmd"] = "gone"]

\* The SSL pointer is NULL: the handshake failed, or ShutdownSSL has run.
NoSsl == ssl = "null"

\* The call at which t stands can work at all: its descriptor is open and, on
\* the socket under TLS, there is an SSL object.
Usable(t) == IF pc[t] \in PtyLabels THEN master = "open" ELSE sock = "open" /\ ~NoSsl

ProcessExit(l) == /\ Goto("main", l)
                  /\ master' = "closed" /\ sock' = "closed"

-----------------------------------------------------------------------------
(* Thread main: do_connection. *)

\* convert_server_con_to_ssl.  A silent client keeps it looping: no step.
\* Its failure is not reported; do_connection goes on with a NULL pointer.
Handshake ==
  /\ At("main", "tls")
  /\ ssl' \in IF peer = "open" THEN {"live", "null"} ELSE {"null"}
  /\ Goto("main", "pty")
  /\ UNCHANGED <<flags, after, handler, env, master, sock>>

\* openpty, set_pty_size (which exits when the master is unusable), O_NONBLOCK.
OpenPty ==
  /\ At("main", "pty")
  /\ \/ Goto("main", "spawn") /\ master' = "open" /\ UNCHANGED sock
     \/ ProcessExit("done")
  /\ UNCHANGED <<flags, after, handler, env, ssl>>

SpawnShell ==
  /\ At("main", "spawn")
  /\ \/ Goto("main", "create_cmd") /\ shell' = "running" /\ UNCHANGED <<master, sock>>
     \/ ProcessExit("done") /\ UNCHANGED shell
  /\ UNCHANGED <<flags, after, handler, peer, ssl, sigints>>

CreateCmd ==
  /\ At("main", "create_cmd")
  /\ pc' = [pc EXCEPT !["main"] = "install", !["cmd"] = "check"] /\ UNCHANGED missed
  /\ UNCHANGED <<flags, after, handler, fds, env>>

InstallHandlers ==
  /\ At("main", "install") /\ Goto("main", "publish")
  /\ UNCHANGED <<flags, after, handler, fds, env>>

\* Mutants: the flag is forgotten; both flags are raised at once.
PublishOnlySignals ==
  /\ At("main", "publish")
  /\ Signal("main", "out", "create_out")
  /\ UNCHANGED <<flags, after, handler, fds, env>>
PublishBothFlags ==
  /\ At("main", "publish")
  /\ out_alive' = TRUE /\ cmd_alive' = TRUE
  /\ Signal("main", "out", "create_out")
  /\ UNCHANGED <<all_alive, after, handler, fds, env>>

PublishOutput ==
  /\ At("main", "publish")
  /\ out_alive' = TRUE
  /\ Signal("main", "out", "create_out")
  /\ UNCHANGED <<all_alive, cmd_alive, after, handler, fds, env>>

CreateOut ==
  /\ At("main", "create_out")
  /\ pc' = [pc EXCEPT !["main"] = "check", !["out"] = "check"] /\ UNCHANGED missed
  /\ UNCHANGED <<flags, after, handler, fds, env>>

(* Thread main: cleanup_crew_client. *)

AwaitExit ==
  /\ At("main", "check")
  /\ Goto("main", IF all_alive THEN "park" ELSE "reap")
  /\ UNCHANGED <<flags, after, handler, fds, env>>

\* kill(pid_shell,SIGCHLD), which no shell dies of, and waitid(...WNOHANG),
\* which never returns more than 0: neither changes anything.
ReapShell ==
  /\ At("main", "reap") /\ Goto("main", "if_cmd")
  /\ UNCHANGED <<flags, after, handler, fds, env>>

AfterJoins == IF will_use_tls THEN "ssl_off" ELSE "close_master"

JoinWorkers ==
  /\ \/ At("main", "if_cmd") /\ Goto("main", IF cmd_alive THEN "if_out" ELSE "join_cmd")
     \/ /\ At("main", "join_cmd") /\ pc["cmd"] = "gone" /\ handler["cmd"] = 0
        /\ Goto("main", "if_out")
     \/ At("main", "if_out") /\ Goto("main", IF out_alive THEN AfterJoins ELSE "join_out")
     \/ /\ At("main", "join_out") /\ pc["out"] = "gone" /\ handler["out"] = 0
        /\ Goto("main", AfterJoins)
  /\ UNCHANGED <<flags, after, handler, fds, env>>

\* ShutdownSSL and end_openssl_libs_server_side, close(master_fd),
\* close(client_socket), exit(-1).
Teardown ==
  /\ \/ /\ At("main", "ssl_off") /\ Goto("main", "close_master")
        /\ ssl' = "null" /\ UNCHANGED <<master, sock>>
     \/ /\ At("main", "close_master") /\ Goto("main", "close_sock")
        /\ master' = "closed" /\ UNCHANGED <<ssl, sock>>
     \/ /\ At("main", "close_sock") /\ Goto("main", "exit")
        /\ sock' = "closed" /\ UNCHANGED <<ssl, master>>
     \/ At("main", "exit") /\ ProcessExit("done") /\ UNCHANGED ssl
  /\ UNCHANGED <<flags, after, handler, env>>

-----------------------------------------------------------------------------
(* Thread cmd: command_prompt_thread. *)

AwaitCmd ==
  /\ At("cmd", "check")
  /\ Goto("cmd", IF ~cmd_alive /\ all_alive THEN "park" ELSE "loop")
  /\ UNCHANGED <<flags, after, handler, fds, env>>

CmdLoop ==
  /\ At("cmd", "loop")
  /\ IF cmd_alive /\ all_alive THEN Goto("cmd", "recv") /\ UNCHANGED after ELSE CmdBreak
  /\ UNCHANGED <<flags, handler, fds, env>>

\* recvsome/readsome_ssl returns 0 or more.  0 is the end of the stream, which
\* the code does not tell from a command.
Receive ==
  /\ At("cmd", "recv") /\ Usable("cmd") /\ peer # "reset"
  /\ Goto("cmd", "write")
  /\ UNCHANGED <<flags, after, handler, fds, env>>

\* -2 after SERVER_TIMEOUT_DATA_SEC, or -1 from recv itself.  On a NULL SSL
\* select watches no descriptor and times out.
ReceiveFails ==
  /\ At("cmd", "recv")
  /\ \/ NoSsl /\ UNCHANGED peer
     \/ Usable("cmd") /\ peer = "open" /\ UNCHANGED peer
     \/ Usable("cmd") /\ ~will_use_tls /\ peer = "reset" /\ peer' = "dead"
  /\ CmdBreak
  /\ UNCHANGED <<flags, handler, fds, shell, sigints>>

\* Mutant: the result of writesome is not looked at.
WriteToShellBlindly ==
  /\ At("cmd", "write") /\ Usable("cmd") /\ Goto("cmd", "loop")
  /\ UNCHANGED <<flags, after, handler, fds, env>>

\* writesome(master_fd): EIO once nobody holds the slave.
WriteToShell ==
  /\ At("cmd", "write") /\ Usable("cmd")
  /\ \/ shell # "gone" /\ Goto("cmd", "loop") /\ UNCHANGED after
     \/ CmdBreak
  /\ UNCHANGED <<flags, handler, fds, env>>

-----------------------------------------------------------------------------
(* Thread out: writeOutput. *)

AwaitOut ==
  /\ At("out", "check")
  /\ Goto("out", IF ~out_alive /\ all_alive THEN "park" ELSE "announce")
  /\ UNCHANGED <<flags, after, handler, fds, env>>

\* cmd_alive=1 whatever the flags say by now, then the signal, without cmdMtx.
Announce ==
  /\ \/ At("out", "announce") /\ cmd_alive' = TRUE /\ Goto("out", "signal_cmd")
     \/ At("out", "signal_cmd") /\ Signal("out", "cmd", "loop") /\ UNCHANGED cmd_alive
  /\ UNCHANGED <<all_alive, out_alive, after, handler, fds, env>>

\* Mutant: the loop tests its own flag only.
OutLoopOnOwnFlag ==
  /\ At("out", "loop")
  /\ Goto("out", IF out_alive THEN "read" ELSE "gone")
  /\ UNCHANGED <<flags, after, handler, fds, env>>

OutLoop ==
  /\ At("out", "loop")
  /\ Goto("out", IF out_alive /\ all_alive THEN "read" ELSE "gone")
  /\ UNCHANGED <<flags, after, handler, fds, env>>

\* readsome(master_fd): a chunk, or nothing worth sending (timeout, EIO).
ReadFromShell ==
  /\ At("out", "read") /\ Usable("out")
  /\ Goto("out", "send") \/ Goto("out", "loop")
  /\ UNCHANGED <<flags, after, handler, fds, env>>

\* Sent, or -2 (the chunk is dropped): either way the loop goes on.
Send ==
  /\ At("out", "send")
  /\ NoSsl \/ (Usable("out") /\ peer \in {"open", "closed"})
  /\ Goto("out", "loop")
  /\ UNCHANGED <<flags, after, handler, fds, env>>

\* send returns -1: a full socket buffer or a reset, without SIGPIPE.
SendFails ==
  /\ At("out", "send") /\ Usable("out") /\ ~will_use_tls /\ peer # "dead"
  /\ peer' = IF peer = "reset" THEN "dead" ELSE peer
  /\ Goto("out", "gone")
  /\ UNCHANGED <<flags, after, handler, fds, shell, sigints>>

\* EPIPE: SIGPIPE interrupts the sending thread itself, then the call fails;
\* sendsome_ssl also runs the emergency function.
SendPipe ==
  /\ At("out", "send") /\ Usable("out") /\ peer \in {"reset", "dead"}
  /\ handler' = [handler EXCEPT !["out"] = 3]
  /\ IF will_use_tls THEN Emergency("out") ELSE Goto("out", "gone") /\ UNCHANGED after
  /\ peer' = "dead"
  /\ UNCHANGED <<flags, fds, shell, sigints>>

-----------------------------------------------------------------------------
(* Workers: failing I/O and the switch-off. *)

\* select fails on a descriptor main has closed, or SSL_read/SSL_write fails.
IoFatal(t) ==
  /\ \E l \in IoLabels : At(t, l)
  /\ \/ pc[t] \in PtyLabels /\ ~Usable(t)
     \/ pc[t] \in SocketLabels /\ sock = "closed" /\ (~NoSsl \/ pc[t] = "spin")
     \/ pc[t] \in {"recv", "send"} /\ will_use_tls /\ Usable(t)
  /\ Emergency(t)
  /\ UNCHANGED <<flags, handler, fds, env>>

\* The same failure with a stale EAGAIN in errno: continue, and again, for as
\* long as select finds the socket ready.
SpinStarts(t) ==
  /\ (At(t, "recv") \/ At(t, "send")) /\ will_use_tls /\ Usable(t)
  /\ Goto(t, "spin")
  /\ UNCHANGED <<flags, after, handler, fds, env>>

\* It ends when select times out (-2) or errno comes to say something else (-1);
\* nothing says that either happens.
SpinEnds(t) ==
  /\ At(t, "spin")
  /\ \/ IF t = "cmd" THEN CmdBreak ELSE Goto(t, "loop") /\ UNCHANGED after
     \/ Emergency(t)
  /\ UNCHANGED <<flags, handler, fds, env>>

\* Mutant: the flags are cleared and nobody is told.
SwitchAllOffSilently(t) ==
  /\ \/ At(t, "off_all") /\ Goto(t, "off_sig") /\ UNCHANGED after
        /\ all_alive' = FALSE /\ out_alive' = FALSE /\ cmd_alive' = FALSE
     \/ At(t, "off_sig") /\ Goto(t, after[t])
        /\ after' = [after EXCEPT ![t] = IF @ = "off_all" THEN "gone" ELSE "none"]
        /\ UNCHANGED flags
  /\ UNCHANGED <<handler, fds, env>>

\* switch_all_off, store by store, then the signal, without exitMtx.
SwitchAllOff(t) ==
  /\ \/ At(t, "off_all") /\ all_alive' = FALSE /\ Goto(t, "off_out")
        /\ UNCHANGED <<out_alive, cmd_alive, after>>
     \/ At(t, "off_out") /\ out_alive' = FALSE /\ Goto(t, "off_cmd")
        /\ UNCHANGED <<all_alive, cmd_alive, after>>
     \/ At(t, "off_cmd") /\ cmd_alive' = FALSE /\ Goto(t, "off_sig")
        /\ UNCHANGED <<all_alive, out_alive, after>>
     \/ At(t, "off_sig") /\ Signal(t, "main", after[t])
        /\ after' = [after EXCEPT ![t] = IF @ = "off_all" THEN "gone" ELSE "none"]
        /\ UNCHANGED flags
  /\ UNCHANGED <<handler, fds, env>>

\* pthread_cond_wait after a guard that said wait: the thread is registered.
Park(t) ==
  /\ At(t, "park") /\ Goto(t, "parked")
  /\ UNCHANGED <<flags, after, handler, fds, env>>

-----------------------------------------------------------------------------
(* Signals and the environment. *)

Running(t) == pc[t] \notin {"none", "gone"} /\ ~Ended

\* A signal that arrives while t is inside select makes select fail.
Interrupted(t) ==
  \/ UNCHANGED <<pc, after, missed>>
  \/ pc[t] \in IoLabels /\ Emergency(t)

\* SIGINT on thread t, once sigint_handler_client is installed.  Before that the
\* acceptor's handler runs and changes nothing of the session.
Sigint(t) ==
  /\ pc["main"] \notin SetupLabels
  /\ Running(t) /\ handler[t] = 0
  /\ handler' = [handler EXCEPT ![t] = 3]
  /\ Interrupted(t)
  /\ sigints < SigintBound /\ sigints' = sigints + 1
  /\ UNCHANGED <<flags, fds, peer, shell>>

\* sigint_handler_client: three stores, no signal.
HandlerStore(t) ==
  /\ handler[t] > 0 /\ ~Ended
  /\ handler' = [handler EXCEPT ![t] = @ - 1]
  /\ all_alive' = IF handler[t] = 3 THEN FALSE ELSE all_alive
  /\ out_alive' = IF handler[t] = 2 THEN FALSE ELSE out_alive
  /\ cmd_alive' = IF handler[t] = 1 THEN FALSE ELSE cmd_alive
  /\ UNCHANGED <<pc, after, missed, fds, env>>

\* The shell exits, leaving jobs on the pty or none; SIGCHLD lands on some thread.
ShellExits ==
  /\ shell = "running" /\ ~Ended
  /\ shell' \in {"jobs", "gone"}
  /\ \E t \in Threads : Running(t) /\ handler[t] = 0 /\ Interrupted(t)
  /\ UNCHANGED <<flags, handler, fds, peer, sigints>>

JobsEnd ==
  /\ shell = "jobs" /\ shell' = "gone" /\ ~Ended
  /\ UNCHANGED <<flags, pc, after, missed, handler, fds, peer, sigints>>

\* The client shuts its end down, or the connection is reset.
PeerLeaves ==
  /\ ~Ended
  /\ \/ peer = "open" /\ peer' \in {"closed", "reset"}
     \/ peer = "closed" /\ peer' = "reset"
  /\ UNCHANGED <<flags, pc, after, missed, handler, fds, shell, sigints>>

SpuriousWakeup(t) ==
  /\ At(t, "parked") /\ Goto(t, "check")
  /\ UNCHANGED <<flags, after, handler, fds, env>>

\* Undefined behaviour: an SSL call on a NULL or freed SSL, or SSL_read and
\* SSL_write at once on the one SSL both workers share, may end the process.
SslCrash ==
  /\ will_use_tls /\ ~Ended
  /\ \/ NoSsl /\ \E t \in Workers : pc[t] \in SocketLabels
     \/ \A t \in Workers : pc[t] \in SocketLabels
  /\ ProcessExit("crashed")
  /\ UNCHANGED <<flags, after, handler, env, ssl>>

\* The process has ended and nothing more happens in it.
Terminated == Ended /\ UNCHANGED vars

-----------------------------------------------------------------------------

MainStep == \/ OpenPty \/ SpawnShell \/ CreateCmd \/ InstallHandlers
            \/ PublishOutput \/ CreateOut \/ AwaitExit \/ Park("main")
            \/ ReapShell \/ JoinWorkers \/ Teardown
CmdStep  == \/ AwaitCmd \/ CmdLoop \/ Receive \/ ReceiveFails \/ WriteToShell
            \/ IoFatal("cmd") \/ SpinStarts("cmd") \/ SwitchAllOff("cmd") \/ Park("cmd")
OutStep  == \/ AwaitOut \/ Announce \/ OutLoop \/ ReadFromShell \/ Send \/ SendFails
            \/ SendPipe \/ IoFatal("out") \/ SpinStarts("out") \/ SwitchAllOff("out") \/ Park("out")
Signals  == \E t \in Threads : Sigint(t) \/ SpuriousWakeup(t)
Environment == \/ ShellExits \/ JobsEnd \/ PeerLeaves \/ SslCrash
               \/ \E t \in Workers : SpinEnds(t)

Next == \/ Handshake \/ MainStep \/ CmdStep \/ OutStep
        \/ \E t \in Threads : HandlerStore(t)
        \/ Signals \/ Environment \/ Terminated

Spec == Init /\ [][Next]_vars

\* The scheduler runs every runnable thread, and every select has a timeout.
\* Nothing forces a client to finish its handshake, a spinning helper to give up,
\* a signal, or a wakeup.
Fairness == /\ WF_vars(MainStep) /\ WF_vars(CmdStep) /\ WF_vars(OutStep)
            /\ WF_vars(\E t \in Threads : HandlerStore(t))

FairSpec == Spec /\ Fairness

-----------------------------------------------------------------------------
(* Properties. *)

\* writeOutput never waits on outCond: out_alive is stored before the thread is
\* created, and whatever clears it clears all_alive first.  So the signal sent
\* before the waiter exists is never missed.
OutputNeverParks == pc["out"] \notin {"park", "parked"}

\* The command thread does no I/O before the output thread is up: cmd_alive is
\* raised by writeOutput alone, so no command reaches a shell nobody reads.
CommandsFollowOutput ==
  pc["cmd"] \in {"recv", "write", "spin"} =>
    pc["out"] \notin {"none", "check", "park", "parked", "announce"}

\* The session as SessionContract sees it.
Phase == IF Ended THEN "ended"
         ELSE IF pc["main"] \in CloseLabels THEN "releasing"
         ELSE IF all_alive THEN "up" ELSE "stopping"
Busy  == {t \in Workers : ~Ended /\ pc[t] \in IoLabels}

Contract == INSTANCE SessionContract WITH
              Orderly <- FALSE, phase <- Phase, busy <- Busy

\* The server keeps the session contract: once switched off, and so all through
\* the teardown, no worker starts another round of I/O, joined or not.  It does
\* not keep it in order: a worker may be in its last round when main releases
\* the descriptors, because the joins depend on flags that are still changing.
KeepsContract == Contract!Spec

\* What the code has no way out of: a signal that fell between a waiter's check
\* and its wait, and an SSL call that goes on failing with a stale EAGAIN.
Stuck == missed \/ \E t \in Workers : pc[t] = "spin"

\* A switched-off session ends unless it is stuck.  Main need not be awake, the
\* flags may have been cleared by a signal handler, which wakes nobody, and either
\* worker may still be in its select.
ShutdownReachesEnd == ~all_alive ~> (Ended \/ Stuck)

\* When the client has gone and nobody holds the pty, the session is switched
\* off: the end of file recvsome takes for a command then fails on the master.
\* Again only a stuck session goes on.
AbandonedSessionEnds ==
  (peer # "open" /\ shell = "gone") ~> (~all_alive \/ Ended \/ Stuck)

\* "About to join threads which are online" (client_mgmt.c:137): the descriptors
\* close with both workers joined.
JoinsOnlineThreads ==
  [][ master = "open" /\ master' = "closed" =>
        \A t \in Workers : pc[t] \in {"none", "gone"} \/ pc'["main"] = "crashed" ]_vars

=============================================================================
