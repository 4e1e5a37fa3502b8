---------------------------- MODULE ClientSession ----------------------------
(***************************************************************************)
(* The client process after tryConnect (src/client/main.c):                *)
(*                                                                         *)
(*   "main"  the rest of main, then cleanup_crew                           *)
(*   "out"   getOutput: socket -> terminal                                 *)
(*   "cmd"   command_line_thread: keyboard -> socket                       *)
(*                                                                         *)
(* The flags, the condition variables and the way a wait is modelled are   *)
(* those of ServerSession: "check", "park", "parked", and a signal that    *)
(* finds nobody parked is lost.  Two differences matter.  Here out_alive   *)
(* is published after getOutput is running, so that signal too can be      *)
(* lost; and here cleanup_crew joins both workers whatever the flags say.  *)
(***************************************************************************)
EXTENDS Naturals

CONSTANTS
  TLSModes,    \* the values of will_use_tls (client, argv[3]) a run starts with
  MaxSigints   \* bound: how many SIGINTs the client is sent

ASSUME TLSModesAssumption == TLSModes \subseteq BOOLEAN
ASSUME MaxSigintsAssumption == MaxSigints \in Nat

VARIABLES
  all_alive, out_alive, cmd_alive,  \* the atomic flags of fileshit.c
  pc,        \* pc[t]: where thread t is
  after,     \* after[t]: where t goes on when cleanup() returns
  handler,   \* handler[t]: stores its running signal handler still has to do
  peer,      \* the server's end, "none" when tryConnect never got through
  quit,      \* has the user typed Ctrl+D (raw_line[0]==4)?
  raw,       \* is the terminal in raw mode?
  sock,      \* client_socket
  ssl,       \* client_ssl, "off" when the client runs without TLS
  sigints,   \* SIGINTs delivered so far
  missed     \* history: has a signal come between a waiter's check and its wait?

vars  == <<all_alive, out_alive, cmd_alive, pc, after, handler,
           peer, quit, raw, sock, ssl, sigints, missed>>
flags == <<all_alive, out_alive, cmd_alive>>
fds   == <<sock, ssl>>
user  == <<quit, raw, sigints>>

Workers == {"cmd", "out"}
Threads == Workers \cup {"main"}

\* "spin": an SSL call that keeps failing with a stale EAGAIN (ServerSession).
SocketLabels == {"recv", "send", "spin"}
IoLabels     == SocketLabels \cup {"print", "type"}  \* inside an I/O helper
RoundLabels  == IoLabels \cup {"got"}                \* from one loop test to the next
OffLabels    == {"off_all", "off_out", "off_cmd", "off_sig"}
WaitLabels   == {"check", "park", "parked"}
SetupLabels  == {"tls", "create_out", "create_cmd"}
CloseLabels  == {"close_sock", "restore", "ssl_off"}
MainLabels   == SetupLabels \cup {"publish", "signal_out"} \cup WaitLabels
                  \cup {"join_cmd", "join_out"} \cup CloseLabels
                  \cup {"done", "aborted", "crashed"}
CmdLabels    == {"none", "enable_raw", "loop", "type", "send", "spin",
                 "gone"}
                  \cup WaitLabels \cup OffLabels
OutLabels    == {"none", "announce", "signal_cmd", "loop", "recv", "got", "print", "spin",
                 "out_off", "gone"} \cup WaitLabels \cup OffLabels

TypeOK ==
  /\ all_alive \in BOOLEAN /\ out_alive \in BOOLEAN /\ cmd_alive \in BOOLEAN
  /\ pc \in [Threads -> MainLabels \cup CmdLabels \cup OutLabels]
  /\ pc["main"] \in MainLabels /\ pc["cmd"] \in CmdLabels /\ pc["out"] \in OutLabels
  /\ after \in [Workers -> {"none", "loop", "recv", "off_all", "gone"}]
  /\ handler \in [Threads -> 0..3]
  /\ peer \in {"open", "none", "closed", "reset", "dead"}
  /\ quit \in BOOLEAN /\ raw \in BOOLEAN
  /\ sock \in {"open", "closed"} /\ ssl \in {"off", "none", "live", "null"}
  /\ sigints \in 0..MaxSigints /\ missed \in BOOLEAN

\* Set when the program starts and never again.
will_use_tls == ssl # "off"

\* tryConnect has returned, connected or not: main does not ask which.
Init ==
  /\ ssl \in {IF tls THEN "none" ELSE "off" : tls \in TLSModes}
  /\ all_alive = TRUE /\ out_alive = FALSE /\ cmd_alive = FALSE
  /\ pc = [t \in Threads |-> IF t # "main" THEN "none"
                             ELSE IF will_use_tls THEN "tls" ELSE "create_out"]
  /\ after = [t \in Workers |-> "none"]
  /\ handler = [t \in Threads |-> 0]
  /\ peer \in {"open", "none"}
  /\ quit = FALSE /\ raw = FALSE
  /\ sock = "open"
  /\ sigints = 0 /\ missed = FALSE

-----------------------------------------------------------------------------
(* Helpers. *)

Ended == pc["main"] \in {"done", "aborted", "crashed"}

\* Thread t may take its step at label l: it is there, runs no signal handler,
\* and the process still exists.
At(t, l) == pc[t] = l /\ handler[t] = 0 /\ ~Ended

Goto(t, l) == pc' = [pc EXCEPT ![t] = l] /\ UNCHANGED missed

\* t signals the condition variable w waits on, and goes to l.
Signal(t, w, l) ==
  /\ pc' = [pc EXCEPT ![t] = l, ![w] = IF pc[w] = "parked" THEN "check" ELSE pc[w]]
  /\ missed' = (missed \/ pc[w] = "park")

\* Mutant: a failed send is tried again.
EmergencyThenRetry(t) ==
  /\ after' = [after EXCEPT ![t] = CASE t = "cmd" /\ pc[t] # "type" -> "send"
                                     [] pc[t] = "print" -> "recv"
                                     [] OTHER -> "loop"]
  /\ Goto(t, "off_all")

\* t's I/O call fails inside the helper, which runs cleanup() first; then the
\* caller goes on: out's loops ignore the failure, cmd's send breaks.
Emergency(t) ==
  /\ after' = [after EXCEPT ![t] = CASE t = "cmd" /\ pc[t] # "type" -> "off_all"
                                     [] pc[t] = "print" -> "recv"
                                     [] OTHER -> "loop"]
  /\ Goto(t, "off_all")

\* cmd leaves its loop: cleanup(), then return.
CmdBreak ==
  /\ Goto("cmd", "off_all")
  /\ after' = [after EXCEPT !["cmd"] = "gone"]

\* The handshake failed: both workers go on with a NULL SSL.
NoSsl == ssl = "null"

ProcessExit(l) == Goto("main", l) /\ sock' = "closed"

-----------------------------------------------------------------------------
(* Thread main. *)

\* convert_client_con_to_ssl.  A silent server keeps it looping: no step.  On a
\* connection that is not there the first write also raises SIGPIPE.
Handshake ==
  /\ At("main", "tls")
  /\ \/ peer = "open" /\ ssl' = "live" /\ UNCHANGED handler
     \/ ssl' = "null" /\ UNCHANGED handler
     \/ peer \in {"none", "reset"} /\ ssl' = "null"
        /\ handler' = [handler EXCEPT !["main"] = 3]
  /\ Goto("main", "create_out")
  /\ UNCHANGED <<flags, after, peer, user, sock>>

CreateWorkers ==
  /\ \/ /\ At("main", "create_out")
        /\ pc' = [pc EXCEPT !["main"] = "create_cmd", !["out"] = "check"] /\ UNCHANGED missed
     \/ /\ At("main", "create_cmd")
        /\ pc' = [pc EXCEPT !["main"] = "publish", !["cmd"] = "check"] /\ UNCHANGED missed
  /\ UNCHANGED <<flags, after, handler, peer, user, fds>>

\* Mutant: both flags are raised at once.
PublishBothFlags ==
  /\ \/ /\ At("main", "publish") /\ Goto("main", "signal_out")
        /\ out_alive' = TRUE /\ cmd_alive' = TRUE
     \/ At("main", "signal_out") /\ Signal("main", "out", "check")
        /\ UNCHANGED <<out_alive, cmd_alive>>
  /\ UNCHANGED <<all_alive, after, handler, peer, user, fds>>

\* out_alive=1, then the signal, without outMtx.
PublishOutput ==
  /\ \/ At("main", "publish") /\ out_alive' = TRUE /\ Goto("main", "signal_out")
     \/ At("main", "signal_out") /\ Signal("main", "out", "check")
        /\ UNCHANGED out_alive
  /\ UNCHANGED <<all_alive, cmd_alive, after, handler, peer, user, fds>>

(* Thread main: cleanup_crew. *)

AwaitExit ==
  /\ At("main", "check")
  /\ Goto("main", IF all_alive THEN "park" ELSE "join_cmd")
  /\ UNCHANGED <<flags, after, handler, peer, user, fds>>

\* Mutants: the keyboard thread is joined only when its flag is down, as the server
\* does; the printer is not waited for.
JoinIfFlagDown ==
  /\ \/ /\ At("main", "join_cmd")
        /\ cmd_alive \/ (pc["cmd"] = "gone" /\ handler["cmd"] = 0)
        /\ Goto("main", "join_out")
     \/ /\ At("main", "join_out") /\ pc["out"] = "gone" /\ handler["out"] = 0
        /\ Goto("main", "close_sock")
  /\ UNCHANGED <<flags, after, handler, peer, user, fds>>
JoinKeyboardOnly ==
  /\ \/ /\ At("main", "join_cmd") /\ pc["cmd"] = "gone" /\ handler["cmd"] = 0
        /\ Goto("main", "join_out")
     \/ At("main", "join_out") /\ Goto("main", "close_sock")
  /\ UNCHANGED <<flags, after, handler, peer, user, fds>>

JoinWorkers ==
  /\ \/ /\ At("main", "join_cmd") /\ pc["cmd"] = "gone" /\ handler["cmd"] = 0
        /\ Goto("main", "join_out")
     \/ /\ At("main", "join_out") /\ pc["out"] = "gone" /\ handler["out"] = 0
        /\ Goto("main", "close_sock")
  /\ UNCHANGED <<flags, after, handler, peer, user, fds>>

\* close(client_socket), disable_raw, then ShutdownSSL on the closed socket.
Teardown ==
  /\ \/ At("main", "close_sock") /\ Goto("main", "restore")
        /\ sock' = "closed" /\ UNCHANGED <<raw, ssl>>
     \/ At("main", "restore") /\ Goto("main", IF will_use_tls THEN "ssl_off" ELSE "done")
        /\ raw' = FALSE /\ UNCHANGED <<sock, ssl>>
     \/ At("main", "ssl_off") /\ Goto("main", "done")
        /\ ssl' = "null" /\ UNCHANGED <<raw, sock>>
  /\ UNCHANGED <<flags, after, handler, peer, quit, sigints>>

-----------------------------------------------------------------------------
(* Thread out: getOutput. *)

AwaitOut ==
  /\ At("out", "check")
  /\ Goto("out", IF ~out_alive /\ all_alive THEN "park" ELSE "announce")
  /\ UNCHANGED <<flags, after, handler, peer, user, fds>>

\* Mutant: cmd_alive is raised without the signal.
AnnounceSilently ==
  /\ At("out", "announce") /\ cmd_alive' = TRUE /\ Goto("out", "loop")
  /\ UNCHANGED <<all_alive, out_alive, after, handler, peer, user, fds>>

Announce ==
  /\ \/ At("out", "announce") /\ cmd_alive' = TRUE /\ Goto("out", "signal_cmd")
     \/ At("out", "signal_cmd") /\ Signal("out", "cmd", "loop") /\ UNCHANGED cmd_alive
  /\ UNCHANGED <<all_alive, out_alive, after, handler, peer, user, fds>>

\* The outer test; when it fails, out_alive=0 and return.
OutLoop ==
  /\ \/ At("out", "loop") /\ UNCHANGED out_alive
        /\ Goto("out", IF out_alive /\ all_alive THEN "recv" ELSE "out_off")
     \/ At("out", "out_off") /\ out_alive' = FALSE /\ Goto("out", "gone")
  /\ UNCHANGED <<all_alive, cmd_alive, after, handler, peer, user, fds>>

\* recvsome/readsome_ssl returns 0 (end of stream, not told apart) or more.
Receive ==
  /\ At("out", "recv") /\ ~NoSsl /\ peer \in {"open", "closed", "dead"}
  /\ Goto("out", "got")
  /\ UNCHANGED <<flags, after, handler, peer, user, fds>>

\* Mutant: a failed recv ends the printer.
ReceiveFailsForGood ==
  /\ At("out", "recv")
  /\ \/ (NoSsl \/ peer \in {"open", "none"}) /\ UNCHANGED peer
     \/ ~will_use_tls /\ peer = "reset" /\ peer' = "dead"
  /\ Goto("out", "out_off")
  /\ UNCHANGED <<flags, after, handler, user, fds>>

\* A timeout, or a failed recv: back to the outer test.
ReceiveFails ==
  /\ At("out", "recv")
  /\ \/ (NoSsl \/ peer \in {"open", "none"}) /\ UNCHANGED peer
     \/ ~will_use_tls /\ peer = "reset" /\ peer' = "dead"
  /\ Goto("out", "loop")
  /\ UNCHANGED <<flags, after, handler, user, fds>>

\* The rest of the inner test, then writesome(STDOUT), whose result nobody
\* reads; the exit word leaves the inner loop only.
Show ==
  /\ \/ At("out", "got") /\ Goto("out", IF out_alive /\ all_alive THEN "print" ELSE "loop")
     \/ At("out", "print") /\ (Goto("out", "recv") \/ Goto("out", "loop"))
  /\ UNCHANGED <<flags, after, handler, peer, user, fds>>

-----------------------------------------------------------------------------
(* Thread cmd: command_line_thread. *)

AwaitCmd ==
  /\ At("cmd", "check")
  /\ Goto("cmd", IF ~cmd_alive /\ all_alive THEN "park" ELSE "enable_raw")
  /\ UNCHANGED <<flags, after, handler, peer, user, fds>>

\* enable_raw, which ends the process when stdin is no terminal.
EnableRaw ==
  /\ At("cmd", "enable_raw")
  /\ \/ Goto("cmd", "loop") /\ raw' = TRUE /\ UNCHANGED sock
     \/ ProcessExit("aborted") /\ UNCHANGED raw
  /\ UNCHANGED <<flags, after, handler, peer, quit, sigints, ssl>>

CmdLoop ==
  /\ At("cmd", "loop")
  /\ IF cmd_alive /\ all_alive THEN Goto("cmd", "type") /\ UNCHANGED after ELSE CmdBreak
  /\ UNCHANGED <<flags, handler, peer, user, fds>>

\* readsome(STDIN): nothing within the timeout, or keys, Ctrl+D first or not.
Type ==
  /\ At("cmd", "type")
  /\ \/ Goto("cmd", "loop") /\ UNCHANGED quit
     \/ Goto("cmd", "send") /\ quit' \in BOOLEAN
  /\ UNCHANGED <<flags, after, handler, peer, raw, sigints, fds>>

\* Sent; Ctrl+D is sent too, and then ends the loop.
Send ==
  /\ At("cmd", "send") /\ ~NoSsl /\ peer \in {"open", "closed"}
  /\ IF quit THEN CmdBreak ELSE Goto("cmd", "loop") /\ UNCHANGED after
  /\ UNCHANGED <<flags, handler, peer, user, fds>>

\* -2 (not writable within 100 ms) or -1: the loop ends.
SendFails ==
  /\ At("cmd", "send")
  /\ \/ (NoSsl \/ peer \in {"open", "none", "closed"}) /\ UNCHANGED peer
     \/ ~will_use_tls /\ peer = "reset" /\ peer' = "dead"
  /\ CmdBreak
  /\ UNCHANGED <<flags, handler, user, fds>>

\* EPIPE: SIGPIPE interrupts the sending thread itself, then the call fails;
\* sendsome_ssl also runs the emergency function.
SendPipe ==
  /\ At("cmd", "send") /\ ~NoSsl /\ peer \in {"none", "reset", "dead"}
  /\ handler' = [handler EXCEPT !["cmd"] = 3]
  /\ IF will_use_tls THEN Emergency("cmd") ELSE CmdBreak
  /\ UNCHANGED <<flags, peer, user, fds>>

-----------------------------------------------------------------------------
(* Workers: failing I/O and the switch-off. *)

\* SSL_read or SSL_write fails for good.
SslFatal(t) ==
  /\ will_use_tls /\ ~NoSsl /\ (At(t, "recv") \/ At(t, "send"))
  /\ Emergency(t)
  /\ UNCHANGED <<flags, handler, peer, user, fds>>

\* The same failure with a stale EAGAIN in errno: the helper tries again without
\* reading a flag.
SpinStarts(t) ==
  /\ will_use_tls /\ ~NoSsl /\ (At(t, "recv") \/ At(t, "send"))
  /\ Goto(t, "spin")
  /\ UNCHANGED <<flags, after, handler, peer, user, fds>>

\* It ends when select times out (-2) or errno comes to say something else (-1);
\* nothing says that either happens.
SpinEnds(t) ==
  /\ At(t, "spin")
  /\ \/ IF t = "cmd" THEN CmdBreak ELSE Goto(t, "loop") /\ UNCHANGED after
     \/ Emergency(t)
  /\ UNCHANGED <<flags, handler, peer, user, fds>>

\* Mutant: the flags are cleared and nobody is told.
SwitchAllOffSilently(t) ==
  /\ \/ At(t, "off_all") /\ Goto(t, "off_sig") /\ UNCHANGED after
        /\ all_alive' = FALSE /\ out_alive' = FALSE /\ cmd_alive' = FALSE
     \/ At(t, "off_sig") /\ Goto(t, after[t])
        /\ after' = [after EXCEPT ![t] = IF @ = "off_all" THEN "gone" ELSE "none"]
        /\ UNCHANGED flags
  /\ UNCHANGED <<handler, peer, user, fds>>

\* cleanup(), store by store, then the signal, without exitMtx.
SwitchAllOff(t) ==
  /\ \/ At(t, "off_all") /\ all_alive' = FALSE /\ Goto(t, "off_out")
        /\ UNCHANGED <<out_alive, cmd_alive, after>>
     \/ At(t, "off_out") /\ out_alive' = FALSE /\ Goto(t, "off_cmd")
        /\ UNCHANGED <<all_alive, cmd_alive, after>>
     \/ At(t, "off_cmd") /\ cmd_alive' = FALSE /\ Goto(t, "off_sig")
        /\ UNCHANGED <<all_alive, out_alive, after>>
     \/ At(t, "off_sig") /\ Signal(t, "main", after[t])
        /\ after' = [after EXCEPT ![t] = IF @ = "off_all" THEN "gone" ELSE "none"]
        /\ UNCHANGED flags
  /\ UNCHANGED <<handler, peer, user, fds>>

\* pthread_cond_wait after a guard that said wait: the thread is registered.
Park(t) ==
  /\ At(t, "park") /\ Goto(t, "parked")
  /\ UNCHANGED <<flags, after, handler, peer, user, fds>>

-----------------------------------------------------------------------------
(* Signals and the environment. *)

Running(t) == pc[t] \notin {"none", "gone"} /\ ~Ended

\* SIGINT on thread t; one inside select finds it failed.
Sigint(t) ==
  /\ Running(t) /\ handler[t] = 0
  /\ handler' = [handler EXCEPT ![t] = 3]
  /\ UNCHANGED <<pc, after, missed>> \/ (pc[t] \in IoLabels /\ Emergency(t))
  /\ sigints < MaxSigints /\ sigints' = sigints + 1
  /\ UNCHANGED <<flags, peer, quit, raw, fds>>

\* sigint_handler: three stores, no signal.
HandlerStore(t) ==
  /\ handler[t] > 0 /\ ~Ended
  /\ handler' = [handler EXCEPT ![t] = @ - 1]
  /\ all_alive' = IF handler[t] = 3 THEN FALSE ELSE all_alive
  /\ out_alive' = IF handler[t] = 2 THEN FALSE ELSE out_alive
  /\ cmd_alive' = IF handler[t] = 1 THEN FALSE ELSE cmd_alive
  /\ UNCHANGED <<pc, after, missed, peer, user, fds>>

\* The server's end shuts down, or the connection is reset.
PeerLeaves ==
  /\ ~Ended
  /\ \/ peer = "open" /\ peer' \in {"closed", "reset"}
     \/ peer = "closed" /\ peer' = "reset"
  /\ UNCHANGED <<flags, pc, after, missed, handler, user, fds>>

SpuriousWakeup(t) ==
  /\ At(t, "parked") /\ Goto(t, "check")
  /\ UNCHANGED <<flags, after, handler, peer, user, fds>>

\* Undefined behaviour: an SSL call on a NULL SSL, or SSL_read and SSL_write at
\* once on the one SSL both workers share, may end the process.
SslCrash ==
  /\ will_use_tls /\ ~Ended
  /\ \/ NoSsl /\ \E t \in Workers : pc[t] \in SocketLabels
     \/ \A t \in Workers : pc[t] \in SocketLabels
  /\ ProcessExit("crashed")
  /\ UNCHANGED <<flags, after, handler, peer, user, ssl>>

\* The process has ended and nothing more happens in it.
Terminated == Ended /\ UNCHANGED vars

-----------------------------------------------------------------------------

MainStep == \/ CreateWorkers \/ PublishOutput \/ AwaitExit \/ Park("main")
            \/ JoinWorkers \/ Teardown
OutStep  == \/ AwaitOut \/ Announce \/ OutLoop \/ Receive \/ ReceiveFails \/ Show
            \/ SslFatal("out") \/ SpinStarts("out") \/ SwitchAllOff("out") \/ Park("out")
CmdStep  == \/ AwaitCmd \/ EnableRaw \/ CmdLoop \/ Type \/ Send \/ SendFails \/ SendPipe
            \/ SslFatal("cmd") \/ SpinStarts("cmd") \/ SwitchAllOff("cmd") \/ Park("cmd")
Signals  == \E t \in Threads : Sigint(t) \/ SpuriousWakeup(t)
Environment == PeerLeaves \/ SslCrash \/ \E t \in Workers : SpinEnds(t)

Next == \/ Handshake \/ MainStep \/ OutStep \/ CmdStep
        \/ \E t \in Threads : HandlerStore(t)
        \/ Signals \/ Environment \/ Terminated

Spec == Init /\ [][Next]_vars

\* The scheduler runs every runnable thread, and every select has a timeout.
\* Nothing forces a server to finish the handshake, a spinning helper to give up,
\* a signal, or a wakeup.
Fairness == /\ WF_vars(MainStep) /\ WF_vars(CmdStep) /\ WF_vars(OutStep)
            /\ WF_vars(\E t \in Threads : HandlerStore(t))

FairSpec == Spec /\ Fairness

-----------------------------------------------------------------------------
(* Properties. *)

\* The session as SessionContract sees it.  A printer that ran the emergency
\* function goes on in the round it was in.
Phase == IF Ended THEN "ended"
         ELSE IF pc["main"] \in CloseLabels THEN "releasing"
         ELSE IF all_alive THEN "up" ELSE "stopping"
Busy  == {t \in Workers : ~Ended /\ (pc[t] \in RoundLabels \/ after[t] = "recv")}

Contract == INSTANCE SessionContract WITH
              Orderly <- TRUE, phase <- Phase, busy <- Busy

\* The client keeps the session contract, and keeps it in order: it releases the
\* socket, the terminal and the SSL object only when no worker is in a round.
KeepsContract == Contract!Spec

\* The terminal is handed back as it was found: disable_raw runs after
\* enable_raw has saved the settings it restores, and when main returns the
\* terminal is not raw.
TerminalRestored ==
  /\ pc["main"] = "restore" => raw
  /\ pc["main"] \in {"ssl_off", "done"} => ~raw

\* Keys are read only once the printer is up: cmd_alive is raised by getOutput.
TypingFollowsPrinter ==
  pc["cmd"] \in {"type", "send", "spin"} =>
    pc["out"] \notin {"none", "check", "park", "parked", "announce"}

\* getOutput returns only after the session was switched off, so a live session
\* never lacks a printer: recv failing or ending is no reason to leave.
PrinterLastsWhileAlive == pc["out"] \in {"out_off", "gone"} => ~all_alive

\* Start-up reaches the point where the user can type, unless a start-up signal
\* fell between the waiter's check and its wait.
StartUpCompletes ==
  pc["main"] = "publish" ~> (raw \/ Ended \/ ~all_alive \/ missed)

\* A switched-off client ends, unless a signal fell between a waiter's check and
\* its wait, an SSL call goes on failing with a stale EAGAIN, or the client is still
\* in the handshake, which tests no flag.
ShutdownReachesEnd ==
  ~all_alive ~> \/ Ended \/ missed \/ pc["main"] = "tls"
                \/ \E t \in Workers : pc[t] = "spin"

\* "Press [ Ctrl + D ] to leave the shell!" (main.c:216): a user who typed it
\* does leave.
CtrlDLeaves == quit ~> Ended

=============================================================================
