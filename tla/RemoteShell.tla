------------------------------ MODULE RemoteShell ------------------------------
(***************************************************************************)
(* A client and the server session it is connected to, with the TCP        *)
(* connection, the handshake and the shell between them.  ServerSession    *)
(* and ClientSession each take the other end for an environment that may   *)
(* leave at any time; here one end's leaving is the other end's event.     *)
(*                                                                         *)
(* What those modules show of the inside of an end is taken as one step:   *)
(* a switch-off is one store of all_alive and is always noticed (they show *)
(* that only a lost wakeup or a spinning SSL call prevents it), a worker   *)
(* is the frame it holds, and main is where its process is.                *)
(*                                                                         *)
(* Each program is told by its own command line whether to use TLS, so the *)
(* two need not agree.                                                     *)
(***************************************************************************)
EXTENDS Naturals, Sequences

CONSTANTS
  TLSModes,   \* the values of will_use_tls either program may be started with
  Room        \* frames that fit on the way in either direction

ASSUME TLSModesAssumption == TLSModes \subseteq BOOLEAN
ASSUME RoomAssumption == Room \in Nat \ {0}

VARIABLES
  mode,     \* client, server: their will_use_tls; known: does the client's certificate
            \* satisfy the server?  What the client thinks of the server's is open.
  cli,      \* the client's main: "tls" in the handshake, "up", "ended"
  c_alive,  \* its all_alive
  cssl,     \* client_ssl: "none", "wait" in the handshake, "live", "null"
  key,      \* what command_line_thread holds: "none", "text", or "eot" (Ctrl+D)
  srv,      \* the server's main: "tls", "start", "up", "ended"
  s_alive, sssl,
  cmd,      \* command_prompt_thread: "recv", or the frame it holds, or "gone"
  out,      \* writeOutput: "read", "send", or "gone"
  shell,    \* "none", "running", "jobs" (gone, leaving jobs behind), "gone"
  up, down,         \* frames on their way to the server, to the client
  creset, sreset    \* has this end learnt that the connection is reset?

vars == <<mode, cli, c_alive, cssl, key, srv, s_alive, sssl, cmd, out, shell,
          up, down, creset, sreset>>
client == <<cli, c_alive, cssl, key>>
server == <<srv, s_alive, sssl, cmd, out>>

\* What the client puts on the wire, and the server; "fin" is the end of a stream.
UpFrames   == {"hello", "finish", "alert", "text", "eot", "fin"}
DownFrames == {"flight", "alert", "chunk", "notify", "fin"}

TypeOK ==
  /\ mode \in [client : TLSModes, server : TLSModes, known : BOOLEAN]
  /\ cli \in {"tls", "up", "ended"} /\ c_alive \in BOOLEAN
  /\ cssl \in {"none", "wait", "live", "null"} /\ key \in {"none", "text", "eot"}
  /\ srv \in {"tls", "start", "up", "ended"} /\ s_alive \in BOOLEAN
  /\ sssl \in {"none", "wait", "live", "null"}
  /\ cmd \in {"recv", "text", "eot", "junk", "empty", "gone"}
  /\ out \in {"read", "send", "gone"}
  /\ shell \in {"none", "running", "jobs", "gone"}
  /\ up \in Seq(UpFrames) /\ down \in Seq(DownFrames)
  /\ Len(up) <= Room + 1 /\ Len(down) <= Room + 2
  /\ creset \in BOOLEAN /\ sreset \in BOOLEAN

\* The connection is made and the server has forked.
Init ==
  /\ mode \in [client : TLSModes, server : TLSModes, known : BOOLEAN]
  /\ cli = (IF mode.client THEN "tls" ELSE "up") /\ c_alive = TRUE
  /\ cssl = "none" /\ key = "none"
  /\ srv = (IF mode.server THEN "tls" ELSE "start") /\ s_alive = TRUE
  /\ sssl = "none" /\ cmd = "recv" /\ out = "read"
  /\ shell = "none"
  /\ up = <<>> /\ down = <<>> /\ creset = FALSE /\ sreset = FALSE

-----------------------------------------------------------------------------
(* The connection. *)

\* Every process with a copy of the server's socket: the session, and the shell
\* and its jobs, which inherited it.
ServerHolds == srv # "ended" \/ shell \in {"running", "jobs"}

\* What is sent to an end that is closed comes back as a reset.
SendUp(f) ==
  /\ ~creset
  /\ \/ ServerHolds /\ Len(up) < Room /\ up' = Append(up, f) /\ UNCHANGED creset
     \/ ~ServerHolds /\ creset' = TRUE /\ UNCHANGED up

SendDown(f) ==
  /\ ~sreset
  /\ \/ cli # "ended" /\ Len(down) < Room /\ down' = Append(down, f) /\ UNCHANGED sreset
     \/ cli = "ended" /\ sreset' = TRUE /\ UNCHANGED down

Arrived(q, frames) == q # <<>> /\ Head(q) \in frames

\* The frame at the head is taken out; the end of the stream stays.
Take(q) == IF Head(q) = "fin" THEN q ELSE Tail(q)

\* The client's socket closes.  What it has not read makes the close a reset.
CloseClient ==
  IF Arrived(down, DownFrames \ {"fin"})
  THEN sreset' = TRUE /\ UNCHANGED up
  ELSE up' = Append(up, "fin") /\ UNCHANGED sreset

\* The last copy of the server's socket closes, after the frames in last.
CloseServer(last) ==
  IF Arrived(up, UpFrames \ {"fin"})
  THEN creset' = TRUE /\ UNCHANGED down
  ELSE down' = down \o last \o <<"fin">> /\ UNCHANGED creset

-----------------------------------------------------------------------------
(* The client. *)

\* The first SSL_connect.
ClientHello ==
  /\ cli = "tls" /\ cssl = "none"
  /\ SendUp("hello") /\ cssl' = "wait"
  /\ UNCHANGED <<mode, cli, c_alive, key, server, shell, down, sreset>>

\* SSL_connect succeeds as soon as the client has sent its part: it does not know
\* yet what the server thinks of it.  Or it refuses the server's certificate.
ClientFinishes ==
  /\ cli = "tls" /\ cssl = "wait" /\ Arrived(down, {"flight"})
  /\ \/ SendUp("finish") /\ cssl' = "live"
     \/ SendUp("alert") /\ cssl' = "null"
  /\ cli' = "up" /\ down' = Tail(down)
  /\ UNCHANGED <<mode, c_alive, key, server, shell, sreset>>

ClientHandshakeFails ==
  /\ cli = "tls"
  /\ \/ creset /\ UNCHANGED down
     \/ Arrived(down, DownFrames \ {"flight"}) /\ down' = Take(down)
  /\ cli' = "up" /\ cssl' = "null"
  /\ UNCHANGED <<mode, c_alive, key, server, shell, up, creset, sreset>>

\* readsome(STDIN).
Type ==
  /\ cli = "up" /\ c_alive /\ key = "none"
  /\ key' \in {"text", "eot"}
  /\ UNCHANGED <<mode, cli, c_alive, cssl, server, shell, up, down, creset, sreset>>

ClientNoSsl == mode.client /\ cssl = "null"

\* sendsome or sendsome_ssl; Ctrl+D is sent like any key and then ends the loop.
SendKeys ==
  /\ cli = "up" /\ key # "none" /\ ~ClientNoSsl
  /\ SendUp(key) /\ key' = "none"
  /\ c_alive' = (c_alive /\ key # "eot")
  /\ UNCHANGED <<mode, cli, cssl, server, shell, down, sreset>>

\* Mutant: a failed send is no reason to leave.
SendKeysIgnored ==
  /\ cli = "up" /\ key # "none"
  /\ ClientNoSsl \/ creset \/ Len(up) >= Room
  /\ key' = "none" /\ UNCHANGED c_alive
  /\ UNCHANGED <<mode, cli, cssl, server, shell, up, down, creset, sreset>>

\* -2 or -1, or SIGPIPE: the client is switched off.
SendKeysFails ==
  /\ cli = "up" /\ key # "none"
  /\ ClientNoSsl \/ creset \/ Len(up) >= Room
  /\ key' = "none" /\ c_alive' = FALSE
  /\ UNCHANGED <<mode, cli, cssl, server, shell, up, down, creset, sreset>>

\* getOutput takes what there is.  The end of the stream, a close_notify and a
\* failed recv leave it where it is; an alert makes SSL_read fail for good.
PrintOutput ==
  /\ cli = "up" /\ c_alive /\ ~ClientNoSsl
  /\ Arrived(down, {"chunk", "flight", "alert"}) /\ down' = Tail(down)
  /\ c_alive' = ~(mode.client /\ Head(down) = "alert")
  /\ UNCHANGED <<mode, cli, cssl, key, server, shell, up, creset, sreset>>

\* cleanup_crew, once both workers have returned.  The socket is closed before
\* SSL_shutdown, so no close_notify reaches the server.
ClientEnds ==
  /\ cli = "up" /\ ~c_alive /\ key = "none"
  /\ cli' = "ended" /\ CloseClient
  /\ UNCHANGED <<mode, c_alive, cssl, key, server, shell, down, creset>>

-----------------------------------------------------------------------------
(* The server session. *)

\* SSL_accept takes the hello and answers.
ServerHello ==
  /\ srv = "tls" /\ sssl = "none" /\ Arrived(up, {"hello"})
  /\ up' = Tail(up) /\ SendDown("flight") /\ sssl' = "wait"
  /\ UNCHANGED <<mode, client, srv, s_alive, cmd, out, shell, creset>>

\* Mutant: a client without a certificate is let in (no FAIL_IF_NO_PEER_CERT).
ServerTakesAnyone ==
  /\ srv = "tls" /\ sssl = "wait" /\ Arrived(up, {"finish"})
  /\ up' = Tail(up) /\ srv' = "start"
  /\ sssl' = "live" /\ UNCHANGED <<down, sreset>>
  /\ UNCHANGED <<mode, client, s_alive, cmd, out, shell, creset>>

\* SSL_accept succeeds, or refuses the client's certificate and says so.
ServerFinishes ==
  /\ srv = "tls" /\ sssl = "wait" /\ Arrived(up, {"finish"})
  /\ up' = Tail(up) /\ srv' = "start"
  /\ IF mode.known THEN sssl' = "live" /\ UNCHANGED <<down, sreset>>
                   ELSE sssl' = "null" /\ SendDown("alert")
  /\ UNCHANGED <<mode, client, s_alive, cmd, out, shell, creset>>

\* Mutant: a real failure is tried again like a want-read.
ServerHandshakeRetries ==
  /\ srv = "tls"
  /\ \/ sreset /\ UNCHANGED up
     \/ Arrived(up, UpFrames \ {"hello", "finish"}) /\ up' = Take(up)
  /\ UNCHANGED <<mode, client, server, shell, down, creset, sreset>>

\* A real failure is not reported: do_connection goes on with a NULL SSL.
ServerHandshakeFails ==
  /\ srv = "tls"
  /\ \/ sreset /\ UNCHANGED up
     \/ Arrived(up, UpFrames \ {"hello", "finish"}) /\ up' = Take(up)
  /\ srv' = "start" /\ sssl' = "null"
  /\ UNCHANGED <<mode, client, s_alive, cmd, out, shell, down, creset, sreset>>

\* openpty and fork; either failure ends the process.
Spawn ==
  /\ srv = "start"
  /\ \/ srv' = "up" /\ shell' = "running" /\ UNCHANGED <<down, creset>>
     \/ srv' = "ended" /\ UNCHANGED shell /\ CloseServer(<<>>)
  /\ UNCHANGED <<mode, client, s_alive, sssl, cmd, out, up, sreset>>

ServerNoSsl == mode.server /\ sssl = "null"

\* A frame, which for a plaintext server may be a piece of a handshake; or 0 at the
\* end of the stream, taken for an empty command.
Receive ==
  /\ srv = "up" /\ cmd = "recv" /\ ~ServerNoSsl
  /\ \/ /\ Arrived(up, UpFrames \ {"fin"}) /\ up' = Tail(up)
        /\ cmd' = IF Head(up) \in {"text", "eot"} THEN Head(up) ELSE "junk"
     \/ (Arrived(up, {"fin"}) \/ sreset) /\ cmd' = "empty" /\ UNCHANGED up
  /\ UNCHANGED <<mode, client, srv, s_alive, sssl, out, shell, down, creset, sreset>>

\* Mutant: a time-out is no reason to stop.
ReceiveAgain ==
  /\ srv = "up" /\ cmd = "recv"
  /\ ServerNoSsl \/ up = <<>> \/ sreset \/ Arrived(up, {"fin"})
  /\ IF ServerNoSsl \/ up = <<>> THEN UNCHANGED <<s_alive, cmd>>
                                 ELSE s_alive' = FALSE /\ cmd' = "gone"
  /\ UNCHANGED <<mode, client, srv, sssl, out, shell, up, down, creset, sreset>>

\* -2 when nothing comes in time, as on a NULL SSL; -1 on a reset, and under TLS
\* when the stream ends without a close_notify.
ReceiveFails ==
  /\ srv = "up" /\ cmd = "recv"
  /\ ServerNoSsl \/ up = <<>> \/ sreset \/ (mode.server /\ Arrived(up, {"fin"}))
  /\ s_alive' = FALSE /\ cmd' = "gone"
  /\ UNCHANGED <<mode, client, srv, sssl, out, shell, up, down, creset, sreset>>

\* Mutant: the result of writesome is not looked at.
WriteToShellBlindly ==
  /\ srv = "up" /\ cmd \notin {"recv", "gone"}
  /\ cmd' = "recv" /\ UNCHANGED <<s_alive, shell>>
  /\ UNCHANGED <<mode, client, srv, sssl, out, up, down, creset, sreset>>

\* writesome(master_fd), which fails once nobody holds the slave.  A shell at its
\* prompt exits on Ctrl+D.
WriteToShell ==
  /\ srv = "up" /\ cmd \notin {"recv", "gone"}
  /\ \/ /\ shell # "gone" /\ cmd' = (IF s_alive THEN "recv" ELSE "gone") /\ UNCHANGED s_alive
        /\ shell' \in IF cmd = "eot" /\ shell = "running" THEN {"running", "jobs", "gone"}
                                                          ELSE {shell}
     \/ cmd' = "gone" /\ s_alive' = FALSE /\ UNCHANGED shell
  /\ UNCHANGED <<mode, client, srv, sssl, out, up, down, creset, sreset>>

\* readsome(master_fd).
ReadFromShell ==
  /\ srv = "up" /\ s_alive /\ out = "read" /\ shell \in {"running", "jobs"}
  /\ out' = "send"
  /\ UNCHANGED <<mode, client, srv, s_alive, sssl, cmd, shell, up, down, creset, sreset>>

\* Sent, or dropped when there is no room in time or no SSL.
SendChunk ==
  /\ srv = "up" /\ out = "send" /\ out' = "read"
  /\ \/ ~ServerNoSsl /\ SendDown("chunk")
     \/ (ServerNoSsl \/ Len(down) >= Room) /\ UNCHANGED <<down, sreset>>
  /\ UNCHANGED <<mode, client, srv, s_alive, sssl, cmd, shell, up, creset>>

\* The connection is reset: the thread leaves, with or without a SIGPIPE that
\* switches the session off.
SendChunkFails ==
  /\ srv = "up" /\ out = "send" /\ sreset /\ out' = "gone"
  /\ s_alive' \in {s_alive, FALSE}
  /\ UNCHANGED <<mode, client, srv, sssl, cmd, shell, up, down, creset, sreset>>

\* Mutant: the cleanup is run again by the exit it ends in.
ServerEndsAgain ==
  /\ srv \in {"up", "ended"} /\ ~s_alive
  /\ srv' = "ended" /\ cmd' = "gone" /\ out' = "gone"
  /\ LET last == IF sssl = "live" /\ ~sreset /\ cli # "ended" THEN <<"notify">> ELSE <<>>
     IN IF shell = "gone" THEN CloseServer(last)
                          ELSE down' = down \o last /\ UNCHANGED creset
  /\ UNCHANGED <<mode, client, s_alive, sssl, shell, up, sreset>>

\* cleanup_crew_client, which may not wait for its workers, and exit.  SSL_shutdown
\* says goodbye before the socket closes, which it does only if no shell and no
\* job holds it.
ServerEnds ==
  /\ srv = "up" /\ ~s_alive
  /\ srv' = "ended" /\ cmd' = "gone" /\ out' = "gone"
  /\ LET last == IF sssl = "live" /\ ~sreset /\ cli # "ended" THEN <<"notify">> ELSE <<>>
     IN IF shell = "gone" THEN CloseServer(last)
                          ELSE down' = down \o last /\ UNCHANGED creset
  /\ UNCHANGED <<mode, client, s_alive, sssl, shell, up, sreset>>

-----------------------------------------------------------------------------
(* The shell, signals and undefined behaviour. *)

\* The shell exits, for one because its terminal has hung up; its jobs end.
ShellEnds ==
  /\ \/ shell = "running" /\ shell' \in {"jobs", "gone"}
     \/ shell = "jobs" /\ shell' = "gone"
  /\ IF srv = "ended" /\ shell' = "gone" THEN CloseServer(<<>>) ELSE UNCHANGED <<down, creset>>
  /\ UNCHANGED <<mode, client, server, up, sreset>>

HangUp == srv = "ended" /\ shell = "running" /\ ShellEnds

\* SIGINT, SIGCHLD, or an SSL call that fails for good, at either end.
SwitchedOff ==
  /\ \/ cli # "ended" /\ c_alive /\ c_alive' = FALSE /\ UNCHANGED s_alive
     \/ srv = "up" /\ s_alive /\ s_alive' = FALSE /\ UNCHANGED c_alive
  /\ UNCHANGED <<mode, cli, cssl, key, srv, sssl, cmd, out, shell, up, down, creset, sreset>>

\* Undefined behaviour of a shared or missing SSL object ends a process.
SslCrash ==
  /\ \/ /\ mode.client /\ cli = "up" /\ cli' = "ended" /\ CloseClient
        /\ UNCHANGED <<srv, cmd, out, down, creset>>
     \/ /\ mode.server /\ srv = "up" /\ srv' = "ended" /\ cmd' = "gone" /\ out' = "gone"
        /\ IF shell = "gone" THEN CloseServer(<<>>) ELSE UNCHANGED <<down, creset>>
        /\ UNCHANGED <<cli, up, sreset>>
  /\ UNCHANGED <<mode, c_alive, cssl, key, s_alive, sssl, shell>>

\* Both processes have ended and the shell with them.
Terminated == cli = "ended" /\ srv = "ended" /\ shell \in {"none", "gone"} /\ UNCHANGED vars

-----------------------------------------------------------------------------

ClientStep == \/ ClientHello \/ ClientFinishes \/ ClientHandshakeFails
              \/ SendKeys \/ SendKeysFails \/ ClientEnds
MainStep   == ServerHello \/ ServerFinishes \/ ServerHandshakeFails \/ Spawn \/ ServerEnds
CmdStep    == Receive \/ ReceiveFails \/ WriteToShell
OutStep    == SendChunk \/ SendChunkFails

Next == \/ ClientStep \/ PrintOutput \/ Type
        \/ MainStep \/ CmdStep \/ OutStep \/ ReadFromShell
        \/ ShellEnds \/ SwitchedOff \/ SslCrash
        \/ Terminated

Spec == Init /\ [][Next]_vars

\* Both processes run, every select of a worker has a time-out, and a shell whose
\* terminal hangs up goes.  Nobody has to type, to print, or to be killed.
FairSpec == /\ Spec
            /\ WF_vars(ClientStep) /\ WF_vars(PrintOutput)
            /\ WF_vars(MainStep) /\ WF_vars(CmdStep) /\ WF_vars(OutStep)
            /\ WF_vars(HangUp)

-----------------------------------------------------------------------------
(* Properties. *)

\* A TLS server passes on the commands of a client whose certificate it knows, and
\* nobody else's: not those of a client it has refused, which thinks the handshake
\* succeeded, nor those of one that speaks plaintext.
OnlyKnownClientsCommand ==
  mode.server /\ cmd \in {"text", "eot", "junk"} => mode.known /\ mode.client /\ sssl = "live"

\* The handshake's select times out and nobody acts on it (openssl_stuff.c:90), so
\* it lasts as long as the other end is silent.  Two ends that both use TLS always
\* get out of it, whatever they think of each other's certificates and although the
\* client is through before the server has seen it.
HandshakeSettles ==
  mode.client /\ mode.server ~> cli # "tls" /\ srv # "tls"

\* do_connection is not told of a failed handshake, yet the session it goes on to
\* set up, shell and all, does not last.
RefusedSessionEnds == sssl = "null" ~> srv = "ended"

\* When the client has ended and nobody holds the pty, the session ends, however the
\* client went: an end of stream, a reset, or an end of stream in a handshake.
ClientsEndIsNoticed == cli = "ended" /\ shell = "gone" ~> srv = "ended"

\* A client whose server has gone stays as long as nobody types.  A user who goes on
\* typing gets out, even if a job holds the connection open.
TypistLeaves ==
  WF_vars(Type) => (srv = "ended" /\ cli = "up" ~> cli = "ended")

=============================================================================
