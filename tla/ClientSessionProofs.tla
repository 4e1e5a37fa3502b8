------------------------- MODULE ClientSessionProofs -------------------------
(***************************************************************************)
(* What ClientSession's runs check on small instances, proved for every    *)
(* value of TLSModes and MaxSigints: type correctness, the terminal is     *)
(* handed back, a live session has a printer, keys wait for it, and the    *)
(* client keeps SessionContract in order.                                  *)
(***************************************************************************)
EXTENDS ClientSession, TLAPS

\* The labels of getOutput before it has raised cmd_alive, and before it has left
\* its wait.
NotAnnounced == {"none", "check", "park", "parked", "announce"}
NotReleased  == {"none", "check", "park", "parked"}

\* Whoever is past its first store of a switch-off has cleared all_alive, and
\* main passes its wait only after that; all_alive is never set again.
OffIsForGood ==
  /\ \A t \in Threads : handler[t] \in {1, 2} => ~all_alive
  /\ \A t \in Workers : pc[t] \in {"off_out", "off_cmd", "off_sig"} => ~all_alive
  /\ pc["main"] \in {"join_cmd", "join_out"} \cup CloseLabels => ~all_alive

\* A worker knows where to go on exactly while it is in cleanup().
OffReturns ==
  /\ \A t \in Workers : pc[t] \in OffLabels <=> after[t] # "none"
  /\ after["cmd"] # "recv"

\* Main creates each worker once, and takes nothing down before both are gone.
CreatedThenJoined ==
  /\ pc["main"] \in {"tls", "create_out"} => pc["out"] = "none"
  /\ pc["main"] \in SetupLabels => pc["cmd"] = "none"
  /\ pc["main"] \in {"join_out", "done"} \cup CloseLabels => pc["cmd"] = "gone"
  /\ pc["main"] \in {"done"} \cup CloseLabels => pc["out"] = "gone"

\* A printer that has left its wait did so with out_alive up, and finds it up for
\* as long as the session is.
PrinterHasFlag == all_alive /\ pc["out"] \notin NotReleased => out_alive

CmdAliveIsAnnounced == cmd_alive => pc["out"] \notin NotAnnounced

\* The terminal is raw from enable_raw until main restores it.
RawWhileTyping ==
  pc["cmd"] \in {"loop", "type", "send", "spin", "gone"} \cup OffLabels
    /\ pc["main"] \notin {"ssl_off", "done"} => raw

IInv == /\ TypeOK /\ OffIsForGood /\ OffReturns /\ CreatedThenJoined
        /\ PrinterHasFlag /\ PrinterLastsWhileAlive
        /\ CmdAliveIsAnnounced /\ TypingFollowsPrinter
        /\ RawWhileTyping /\ TerminalRestored

-----------------------------------------------------------------------------

\* The initial states satisfy the inductive invariant.
LEMMA InitIInv == Init => IInv
  <1> SUFFICES ASSUME Init PROVE IInv
    OBVIOUS
  <1> USE DEF Init, Threads, Workers, MainLabels, CmdLabels, OutLabels, SetupLabels,
              WaitLabels, OffLabels, CloseLabels
  <1>1. TypeOK
    <2>1. pc["main"] \in MainLabels /\ pc["cmd"] \in CmdLabels /\ pc["out"] \in OutLabels
      OBVIOUS
    <2>2. pc \in [Threads -> MainLabels \cup CmdLabels \cup OutLabels]
      BY <2>1
    <2>3. after \in [Workers -> {"none", "loop", "recv", "off_all", "gone"}]
      OBVIOUS
    <2>4. handler \in [Threads -> 0..3]
      OBVIOUS
    <2>5. sigints \in 0..MaxSigints
      BY MaxSigintsAssumption
    <2> QED
      BY <2>1, <2>2, <2>3, <2>4, <2>5 DEF TypeOK
  <1>2. OffIsForGood /\ OffReturns /\ CreatedThenJoined
    BY DEF OffIsForGood, OffReturns, CreatedThenJoined
  <1>3. PrinterHasFlag /\ PrinterLastsWhileAlive /\ CmdAliveIsAnnounced /\ TypingFollowsPrinter
    BY DEF PrinterHasFlag, PrinterLastsWhileAlive, CmdAliveIsAnnounced,
           TypingFollowsPrinter, NotAnnounced, NotReleased
  <1>4. RawWhileTyping /\ TerminalRestored
    BY DEF RawWhileTyping, TerminalRestored
  <1> QED
    BY <1>1, <1>2, <1>3, <1>4 DEF IInv

\* Every step preserves it.
LEMMA NextIInv == IInv /\ [Next]_vars => IInv'
  <1> SUFFICES ASSUME IInv, [Next]_vars
               PROVE  IInv'
    OBVIOUS
  <1> USE MaxSigintsAssumption
      DEF IInv, TypeOK, OffIsForGood, OffReturns, CreatedThenJoined, PrinterHasFlag,
          PrinterLastsWhileAlive, CmdAliveIsAnnounced, TypingFollowsPrinter,
          RawWhileTyping, TerminalRestored, NotAnnounced, NotReleased,
          Threads, Workers, MainLabels, CmdLabels, OutLabels, SetupLabels,
          WaitLabels, OffLabels, RoundLabels, IoLabels, SocketLabels, CloseLabels,
          flags, fds, user, Ended, At, Goto, Signal
  <1>1. CASE Handshake
    BY <1>1 DEF Handshake
  <1>2. CASE CreateWorkers
    BY <1>2 DEF CreateWorkers
  <1>3. CASE PublishOutput
    <2>1. CASE pc["main"] = "publish"
      BY <1>3, <2>1 DEF PublishOutput
    <2>2. CASE pc["main"] = "signal_out"
      BY <1>3, <2>2 DEF PublishOutput
    <2> QED
      BY <1>3, <2>1, <2>2 DEF PublishOutput
  <1>4. CASE AwaitExit
    BY <1>4 DEF AwaitExit
  <1>5. CASE JoinWorkers
    <2>1. CASE pc["main"] = "join_cmd"
      BY <1>5, <2>1 DEF JoinWorkers
    <2>2. CASE pc["main"] = "join_out"
      BY <1>5, <2>2 DEF JoinWorkers
    <2> QED
      BY <1>5, <2>1, <2>2 DEF JoinWorkers
  <1>6. CASE Teardown
    <2>0. raw' \in BOOLEAN
      BY <1>6, Zenon DEF Teardown
    <2>1. CASE pc["main"] = "close_sock"
      BY <2>0, <1>6, <2>1 DEF Teardown
    <2>2. CASE pc["main"] = "restore"
      BY <2>0, <1>6, <2>2 DEF Teardown
    <2>3. CASE pc["main"] = "ssl_off"
      BY <2>0, <1>6, <2>3 DEF Teardown
    <2> QED
      BY <1>6, <2>1, <2>2, <2>3 DEF Teardown
  <1>7. CASE AwaitOut
    BY <1>7 DEF AwaitOut
  <1>8. CASE Announce
    <2>1. CASE pc["out"] = "announce"
      BY <1>8, <2>1 DEF Announce
    <2>2. CASE pc["out"] = "signal_cmd"
      BY <1>8, <2>2 DEF Announce
    <2> QED
      BY <1>8, <2>1, <2>2 DEF Announce
  <1>9. CASE OutLoop
    <2>0. out_alive' \in BOOLEAN
      BY <1>9, Zenon DEF OutLoop
    <2>1. CASE pc["out"] = "loop"
      BY <2>0, <1>9, <2>1 DEF OutLoop
    <2>2. CASE pc["out"] = "out_off"
      BY <2>0, <1>9, <2>2 DEF OutLoop
    <2> QED
      BY <1>9, <2>1, <2>2 DEF OutLoop
  <1>10. CASE Receive
    BY <1>10 DEF Receive
  <1>11. CASE ReceiveFails
    BY <1>11 DEF ReceiveFails
  <1>12. CASE Show
    BY <1>12 DEF Show
  <1>13. CASE AwaitCmd
    BY <1>13 DEF AwaitCmd
  <1>14. CASE EnableRaw
    <2>0. raw' \in BOOLEAN
      BY <1>14, Zenon DEF EnableRaw
    <2>1. CASE Goto("cmd", "loop") /\ raw' = TRUE /\ UNCHANGED sock
      BY <2>0, <1>14, <2>1 DEF EnableRaw
    <2>2. CASE ProcessExit("aborted") /\ UNCHANGED raw
      BY <1>14, <2>2 DEF EnableRaw, ProcessExit
    <2> QED
      BY <1>14, <2>1, <2>2 DEF EnableRaw
  <1>15. CASE CmdLoop
    BY <1>15 DEF CmdLoop, CmdBreak
  <1>16. CASE Type
    BY <1>16 DEF Type
  <1>17. CASE Send
    BY <1>17 DEF Send, CmdBreak
  <1>18. CASE SendFails
    BY <1>18 DEF SendFails, CmdBreak
  <1>19. CASE SendPipe
    BY <1>19 DEF SendPipe, CmdBreak, Emergency
  <1>20. ASSUME NEW t \in Threads, Park(t) PROVE IInv'
    BY <1>20 DEF Park
  <1>21. ASSUME NEW t \in Workers, SslFatal(t) PROVE IInv'
    BY <1>21 DEF SslFatal, Emergency
  <1>29. ASSUME NEW t \in Workers, SpinStarts(t) PROVE IInv'
    BY <1>29 DEF SpinStarts
  <1>30. ASSUME NEW t \in Workers, SpinEnds(t) PROVE IInv'
    BY <1>30 DEF SpinEnds, CmdBreak, Emergency
  <1>22. ASSUME NEW t \in Workers, SwitchAllOff(t) PROVE IInv'
    <2>0. all_alive' \in BOOLEAN /\ out_alive' \in BOOLEAN /\ cmd_alive' \in BOOLEAN
      BY <1>22, Zenon DEF SwitchAllOff
    <2>1. CASE pc[t] = "off_all"
      BY <2>0, <1>22, <2>1 DEF SwitchAllOff
    <2>2. CASE pc[t] = "off_out"
      BY <2>0, <1>22, <2>2 DEF SwitchAllOff
    <2>3. CASE pc[t] = "off_cmd"
      BY <2>0, <1>22, <2>3 DEF SwitchAllOff
    <2>4. CASE pc[t] = "off_sig"
      BY <2>0, <1>22, <2>4 DEF SwitchAllOff
    <2> QED
      BY <1>22, <2>1, <2>2, <2>3, <2>4 DEF SwitchAllOff
  <1>23. ASSUME NEW t \in Threads, Sigint(t) PROVE IInv'
    BY <1>23 DEF Sigint, Emergency, Running
  <1>24. ASSUME NEW t \in Threads, SpuriousWakeup(t) PROVE IInv'
    BY <1>24 DEF SpuriousWakeup
  <1>25. ASSUME NEW t \in Threads, HandlerStore(t) PROVE IInv'
    <2>0. handler' \in [Threads -> 0..3] /\ handler[t] \in 1..3
      BY <1>25 DEF HandlerStore
    <2>1. CASE handler[t] = 3
      BY <2>0, <1>25, <2>1 DEF HandlerStore
    <2>2. CASE handler[t] = 2
      BY <2>0, <1>25, <2>2 DEF HandlerStore
    <2>3. CASE handler[t] = 1
      BY <2>0, <1>25, <2>3 DEF HandlerStore
    <2> QED
      BY <2>0, <2>1, <2>2, <2>3 DEF HandlerStore
  <1>26. CASE PeerLeaves
    BY <1>26 DEF PeerLeaves
  <1>27. CASE SslCrash
    BY <1>27 DEF SslCrash, ProcessExit
  <1>28. CASE UNCHANGED vars
    BY <1>28, SMTT(30) DEF vars
  <1> QED
    BY <1>1, <1>2, <1>3, <1>4, <1>5, <1>6, <1>7, <1>8, <1>9, <1>10,
       <1>11, <1>12, <1>13, <1>14, <1>15, <1>16, <1>17, <1>18, <1>19, <1>20,
       <1>21, <1>22, <1>23, <1>24, <1>25, <1>26, <1>27, <1>28, <1>29, <1>30
       DEF Next, MainStep, CmdStep, OutStep, Signals, Environment, Terminated

-----------------------------------------------------------------------------

\* Every step of the client is a step of SessionContract or leaves it alone.
LEMMA NextKeepsContract ==
  IInv /\ [Next]_vars => [Contract!Next]_(Contract!vars)
  <1> SUFFICES ASSUME IInv, [Next]_vars
               PROVE  [Contract!Next]_(Contract!vars)
    OBVIOUS
  <1> USE DEF IInv, TypeOK, OffIsForGood, OffReturns, CreatedThenJoined, Phase, Busy, Ended,
          Contract!vars, Contract!StartRound, Contract!EndRound, Contract!Stop,
          Contract!Release, Contract!End,
          Threads, Workers, MainLabels, CmdLabels, OutLabels, SetupLabels,
          WaitLabels, OffLabels, RoundLabels, IoLabels, SocketLabels, CloseLabels,
          flags, fds, user, At, Goto, Signal
  <1>1. ASSUME Handshake PROVE UNCHANGED Contract!vars
    BY <1>1 DEF Handshake
  <1>2. ASSUME CreateWorkers PROVE UNCHANGED Contract!vars
    BY <1>2 DEF CreateWorkers
  <1>3. ASSUME PublishOutput PROVE UNCHANGED Contract!vars
    BY <1>3 DEF PublishOutput
  <1>4. ASSUME AwaitExit PROVE UNCHANGED Contract!vars
    BY <1>4 DEF AwaitExit
  <1>5. ASSUME JoinWorkers PROVE Contract!Release \/ UNCHANGED Contract!vars
    BY <1>5 DEF JoinWorkers
  <1>6. ASSUME Teardown PROVE Contract!End \/ UNCHANGED Contract!vars
    BY <1>6 DEF Teardown
  <1>7. ASSUME AwaitOut PROVE UNCHANGED Contract!vars
    BY <1>7 DEF AwaitOut
  <1>8. ASSUME Announce PROVE UNCHANGED Contract!vars
    BY <1>8 DEF Announce
  <1>9. ASSUME OutLoop PROVE Contract!StartRound("out") \/ UNCHANGED Contract!vars
    BY <1>9 DEF OutLoop
  <1>10. ASSUME Receive PROVE UNCHANGED Contract!vars
    BY <1>10 DEF Receive
  <1>11. ASSUME ReceiveFails PROVE Contract!EndRound("out") \/ UNCHANGED Contract!vars
    BY <1>11 DEF ReceiveFails
  <1>12. ASSUME Show PROVE Contract!EndRound("out") \/ UNCHANGED Contract!vars
    BY <1>12 DEF Show
  <1>13. ASSUME AwaitCmd PROVE UNCHANGED Contract!vars
    BY <1>13 DEF AwaitCmd
  <1>14. ASSUME EnableRaw PROVE Contract!End \/ UNCHANGED Contract!vars
    BY <1>14 DEF EnableRaw, ProcessExit
  <1>15. ASSUME CmdLoop PROVE Contract!StartRound("cmd") \/ UNCHANGED Contract!vars
    BY <1>15 DEF CmdLoop, CmdBreak
  <1>16. ASSUME Type PROVE Contract!EndRound("cmd") \/ UNCHANGED Contract!vars
    BY <1>16 DEF Type
  <1>17. ASSUME Send PROVE Contract!EndRound("cmd") \/ UNCHANGED Contract!vars
    BY <1>17 DEF Send, CmdBreak
  <1>18. ASSUME SendFails PROVE Contract!EndRound("cmd") \/ UNCHANGED Contract!vars
    BY <1>18 DEF SendFails, CmdBreak
  <1>19. ASSUME SendPipe PROVE Contract!EndRound("cmd") \/ UNCHANGED Contract!vars
    BY <1>19 DEF SendPipe, CmdBreak, Emergency
  <1>20. ASSUME NEW t \in Threads, Park(t) PROVE UNCHANGED Contract!vars
    BY <1>20 DEF Park
  <1>21. ASSUME NEW t \in Workers, SslFatal(t) PROVE Contract!EndRound(t) \/ UNCHANGED Contract!vars
    BY <1>21 DEF SslFatal, Emergency
  <1>29. ASSUME NEW t \in Workers, SpinStarts(t) PROVE UNCHANGED Contract!vars
    BY <1>29 DEF SpinStarts
  <1>30. ASSUME NEW t \in Workers, SpinEnds(t) PROVE Contract!EndRound(t) \/ UNCHANGED Contract!vars
    BY <1>30 DEF SpinEnds, CmdBreak, Emergency
  <1>22. ASSUME NEW t \in Workers, SwitchAllOff(t) PROVE Contract!Stop \/ UNCHANGED Contract!vars
    BY <1>22 DEF SwitchAllOff
  <1>23. ASSUME NEW t \in Threads, Sigint(t) PROVE Contract!EndRound(t) \/ UNCHANGED Contract!vars
    BY <1>23 DEF Sigint, Emergency, Running
  <1>24. ASSUME NEW t \in Threads, SpuriousWakeup(t) PROVE UNCHANGED Contract!vars
    BY <1>24 DEF SpuriousWakeup
  <1>25. ASSUME NEW t \in Threads, HandlerStore(t) PROVE Contract!Stop \/ UNCHANGED Contract!vars
    BY <1>25 DEF HandlerStore
  <1>26. ASSUME PeerLeaves PROVE UNCHANGED Contract!vars
    BY <1>26 DEF PeerLeaves
  <1>27. ASSUME SslCrash PROVE Contract!End \/ UNCHANGED Contract!vars
    BY <1>27 DEF SslCrash, ProcessExit
  <1>28. ASSUME UNCHANGED vars PROVE UNCHANGED Contract!vars
    BY <1>28 DEF vars
  <1> QED
    BY <1>1, <1>2, <1>3, <1>4, <1>5, <1>6, <1>7, <1>8, <1>9, <1>10,
       <1>11, <1>12, <1>13, <1>14, <1>15, <1>16, <1>17, <1>18, <1>19, <1>20,
       <1>21, <1>22, <1>23, <1>24, <1>25, <1>26, <1>27, <1>28, <1>29, <1>30
       DEF Next, MainStep, CmdStep, OutStep, Signals, Environment, Terminated, Contract!Next

-----------------------------------------------------------------------------

\* Every reachable state satisfies the inductive invariant.
LEMMA Invariance == Spec => []IInv
  BY InitIInv, NextIInv, PTL DEF Spec

\* Every variable keeps its type, in particular a worker only ever stands at a
\* label of its own thread function, whatever wakes, interrupts or fails it.
THEOREM TypeCorrect == Spec => []TypeOK
  BY Invariance, PTL DEF IInv

\* cleanup_crew restores settings that enable_raw has saved, and main returns
\* with a terminal that is not raw (client/main.c:171), for any interleaving.
THEOREM TerminalHandedBack == Spec => []TerminalRestored
  BY Invariance, PTL DEF IInv

\* getOutput leaves (client/main.c:203) only in a session that is switched off.
THEOREM PrinterLasts == Spec => []PrinterLastsWhileAlive
  BY Invariance, PTL DEF IInv

\* command_line_thread reads keys only after getOutput has raised cmd_alive.
THEOREM TypingWaitsForPrinter == Spec => []TypingFollowsPrinter
  BY Invariance, PTL DEF IInv

\* The client implements the session contract in its orderly form: the socket,
\* the terminal and the SSL object are released with no round of I/O under way.
THEOREM ClientKeepsContract == Spec => KeepsContract
  <1>1. Init => Contract!Init
    BY DEF Init, Contract!Init, Phase, Busy, Ended, CloseLabels, RoundLabels, IoLabels,
           SocketLabels, Threads, Workers
  <1> QED
    BY <1>1, Invariance, NextKeepsContract, PTL DEF Spec, KeepsContract, Contract!Spec

=============================================================================
