------------------------- MODULE ServerSessionProofs -------------------------
(***************************************************************************)
(* What ServerSession's runs check on two instances, proved for every      *)
(* value of TLSModes and of the bounds: type correctness, the two hand-over   *)
(* invariants of the start-up, and that a session keeps SessionContract.   *)
(***************************************************************************)
EXTENDS ServerSession, TLAPS

\* Whoever is past its first store of a switch-off has cleared all_alive, and
\* main takes the session down only after that; all_alive is never set again.
OffIsForGood ==
  /\ \A t \in Threads : handler[t] \in {1, 2} => ~all_alive
  /\ \A t \in Workers : pc[t] \in {"off_out", "off_cmd", "off_sig"} => ~all_alive
  /\ pc["main"] \in ReapLabels \cup CloseLabels => ~all_alive

\* A worker in switch_all_off knows where to go on.
OffReturns == \A t \in Workers : pc[t] \in OffLabels => after[t] # "none"

\* Main creates each worker once, the output thread last, which finds out_alive up
\* unless the session has been switched off meanwhile.
OutputCreatedLast ==
  /\ pc["main"] \in SetupLabels \ {"install"} => pc["cmd"] = "none"
  /\ pc["main"] \in SetupLabels \cup {"publish", "create_out"} => pc["out"] = "none"
  /\ pc["main"] = "create_out" /\ all_alive => out_alive
  /\ pc["out"] # "none" /\ all_alive => out_alive

\* The labels of writeOutput before it has raised cmd_alive.
NotAnnounced == {"none", "check", "park", "parked", "announce"}

CmdAliveIsAnnounced == cmd_alive => pc["out"] \notin NotAnnounced

IInv == /\ TypeOK /\ OffIsForGood /\ OffReturns /\ OutputCreatedLast
        /\ OutputNeverParks /\ CmdAliveIsAnnounced /\ CommandsFollowOutput

-----------------------------------------------------------------------------

\* The initial states satisfy the inductive invariant.
LEMMA InitIInv == Init => IInv
  <1> SUFFICES ASSUME Init PROVE IInv
    OBVIOUS
  <1> USE DEF Init, Threads, Workers, MainLabels, CmdLabels, OutLabels, SetupLabels,
              WaitLabels, OffLabels, ReapLabels, CloseLabels
  <1>1. TypeOK
    <2>1. pc["main"] \in MainLabels /\ pc["cmd"] \in CmdLabels /\ pc["out"] \in OutLabels
      OBVIOUS
    <2>2. pc \in [Threads -> MainLabels \cup CmdLabels \cup OutLabels]
      BY <2>1
    <2>3. after \in [Workers -> {"none", "loop", "off_all", "gone"}]
      OBVIOUS
    <2>4. handler \in [Threads -> 0..3]
      OBVIOUS
    <2>5. sigints \in Nat
      OBVIOUS
    <2> QED
      BY <2>1, <2>2, <2>3, <2>4, <2>5 DEF TypeOK
  <1>2. OffIsForGood /\ OffReturns /\ OutputCreatedLast
    BY DEF OffIsForGood, OffReturns, OutputCreatedLast
  <1>3. OutputNeverParks /\ CmdAliveIsAnnounced /\ CommandsFollowOutput
    BY DEF OutputNeverParks, CmdAliveIsAnnounced, CommandsFollowOutput
  <1> QED
    BY <1>1, <1>2, <1>3 DEF IInv

\* Every step preserves it.
LEMMA NextIInv == IInv /\ [Next]_vars => IInv'
  <1> SUFFICES ASSUME IInv, [Next]_vars
               PROVE  IInv'
    OBVIOUS
  <1> USE DEF IInv, TypeOK, OffIsForGood, OffReturns, OutputCreatedLast, OutputNeverParks,
          CmdAliveIsAnnounced, CommandsFollowOutput, NotAnnounced,
          Threads, Workers, MainLabels, CmdLabels, OutLabels, SetupLabels,
            WaitLabels, OffLabels, IoLabels, SocketLabels, PtyLabels, ReapLabels, CloseLabels,
          flags, fds, env, At, Goto, Signal
  <1>1. CASE Handshake
    BY <1>1 DEF Handshake
  <1>2. CASE OpenPty
    BY <1>2 DEF OpenPty, ProcessExit
  <1>3. CASE SpawnShell
    BY <1>3 DEF SpawnShell, ProcessExit
  <1>4. CASE CreateCmd
    BY <1>4 DEF CreateCmd
  <1>5. CASE InstallHandlers
    BY <1>5 DEF InstallHandlers
  <1>6. CASE PublishOutput
    BY <1>6 DEF PublishOutput
  <1>7. CASE CreateOut
    BY <1>7 DEF CreateOut
  <1>8. CASE AwaitExit
    BY <1>8 DEF AwaitExit
  <1>9. CASE ReapShell
    BY <1>9 DEF ReapShell
  <1>10. CASE JoinWorkers
    BY <1>10 DEF JoinWorkers, AfterJoins
  <1>11. CASE Teardown
    BY <1>11 DEF Teardown, ProcessExit
  <1>12. CASE AwaitCmd
    BY <1>12 DEF AwaitCmd
  <1>13. CASE CmdLoop
    BY <1>13 DEF CmdLoop, CmdBreak
  <1>14. CASE Receive
    BY <1>14 DEF Receive
  <1>15. CASE ReceiveFails
    BY <1>15 DEF ReceiveFails, CmdBreak
  <1>16. CASE WriteToShell
    BY <1>16 DEF WriteToShell, CmdBreak
  <1>17. CASE AwaitOut
    BY <1>17 DEF AwaitOut
  <1>18. CASE Announce
    <2>1. CASE pc["out"] = "announce"
      BY <1>18, <2>1 DEF Announce
    <2>2. CASE pc["out"] = "signal_cmd"
      BY <1>18, <2>2 DEF Announce
    <2> QED
      BY <1>18, <2>1, <2>2 DEF Announce
  <1>19. CASE OutLoop
    BY <1>19 DEF OutLoop
  <1>20. CASE ReadFromShell
    BY <1>20 DEF ReadFromShell
  <1>21. CASE Send
    BY <1>21 DEF Send
  <1>22. CASE SendFails
    BY <1>22 DEF SendFails
  <1>23. CASE SendPipe
    BY <1>23 DEF SendPipe, Emergency, OnError
  <1>24. ASSUME NEW t \in Threads, Park(t) PROVE IInv'
    BY <1>24 DEF Park
  <1>25. ASSUME NEW t \in Workers, IoFatal(t) PROVE IInv'
    BY <1>25 DEF IoFatal, Emergency, OnError
  <1>35. ASSUME NEW t \in Workers, SpinStarts(t) PROVE IInv'
    BY <1>35 DEF SpinStarts
  <1>36. ASSUME NEW t \in Workers, SpinEnds(t) PROVE IInv'
    BY <1>36 DEF SpinEnds, CmdBreak, Emergency, OnError
  <1>26. ASSUME NEW t \in Workers, SwitchAllOff(t) PROVE IInv'
    <2>0. all_alive' \in BOOLEAN /\ out_alive' \in BOOLEAN /\ cmd_alive' \in BOOLEAN
      BY <1>26, Zenon DEF SwitchAllOff
    <2>1. CASE pc[t] = "off_all"
      BY <2>0, <1>26, <2>1 DEF SwitchAllOff
    <2>2. CASE pc[t] = "off_out"
      BY <2>0, <1>26, <2>2 DEF SwitchAllOff
    <2>3. CASE pc[t] = "off_cmd"
      BY <2>0, <1>26, <2>3 DEF SwitchAllOff
    <2>4. CASE pc[t] = "off_sig"
      BY <1>26, <2>4 DEF SwitchAllOff
    <2> QED
      BY <1>26, <2>1, <2>2, <2>3, <2>4 DEF SwitchAllOff
  <1>27. ASSUME NEW t \in Threads, Sigint(t) PROVE IInv'
    BY <1>27 DEF Sigint, Interrupted, Emergency, OnError, Running
  <1>28. ASSUME NEW t \in Threads, SpuriousWakeup(t) PROVE IInv'
    BY <1>28 DEF SpuriousWakeup
  <1>29. ASSUME NEW t \in Threads, HandlerStore(t) PROVE IInv'
    <2>0. handler' \in [Threads -> 0..3]
      BY <1>29 DEF HandlerStore
    <2>1. CASE handler[t] = 3
      BY <2>0, <1>29, <2>1 DEF HandlerStore
    <2>2. CASE handler[t] = 2
      BY <2>0, <1>29, <2>2 DEF HandlerStore
    <2>3. CASE handler[t] = 1
      BY <2>0, <1>29, <2>3 DEF HandlerStore
    <2>4. handler[t] \in 1..3
      BY <1>29 DEF HandlerStore
    <2> QED
      BY <2>4, <2>1, <2>2, <2>3 DEF HandlerStore
  <1>30. CASE ShellExits
    BY <1>30 DEF ShellExits, Interrupted, Emergency, OnError
  <1>31. CASE JobsEnd
    BY <1>31 DEF JobsEnd
  <1>32. CASE PeerLeaves
    BY <1>32 DEF PeerLeaves
  <1>33. CASE SslCrash
    BY <1>33 DEF SslCrash, ProcessExit
  <1>34. CASE UNCHANGED vars
    BY <1>34, SMTT(30) DEF vars
  <1> QED
    BY <1>1, <1>2, <1>3, <1>4, <1>5, <1>6, <1>7, <1>8, <1>9, <1>10,
       <1>11, <1>12, <1>13, <1>14, <1>15, <1>16, <1>17, <1>18, <1>19, <1>20,
       <1>21, <1>22, <1>23, <1>24, <1>25, <1>26, <1>27, <1>28, <1>29, <1>30,
       <1>31, <1>32, <1>33, <1>34, <1>35, <1>36
    DEF Next, MainStep, CmdStep, OutStep, Signals, Environment, Terminated

-----------------------------------------------------------------------------

\* Every step of the server is a step of SessionContract or leaves it alone.
LEMMA NextKeepsContract ==
  IInv /\ [Next]_vars => [Contract!Next]_(Contract!vars)
  <1> SUFFICES ASSUME IInv, [Next]_vars
               PROVE  [Contract!Next]_(Contract!vars)
    OBVIOUS
  <1> USE DEF IInv, TypeOK, OffIsForGood, OutputCreatedLast, Phase, Busy, Ended,
          Contract!vars, Contract!StartRound, Contract!EndRound, Contract!Stop,
          Contract!Release, Contract!End,
          Threads, Workers, MainLabels, CmdLabels, OutLabels, SetupLabels,
          WaitLabels, OffLabels, IoLabels, SocketLabels, PtyLabels, ReapLabels, CloseLabels,
          flags, fds, env, At, Goto, Signal
  <1>1. ASSUME Handshake PROVE UNCHANGED Contract!vars
    BY <1>1 DEF Handshake
  <1>2. ASSUME OpenPty PROVE Contract!End \/ UNCHANGED Contract!vars
    BY <1>2 DEF OpenPty, ProcessExit
  <1>3. ASSUME SpawnShell PROVE Contract!End \/ UNCHANGED Contract!vars
    BY <1>3 DEF SpawnShell, ProcessExit
  <1>4. ASSUME CreateCmd PROVE UNCHANGED Contract!vars
    BY <1>4 DEF CreateCmd
  <1>5. ASSUME InstallHandlers PROVE UNCHANGED Contract!vars
    BY <1>5 DEF InstallHandlers
  <1>6. ASSUME PublishOutput PROVE UNCHANGED Contract!vars
    BY <1>6 DEF PublishOutput
  <1>7. ASSUME CreateOut PROVE UNCHANGED Contract!vars
    BY <1>7 DEF CreateOut
  <1>8. ASSUME AwaitExit PROVE UNCHANGED Contract!vars
    BY <1>8 DEF AwaitExit
  <1>9. ASSUME ReapShell PROVE UNCHANGED Contract!vars
    BY <1>9 DEF ReapShell
  <1>10. ASSUME JoinWorkers PROVE Contract!Release \/ UNCHANGED Contract!vars
    BY <1>10 DEF JoinWorkers, AfterJoins
  <1>11. ASSUME Teardown PROVE Contract!End \/ UNCHANGED Contract!vars
    BY <1>11 DEF Teardown, ProcessExit
  <1>12. ASSUME AwaitCmd PROVE UNCHANGED Contract!vars
    BY <1>12 DEF AwaitCmd
  <1>13. ASSUME CmdLoop PROVE Contract!StartRound("cmd") \/ UNCHANGED Contract!vars
    BY <1>13 DEF CmdLoop, CmdBreak
  <1>14. ASSUME Receive PROVE UNCHANGED Contract!vars
    BY <1>14 DEF Receive
  <1>15. ASSUME ReceiveFails PROVE Contract!EndRound("cmd") \/ UNCHANGED Contract!vars
    BY <1>15 DEF ReceiveFails, CmdBreak
  <1>16. ASSUME WriteToShell PROVE Contract!EndRound("cmd") \/ UNCHANGED Contract!vars
    BY <1>16 DEF WriteToShell, CmdBreak
  <1>17. ASSUME AwaitOut PROVE UNCHANGED Contract!vars
    BY <1>17 DEF AwaitOut
  <1>18. ASSUME Announce PROVE UNCHANGED Contract!vars
    BY <1>18 DEF Announce
  <1>19. ASSUME OutLoop PROVE Contract!StartRound("out") \/ UNCHANGED Contract!vars
    BY <1>19 DEF OutLoop
  <1>20. ASSUME ReadFromShell PROVE Contract!EndRound("out") \/ UNCHANGED Contract!vars
    BY <1>20 DEF ReadFromShell
  <1>21. ASSUME Send PROVE Contract!EndRound("out") \/ UNCHANGED Contract!vars
    BY <1>21 DEF Send
  <1>22. ASSUME SendFails PROVE Contract!EndRound("out") \/ UNCHANGED Contract!vars
    BY <1>22 DEF SendFails
  <1>23. ASSUME SendPipe PROVE Contract!EndRound("out") \/ UNCHANGED Contract!vars
    BY <1>23 DEF SendPipe, Emergency, OnError
  <1>24. ASSUME NEW t \in Threads, Park(t) PROVE UNCHANGED Contract!vars
    BY <1>24 DEF Park
  <1>25. ASSUME NEW t \in Workers, IoFatal(t) PROVE Contract!EndRound(t) \/ UNCHANGED Contract!vars
    BY <1>25 DEF IoFatal, Emergency, OnError
  <1>35. ASSUME NEW t \in Workers, SpinStarts(t) PROVE UNCHANGED Contract!vars
    BY <1>35 DEF SpinStarts
  <1>36. ASSUME NEW t \in Workers, SpinEnds(t) PROVE Contract!EndRound(t) \/ UNCHANGED Contract!vars
    BY <1>36 DEF SpinEnds, CmdBreak, Emergency, OnError
  <1>26. ASSUME NEW t \in Workers, SwitchAllOff(t) PROVE Contract!Stop \/ UNCHANGED Contract!vars
    BY <1>26 DEF SwitchAllOff
  <1>27. ASSUME NEW t \in Threads, Sigint(t) PROVE Contract!EndRound(t) \/ UNCHANGED Contract!vars
    BY <1>27 DEF Sigint, Interrupted, Emergency, OnError, Running
  <1>28. ASSUME NEW t \in Threads, SpuriousWakeup(t) PROVE UNCHANGED Contract!vars
    BY <1>28 DEF SpuriousWakeup
  <1>29. ASSUME NEW t \in Threads, HandlerStore(t) PROVE Contract!Stop \/ UNCHANGED Contract!vars
    BY <1>29 DEF HandlerStore
  <1>30. ASSUME ShellExits PROVE \E u \in Workers : Contract!EndRound(u) \/ UNCHANGED Contract!vars
    BY <1>30 DEF ShellExits, Interrupted, Emergency, OnError
  <1>31. ASSUME JobsEnd PROVE UNCHANGED Contract!vars
    BY <1>31 DEF JobsEnd
  <1>32. ASSUME PeerLeaves PROVE UNCHANGED Contract!vars
    BY <1>32 DEF PeerLeaves
  <1>33. ASSUME SslCrash PROVE Contract!End \/ UNCHANGED Contract!vars
    BY <1>33 DEF SslCrash, ProcessExit
  <1>34. ASSUME UNCHANGED vars PROVE UNCHANGED Contract!vars
    BY <1>34 DEF vars
  <1> QED
    BY <1>1, <1>2, <1>3, <1>4, <1>5, <1>6, <1>7, <1>8, <1>9, <1>10,
       <1>11, <1>12, <1>13, <1>14, <1>15, <1>16, <1>17, <1>18, <1>19, <1>20,
       <1>21, <1>22, <1>23, <1>24, <1>25, <1>26, <1>27, <1>28, <1>29, <1>30,
       <1>31, <1>32, <1>33, <1>34, <1>35, <1>36
       DEF Next, MainStep, CmdStep, OutStep, Signals, Environment, Terminated, Contract!Next

-----------------------------------------------------------------------------

\* Every reachable state satisfies the inductive invariant.
LEMMA Invariance == Spec => []IInv
  BY InitIInv, NextIInv, PTL DEF Spec

\* Every variable keeps its type, in particular a worker only ever stands at a
\* label of its own thread function, whatever wakes, interrupts or fails it.
THEOREM TypeCorrect == Spec => []TypeOK
  BY Invariance, PTL DEF IInv

\* writeOutput never waits on outCond, although out_alive is signalled before the
\* thread exists (client_mgmt.c:213-217): the flag is already up, or all_alive down.
THEOREM OutputIsNotLeftWaiting == Spec => []OutputNeverParks
  BY Invariance, PTL DEF IInv

\* command_prompt_thread is in recvsome or writesome only after writeOutput has
\* left its own start-up, for any number of signals.
THEOREM CommandsWaitForOutput == Spec => []CommandsFollowOutput
  BY Invariance, PTL DEF IInv

\* The server implements the session contract: a switched-off session starts no
\* round of I/O, and is switched off before it is taken down.
THEOREM ServerKeepsContract == Spec => KeepsContract
  <1>1. Init => Contract!Init
    BY DEF Init, Contract!Init, Phase, Busy, Ended, CloseLabels, IoLabels,
           SocketLabels, PtyLabels, Threads, Workers
  <1> QED
    BY <1>1, Invariance, NextKeepsContract, PTL DEF Spec, KeepsContract, Contract!Spec

=============================================================================
