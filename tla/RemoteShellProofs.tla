--------------------------- MODULE RemoteShellProofs ---------------------------
(***************************************************************************)
(* The safety properties of RemoteShell for any room on the connection and *)
(* any choice of transports.                                               *)
(***************************************************************************)
EXTENDS RemoteShell, SequenceTheorems, TLAPS

\* What the connection holds: one end of stream at most in each direction, and one
\* goodbye before the server's.
Bounded ==
  /\ cli # "ended" => Len(up) <= Room
  /\ srv # "ended" => Len(down) <= Room
  /\ ServerHolds => Len(down) <= Room + 1

\* Only a client that speaks TLS finishes a handshake.
HandshakeIsTheClients ==
  /\ cli = "tls" => mode.client
  /\ \A i \in 1..Len(up) : up[i] = "finish" => mode.client

\* Where the server's main is against its SSL and its command thread.
ServerPhase ==
  /\ srv = "tls" => mode.server /\ sssl \in {"none", "wait"}
  /\ srv \in {"tls", "start"} => cmd = "recv"
  /\ mode.server /\ srv \in {"start", "up"} => sssl \in {"live", "null"}
  /\ sssl = "live" => mode.known /\ mode.client
  /\ mode.server /\ cmd \in {"text", "eot", "junk"} => sssl = "live"

\* The inductive invariant.
Inv == TypeOK /\ Bounded /\ HandshakeIsTheClients /\ ServerPhase

LEMMA InitInv == Init => Inv
<1> SUFFICES ASSUME Init PROVE Inv
  OBVIOUS
<1>1. Len(<<>>) = 0
  OBVIOUS
<1>2. TypeOK
  <2>1. up \in Seq(UpFrames) /\ down \in Seq(DownFrames) /\ Len(up) <= Room + 1 /\ Len(down) <= Room + 2
    BY <1>1, RoomAssumption DEF Init
  <2>2. cli \in {"tls", "up", "ended"} /\ srv \in {"tls", "start", "up", "ended"}
    BY DEF Init
  <2> QED BY <2>1, <2>2 DEF Init, TypeOK
<1>3. Bounded
  BY <1>1, RoomAssumption DEF Init, Bounded
<1>4. HandshakeIsTheClients
  BY <1>1 DEF Init, HandshakeIsTheClients
<1>5. ServerPhase
  BY DEF Init, ServerPhase
<1> QED BY <1>2, <1>3, <1>4, <1>5 DEF Inv

\* What taking a frame and adding one do to a queue.
LEMMA QueueSteps ==
  ASSUME NEW S, NEW q \in Seq(S), NEW f \in S
  PROVE  /\ Append(q, f) \in Seq(S) /\ Len(Append(q, f)) = Len(q) + 1
         /\ \A i \in 1..Len(q) + 1 : Append(q, f)[i] = IF i = Len(q) + 1 THEN f ELSE q[i]
         /\ q # <<>> => /\ Head(q) = q[1] /\ Tail(q) \in Seq(S) /\ Len(Tail(q)) = Len(q) - 1
                        /\ \A i \in 1..Len(q) - 1 : Tail(q)[i] = q[i + 1]
                        /\ Len(q) \in Nat \ {0}
         /\ q \o <<f>> = Append(q, f)
         /\ q \o <<>> \o <<f>> = Append(q, f)
<1>1. q \o <<f>> = Append(q, f)
  BY AppendProperties, ConcatProperties
<1>2. q \o <<>> = q
  BY ConcatEmptySeq
<1> QED BY <1>1, <1>2, AppendProperties, HeadTailProperties, EmptySeq, LenProperties

\* What is said of up, and of down, after a step.
UpOK(q, bound) ==
  q \in Seq(UpFrames) /\ Len(q) <= bound /\ \A i \in 1..Len(q) : q[i] = "finish" => mode.client
DownOK(q, bound) == q \in Seq(DownFrames) /\ Len(q) <= bound

LEMMA UpWithOneMore ==
  ASSUME TypeOK, HandshakeIsTheClients, NEW f \in UpFrames, f = "finish" => mode.client,
         NEW bound \in Nat, Len(up) <= bound
  PROVE  UpOK(Append(up, f), bound + 1)
<1>1. up \in Seq(UpFrames)
  BY DEF TypeOK
<1>2. /\ Append(up, f) \in Seq(UpFrames) /\ Len(Append(up, f)) = Len(up) + 1
      /\ \A i \in 1..Len(up) + 1 : Append(up, f)[i] = IF i = Len(up) + 1 THEN f ELSE up[i]
  BY <1>1, QueueSteps
<1>3. Len(up) \in Nat
  BY <1>1, LenProperties
<1>4. ASSUME NEW i \in 1..Len(Append(up, f)), Append(up, f)[i] = "finish" PROVE mode.client
  <2>1. CASE i = Len(up) + 1
    BY <1>2, <1>4, <2>1
  <2>2. CASE i \in 1..Len(up)
    BY <1>2, <1>3, <1>4, <2>2 DEF HandshakeIsTheClients
  <2> QED BY <1>2, <1>3, <2>1, <2>2
<1> QED BY <1>2, <1>3, <1>4 DEF UpOK

LEMMA DownWithOneMore ==
  ASSUME TypeOK, NEW f \in DownFrames, NEW bound \in Nat, Len(down) <= bound
  PROVE  DownOK(Append(down, f), bound + 1)
<1>1. down \in Seq(DownFrames)
  BY DEF TypeOK
<1>2. Append(down, f) \in Seq(DownFrames) /\ Len(Append(down, f)) = Len(down) + 1
  BY <1>1, QueueSteps
<1> QED BY <1>1, <1>2, LenProperties DEF DownOK

LEMMA SendingUp ==
  ASSUME TypeOK, Bounded, HandshakeIsTheClients, cli # "ended",
         NEW f \in UpFrames, SendUp(f), f = "finish" => mode.client
  PROVE  UpOK(up', Room) /\ creset' \in BOOLEAN
<1>1. CASE up' = Append(up, f) /\ Len(up) < Room /\ creset' = creset
  <2>1. Len(up) <= Room - 1 /\ Room - 1 \in Nat
    BY <1>1, RoomAssumption, LenProperties DEF TypeOK
  <2>2. UpOK(Append(up, f), Room - 1 + 1)
    BY <2>1, UpWithOneMore
  <2> QED BY <1>1, <2>2, RoomAssumption DEF TypeOK
<1>2. CASE up' = up /\ creset' = TRUE
  BY <1>2 DEF UpOK, TypeOK, Bounded, HandshakeIsTheClients
<1> QED BY <1>1, <1>2 DEF SendUp

LEMMA SendingDown ==
  ASSUME TypeOK, Bounded, srv # "ended", NEW f \in DownFrames, SendDown(f)
  PROVE  DownOK(down', Room) /\ sreset' \in BOOLEAN
<1>1. CASE down' = Append(down, f) /\ Len(down) < Room /\ sreset' = sreset
  <2>1. Len(down) <= Room - 1 /\ Room - 1 \in Nat
    BY <1>1, RoomAssumption, LenProperties DEF TypeOK
  <2>2. DownOK(Append(down, f), Room - 1 + 1)
    BY <2>1, DownWithOneMore
  <2> QED BY <1>1, <2>2, RoomAssumption DEF TypeOK
<1>2. CASE down' = down /\ sreset' = TRUE
  BY <1>2 DEF DownOK, TypeOK, Bounded
<1> QED BY <1>1, <1>2 DEF SendDown

\* A frame taken out, or an end of stream left in.
LEMMA TakingUp ==
  ASSUME TypeOK, HandshakeIsTheClients, up # <<>>, NEW bound \in Nat, Len(up) <= bound
  PROVE  UpOK(Tail(up), bound) /\ UpOK(Take(up), bound) /\ Head(up) \in UpFrames
<1>1. UpOK(Tail(up), bound)
  BY QueueSteps, Z3 DEF UpOK, TypeOK, HandshakeIsTheClients
<1>2. UpOK(up, bound) /\ Head(up) \in UpFrames
  BY QueueSteps DEF UpOK, TypeOK, HandshakeIsTheClients
<1> QED BY <1>1, <1>2 DEF Take

LEMMA TakingDown ==
  ASSUME TypeOK, down # <<>>, NEW bound \in Nat, Len(down) <= bound
  PROVE  DownOK(Tail(down), bound) /\ DownOK(Take(down), bound) /\ Head(down) \in DownFrames
BY QueueSteps DEF Take, DownOK, TypeOK

LEMMA ClosingUp ==
  ASSUME TypeOK, Bounded, HandshakeIsTheClients, cli # "ended", CloseClient
  PROVE  UpOK(up', Room + 1) /\ sreset' \in BOOLEAN
<1>1. "fin" \in UpFrames
  BY DEF UpFrames
<1>2. CASE up' = Append(up, "fin") /\ sreset' = sreset
  BY <1>1, <1>2, UpWithOneMore, RoomAssumption DEF TypeOK, Bounded
<1>3. CASE up' = up /\ sreset' = TRUE
  BY <1>3, RoomAssumption, LenProperties DEF UpOK, TypeOK, Bounded, HandshakeIsTheClients
<1> QED BY <1>2, <1>3 DEF CloseClient

\* The last copy of the server's socket closes.
LEMMA ClosingDown ==
  ASSUME TypeOK, NEW bound \in Nat, Len(down) <= bound, NEW last \in {<<>>, <<"notify">>},
         CloseServer(last)
  PROVE  DownOK(down', bound + 1 + Len(last)) /\ creset' \in BOOLEAN
<1>1. "fin" \in DownFrames /\ "notify" \in DownFrames
  BY DEF DownFrames
<1>2. Len(<<>>) = 0 /\ Len(<<"notify">>) = 1
  OBVIOUS
<1>3. CASE down' = down \o last \o <<"fin">> /\ creset' = creset
  <2>1. CASE last = <<>>
    BY <1>1, <1>2, <1>3, <2>1, QueueSteps DEF DownOK, TypeOK
  <2>2. CASE last = <<"notify">>
    <3>1. down \o last = Append(down, "notify")
      BY <1>1, <2>2, QueueSteps DEF TypeOK
    <3>2. down' = Append(Append(down, "notify"), "fin")
      BY <1>1, <1>3, <3>1, QueueSteps DEF TypeOK
    <3> QED BY <1>1, <1>2, <1>3, <2>2, <3>2, QueueSteps DEF DownOK, TypeOK
  <2> QED BY <2>1, <2>2
<1>4. CASE creset' = TRUE /\ down' = down
  BY <1>2, <1>4 DEF DownOK, TypeOK
<1> QED BY <1>3, <1>4 DEF CloseServer

\* Each step keeps the invariant.
LEMMA ClientHelloKeeps == Inv /\ ClientHello => Inv'
<1> SUFFICES ASSUME Inv, ClientHello PROVE Inv'
  OBVIOUS
<1> USE DEF client, server
<1>1. UpOK(up', Room) /\ creset' \in BOOLEAN
  BY SendingUp, RoomAssumption DEF Inv, TypeOK, Bounded, ClientHello, UpFrames
<1>2. c_alive' \in BOOLEAN /\ s_alive' \in BOOLEAN /\ creset' \in BOOLEAN /\ sreset' \in BOOLEAN
  BY <1>1, Zenon DEF Inv, TypeOK, ClientHello
<1>3. TypeOK'
  BY <1>1, <1>2, RoomAssumption DEF Inv, TypeOK, Bounded, ServerHolds, UpOK, DownOK, ClientHello
<1>4. Bounded'
  BY <1>1, <1>2, RoomAssumption DEF Inv, TypeOK, Bounded, ServerHolds, UpOK, DownOK, ClientHello
<1>5. HandshakeIsTheClients'
  BY <1>1, <1>2, Z3 DEF Inv, TypeOK, HandshakeIsTheClients, UpOK, ClientHello
<1>6. ServerPhase'
  BY <1>1, <1>2, Z3 DEF Inv, TypeOK, ServerPhase, ClientHello
<1> QED BY <1>3, <1>4, <1>5, <1>6 DEF Inv

LEMMA ClientFinishesKeeps == Inv /\ ClientFinishes => Inv'
<1> SUFFICES ASSUME Inv, ClientFinishes PROVE Inv'
  OBVIOUS
<1> USE DEF client, server
<1>1. UpOK(up', Room) /\ creset' \in BOOLEAN
  <2>1. cli # "ended" /\ mode.client
    BY DEF Inv, HandshakeIsTheClients, ClientFinishes
  <2>2. \E f \in {"finish", "alert"} : SendUp(f)
    BY DEF ClientFinishes
  <2>3. {"finish", "alert"} \subseteq UpFrames
    BY DEF UpFrames
  <2> QED BY <2>1, <2>2, <2>3, SendingUp DEF Inv
<1>2. DownOK(down', Len(down))
  BY TakingDown, RoomAssumption DEF Inv, TypeOK, Bounded, ClientFinishes, Arrived
<1>3. c_alive' \in BOOLEAN /\ s_alive' \in BOOLEAN /\ creset' \in BOOLEAN /\ sreset' \in BOOLEAN
  BY <1>1, <1>2, Zenon DEF Inv, TypeOK, ClientFinishes
<1>4. TypeOK'
  BY <1>1, <1>2, <1>3, RoomAssumption DEF Inv, TypeOK, Bounded, ServerHolds, UpOK, DownOK, ClientFinishes
<1>5. Bounded'
  BY <1>1, <1>2, <1>3, RoomAssumption DEF Inv, TypeOK, Bounded, ServerHolds, UpOK, DownOK, ClientFinishes
<1>6. HandshakeIsTheClients'
  BY <1>1, <1>2, <1>3, Z3 DEF Inv, TypeOK, HandshakeIsTheClients, UpOK, ClientFinishes
<1>7. ServerPhase'
  BY <1>1, <1>2, <1>3, Z3 DEF Inv, TypeOK, ServerPhase, ClientFinishes
<1> QED BY <1>4, <1>5, <1>6, <1>7 DEF Inv

LEMMA ClientHandshakeFailsKeeps == Inv /\ ClientHandshakeFails => Inv'
<1> SUFFICES ASSUME Inv, ClientHandshakeFails PROVE Inv'
  OBVIOUS
<1> USE DEF client, server
<1>1. down' = down \/ DownOK(down', Len(down))
  BY TakingDown, RoomAssumption DEF Inv, TypeOK, Bounded, ClientHandshakeFails, Arrived
<1>2. c_alive' \in BOOLEAN /\ s_alive' \in BOOLEAN /\ creset' \in BOOLEAN /\ sreset' \in BOOLEAN
  BY <1>1, Zenon DEF Inv, TypeOK, ClientHandshakeFails
<1>3. TypeOK'
  BY <1>1, <1>2, RoomAssumption DEF Inv, TypeOK, Bounded, ServerHolds, UpOK, DownOK, ClientHandshakeFails
<1>4. Bounded'
  BY <1>1, <1>2, RoomAssumption DEF Inv, TypeOK, Bounded, ServerHolds, UpOK, DownOK, ClientHandshakeFails
<1>5. HandshakeIsTheClients'
  BY <1>1, <1>2, Z3 DEF Inv, TypeOK, HandshakeIsTheClients, UpOK, ClientHandshakeFails
<1>6. ServerPhase'
  BY <1>1, <1>2, Z3 DEF Inv, TypeOK, ServerPhase, ClientHandshakeFails
<1> QED BY <1>3, <1>4, <1>5, <1>6 DEF Inv

LEMMA SendKeysKeeps == Inv /\ SendKeys => Inv'
<1> SUFFICES ASSUME Inv, SendKeys PROVE Inv'
  OBVIOUS
<1> USE DEF client, server
<1>1. UpOK(up', Room) /\ creset' \in BOOLEAN
  BY SendingUp, RoomAssumption DEF Inv, TypeOK, Bounded, SendKeys, UpFrames
<1>2. c_alive' \in BOOLEAN /\ s_alive' \in BOOLEAN /\ creset' \in BOOLEAN /\ sreset' \in BOOLEAN
  BY <1>1, Zenon DEF Inv, TypeOK, SendKeys
<1>3. TypeOK'
  BY <1>1, <1>2, RoomAssumption DEF Inv, TypeOK, Bounded, ServerHolds, UpOK, DownOK, SendKeys
<1>4. Bounded'
  BY <1>1, <1>2, RoomAssumption DEF Inv, TypeOK, Bounded, ServerHolds, UpOK, DownOK, SendKeys
<1>5. HandshakeIsTheClients'
  BY <1>1, <1>2, Z3 DEF Inv, TypeOK, HandshakeIsTheClients, UpOK, SendKeys
<1>6. ServerPhase'
  BY <1>1, <1>2, Z3 DEF Inv, TypeOK, ServerPhase, SendKeys
<1> QED BY <1>3, <1>4, <1>5, <1>6 DEF Inv

LEMMA SendKeysFailsKeeps == Inv /\ SendKeysFails => Inv'
<1> SUFFICES ASSUME Inv, SendKeysFails PROVE Inv'
  OBVIOUS
<1> USE DEF client, server
<1>1. c_alive' \in BOOLEAN /\ s_alive' \in BOOLEAN /\ creset' \in BOOLEAN /\ sreset' \in BOOLEAN
  BY Zenon DEF Inv, TypeOK, SendKeysFails
<1>2. TypeOK'
  BY <1>1, RoomAssumption DEF Inv, TypeOK, Bounded, ServerHolds, UpOK, DownOK, SendKeysFails
<1>3. Bounded'
  BY <1>1, RoomAssumption DEF Inv, TypeOK, Bounded, ServerHolds, UpOK, DownOK, SendKeysFails
<1>4. HandshakeIsTheClients'
  BY <1>1, Z3 DEF Inv, TypeOK, HandshakeIsTheClients, UpOK, SendKeysFails
<1>5. ServerPhase'
  BY <1>1, Z3 DEF Inv, TypeOK, ServerPhase, SendKeysFails
<1> QED BY <1>2, <1>3, <1>4, <1>5 DEF Inv

LEMMA ClientEndsKeeps == Inv /\ ClientEnds => Inv'
<1> SUFFICES ASSUME Inv, ClientEnds PROVE Inv'
  OBVIOUS
<1> USE DEF client, server
<1>1. UpOK(up', Room + 1) /\ sreset' \in BOOLEAN
  BY ClosingUp, RoomAssumption DEF Inv, TypeOK, Bounded, ClientEnds
<1>2. c_alive' \in BOOLEAN /\ s_alive' \in BOOLEAN /\ creset' \in BOOLEAN /\ sreset' \in BOOLEAN
  BY <1>1, Zenon DEF Inv, TypeOK, ClientEnds
<1>3. TypeOK'
  BY <1>1, <1>2, RoomAssumption DEF Inv, TypeOK, Bounded, ServerHolds, UpOK, DownOK, ClientEnds
<1>4. Bounded'
  BY <1>1, <1>2, RoomAssumption DEF Inv, TypeOK, Bounded, ServerHolds, UpOK, DownOK, ClientEnds
<1>5. HandshakeIsTheClients'
  BY <1>1, <1>2, Z3 DEF Inv, TypeOK, HandshakeIsTheClients, UpOK, ClientEnds
<1>6. ServerPhase'
  BY <1>1, <1>2, Z3 DEF Inv, TypeOK, ServerPhase, ClientEnds
<1> QED BY <1>3, <1>4, <1>5, <1>6 DEF Inv

LEMMA PrintOutputKeeps == Inv /\ PrintOutput => Inv'
<1> SUFFICES ASSUME Inv, PrintOutput PROVE Inv'
  OBVIOUS
<1> USE DEF client, server
<1>1. DownOK(down', Len(down))
  BY TakingDown, RoomAssumption DEF Inv, TypeOK, Bounded, PrintOutput, Arrived
<1>2. c_alive' \in BOOLEAN /\ s_alive' \in BOOLEAN /\ creset' \in BOOLEAN /\ sreset' \in BOOLEAN
  BY <1>1, Zenon DEF Inv, TypeOK, PrintOutput
<1>3. TypeOK'
  BY <1>1, <1>2, RoomAssumption DEF Inv, TypeOK, Bounded, ServerHolds, UpOK, DownOK, PrintOutput
<1>4. Bounded'
  BY <1>1, <1>2, RoomAssumption DEF Inv, TypeOK, Bounded, ServerHolds, UpOK, DownOK, PrintOutput
<1>5. HandshakeIsTheClients'
  BY <1>1, <1>2, Z3 DEF Inv, TypeOK, HandshakeIsTheClients, UpOK, PrintOutput
<1>6. ServerPhase'
  BY <1>1, <1>2, Z3 DEF Inv, TypeOK, ServerPhase, PrintOutput
<1> QED BY <1>3, <1>4, <1>5, <1>6 DEF Inv

LEMMA TypeKeeps == Inv /\ Type => Inv'
<1> SUFFICES ASSUME Inv, Type PROVE Inv'
  OBVIOUS
<1> USE DEF client, server
<1>1. c_alive' \in BOOLEAN /\ s_alive' \in BOOLEAN /\ creset' \in BOOLEAN /\ sreset' \in BOOLEAN
  BY Zenon DEF Inv, TypeOK, Type
<1>2. TypeOK'
  BY <1>1, RoomAssumption DEF Inv, TypeOK, Bounded, ServerHolds, UpOK, DownOK, Type
<1>3. Bounded'
  BY <1>1, RoomAssumption DEF Inv, TypeOK, Bounded, ServerHolds, UpOK, DownOK, Type
<1>4. HandshakeIsTheClients'
  BY <1>1, Z3 DEF Inv, TypeOK, HandshakeIsTheClients, UpOK, Type
<1>5. ServerPhase'
  BY <1>1, Z3 DEF Inv, TypeOK, ServerPhase, Type
<1> QED BY <1>2, <1>3, <1>4, <1>5 DEF Inv

LEMMA ServerHelloKeeps == Inv /\ ServerHello => Inv'
<1> SUFFICES ASSUME Inv, ServerHello PROVE Inv'
  OBVIOUS
<1> USE DEF client, server
<1>1. UpOK(up', Len(up))
  BY TakingUp, RoomAssumption DEF Inv, TypeOK, Bounded, ServerHello, Arrived
<1>2. DownOK(down', Room) /\ sreset' \in BOOLEAN
  BY SendingDown, RoomAssumption DEF Inv, TypeOK, Bounded, ServerHello, DownFrames
<1>3. c_alive' \in BOOLEAN /\ s_alive' \in BOOLEAN /\ creset' \in BOOLEAN /\ sreset' \in BOOLEAN
  BY <1>1, <1>2, Zenon DEF Inv, TypeOK, ServerHello
<1>4. TypeOK'
  BY <1>1, <1>2, <1>3, RoomAssumption DEF Inv, TypeOK, Bounded, ServerHolds, UpOK, DownOK, ServerHello
<1>5. Bounded'
  BY <1>1, <1>2, <1>3, RoomAssumption DEF Inv, TypeOK, Bounded, ServerHolds, UpOK, DownOK, ServerHello
<1>6. HandshakeIsTheClients'
  BY <1>1, <1>2, <1>3, Z3 DEF Inv, TypeOK, HandshakeIsTheClients, UpOK, ServerHello
<1>7. ServerPhase'
  BY <1>1, <1>2, <1>3, Z3 DEF Inv, TypeOK, ServerPhase, ServerHello
<1> QED BY <1>4, <1>5, <1>6, <1>7 DEF Inv

LEMMA ServerFinishesKeeps == Inv /\ ServerFinishes => Inv'
<1> SUFFICES ASSUME Inv, ServerFinishes PROVE Inv'
  OBVIOUS
<1> USE DEF client, server
<1>1. UpOK(up', Len(up)) /\ mode.client
  BY TakingUp, QueueSteps, RoomAssumption DEF Inv, TypeOK, Bounded, ServerFinishes, Arrived, HandshakeIsTheClients
<1>2. DownOK(down', Room) /\ sreset' \in BOOLEAN
  BY SendingDown, RoomAssumption DEF Inv, TypeOK, Bounded, ServerFinishes, DownFrames, DownOK
<1>3. c_alive' \in BOOLEAN /\ s_alive' \in BOOLEAN /\ creset' \in BOOLEAN /\ sreset' \in BOOLEAN
  BY <1>1, <1>2, Zenon DEF Inv, TypeOK, ServerFinishes
<1>4. TypeOK'
  BY <1>1, <1>2, <1>3, RoomAssumption DEF Inv, TypeOK, Bounded, ServerHolds, UpOK, DownOK, ServerFinishes
<1>5. Bounded'
  BY <1>1, <1>2, <1>3, RoomAssumption DEF Inv, TypeOK, Bounded, ServerHolds, UpOK, DownOK, ServerFinishes
<1>6. HandshakeIsTheClients'
  BY <1>1, <1>2, <1>3, Z3 DEF Inv, TypeOK, HandshakeIsTheClients, UpOK, ServerFinishes
<1>7. ServerPhase'
  BY <1>1, <1>2, <1>3, Z3 DEF Inv, TypeOK, ServerPhase, ServerFinishes
<1> QED BY <1>4, <1>5, <1>6, <1>7 DEF Inv

LEMMA ServerHandshakeFailsKeeps == Inv /\ ServerHandshakeFails => Inv'
<1> SUFFICES ASSUME Inv, ServerHandshakeFails PROVE Inv'
  OBVIOUS
<1> USE DEF client, server
<1>1. up' = up \/ UpOK(up', Len(up))
  BY TakingUp, RoomAssumption DEF Inv, TypeOK, Bounded, ServerHandshakeFails, Arrived
<1>2. c_alive' \in BOOLEAN /\ s_alive' \in BOOLEAN /\ creset' \in BOOLEAN /\ sreset' \in BOOLEAN
  BY <1>1, Zenon DEF Inv, TypeOK, ServerHandshakeFails
<1>3. TypeOK'
  BY <1>1, <1>2, RoomAssumption DEF Inv, TypeOK, Bounded, ServerHolds, UpOK, DownOK, ServerHandshakeFails
<1>4. Bounded'
  BY <1>1, <1>2, RoomAssumption DEF Inv, TypeOK, Bounded, ServerHolds, UpOK, DownOK, ServerHandshakeFails
<1>5. HandshakeIsTheClients'
  BY <1>1, <1>2, Z3 DEF Inv, TypeOK, HandshakeIsTheClients, UpOK, ServerHandshakeFails
<1>6. ServerPhase'
  BY <1>1, <1>2, Z3 DEF Inv, TypeOK, ServerPhase, ServerHandshakeFails
<1> QED BY <1>3, <1>4, <1>5, <1>6 DEF Inv

LEMMA SpawnKeeps == Inv /\ Spawn => Inv'
<1> SUFFICES ASSUME Inv, Spawn PROVE Inv'
  OBVIOUS
<1> USE DEF client, server
<1>1. (down' = down /\ creset' = creset) \/ (DownOK(down', Room + 1) /\ creset' \in BOOLEAN /\ srv' = "ended")
  <2>1. CASE CloseServer(<<>>) /\ srv' = "ended"
    <3>1. Len(down) <= Room /\ Room \in Nat /\ TypeOK
      BY RoomAssumption DEF Inv, Bounded, Spawn
    <3>2. DownOK(down', Room + 1 + Len(<<>>)) /\ creset' \in BOOLEAN
      BY <2>1, <3>1, ClosingDown
    <3> QED BY <2>1, <3>1, <3>2
  <2>2. CASE UNCHANGED <<down, creset>>
    BY <2>2
  <2> QED BY <2>1, <2>2, Zenon DEF Spawn
<1>2. c_alive' \in BOOLEAN /\ s_alive' \in BOOLEAN /\ creset' \in BOOLEAN /\ sreset' \in BOOLEAN
  BY <1>1, Zenon DEF Inv, TypeOK, Spawn
<1>3. TypeOK'
  BY <1>1, <1>2, RoomAssumption DEF Inv, TypeOK, Bounded, ServerHolds, UpOK, DownOK, Spawn
<1>4. Bounded'
  BY <1>1, <1>2, RoomAssumption DEF Inv, TypeOK, Bounded, ServerHolds, UpOK, DownOK, Spawn
<1>5. HandshakeIsTheClients'
  BY <1>1, <1>2, Z3 DEF Inv, TypeOK, HandshakeIsTheClients, UpOK, Spawn
<1>6. ServerPhase'
  BY <1>1, <1>2, Z3 DEF Inv, TypeOK, ServerPhase, Spawn
<1> QED BY <1>3, <1>4, <1>5, <1>6 DEF Inv

LEMMA ServerEndsKeeps == Inv /\ ServerEnds => Inv'
<1> SUFFICES ASSUME Inv, ServerEnds PROVE Inv'
  OBVIOUS
<1> USE DEF client, server
<1>1. DownOK(down', IF shell = "gone" THEN Room + 2 ELSE Room + 1) /\ creset' \in BOOLEAN
  <2> DEFINE last == IF sssl = "live" /\ ~sreset /\ cli # "ended" THEN <<"notify">> ELSE <<>>
  <2>1. Len(down) <= Room /\ Room \in Nat /\ TypeOK
    BY RoomAssumption DEF Inv, Bounded, ServerEnds
  <2>2. last \in {<<>>, <<"notify">>} /\ Len(last) \in {0, 1}
    OBVIOUS
  <2>3. CASE shell = "gone"
    <3>1. CloseServer(last)
      BY <2>3 DEF ServerEnds
    <3>2. DownOK(down', Room + 1 + Len(last)) /\ creset' \in BOOLEAN
      BY <2>1, <2>2, <3>1, ClosingDown
    <3> QED BY <2>1, <2>2, <2>3, <3>2 DEF DownOK
  <2>4. CASE shell # "gone"
    <3>1. down' = down \o last /\ creset' = creset
      BY <2>4 DEF ServerEnds
    <3>2. "notify" \in DownFrames
      BY DEF DownFrames
    <3>3. CASE last = <<"notify">>
      <4>1. DownOK(Append(down, "notify"), Room + 1)
        BY <2>1, <3>2, DownWithOneMore
      <4>2. down \o <<"notify">> = Append(down, "notify")
        BY <2>1, <3>2, QueueSteps DEF TypeOK
      <4> QED BY <2>1, <2>4, <3>1, <3>3, <4>1, <4>2 DEF TypeOK
    <3>4. CASE last = <<>>
      <4>1. down \o <<>> = down
        BY <2>1, ConcatEmptySeq DEF TypeOK
      <4> QED BY <2>1, <2>4, <3>1, <3>4, <4>1, LenProperties DEF TypeOK, DownOK
    <3> QED BY <2>2, <3>3, <3>4
  <2> QED BY <2>3, <2>4
<1>2. c_alive' \in BOOLEAN /\ s_alive' \in BOOLEAN /\ creset' \in BOOLEAN /\ sreset' \in BOOLEAN
  BY <1>1, Zenon DEF Inv, TypeOK, ServerEnds
<1>3. TypeOK'
  BY <1>1, <1>2, RoomAssumption DEF Inv, TypeOK, Bounded, ServerHolds, UpOK, DownOK, ServerEnds
<1>4. Bounded'
  BY <1>1, <1>2, RoomAssumption DEF Inv, TypeOK, Bounded, ServerHolds, UpOK, DownOK, ServerEnds
<1>5. HandshakeIsTheClients'
  BY <1>1, <1>2, Z3 DEF Inv, TypeOK, HandshakeIsTheClients, UpOK, ServerEnds
<1>6. ServerPhase'
  BY <1>1, <1>2, Z3 DEF Inv, TypeOK, ServerPhase, ServerEnds
<1> QED BY <1>3, <1>4, <1>5, <1>6 DEF Inv

LEMMA ReceiveKeeps == Inv /\ Receive => Inv'
<1> SUFFICES ASSUME Inv, Receive PROVE Inv'
  OBVIOUS
<1> USE DEF client, server
<1>1. up' = up \/ UpOK(up', Len(up))
  <2>1. CASE Arrived(up, UpFrames \ {"fin"}) /\ up' = Tail(up)
    <3>1. up # <<>> /\ Len(up) <= Len(up) /\ Len(up) \in Nat
      BY <2>1, LenProperties DEF Inv, TypeOK, Arrived
    <3> QED BY <2>1, <3>1, TakingUp DEF Inv
  <2> QED BY <2>1 DEF Receive
<1>2. c_alive' \in BOOLEAN /\ s_alive' \in BOOLEAN /\ creset' \in BOOLEAN /\ sreset' \in BOOLEAN
  BY <1>1, Zenon DEF Inv, TypeOK, Receive, ServerNoSsl
<1>3. TypeOK'
  BY <1>1, <1>2, RoomAssumption DEF Inv, TypeOK, Bounded, ServerHolds, UpOK, DownOK, Receive, ServerNoSsl
<1>4. Bounded'
  BY <1>1, <1>2, RoomAssumption DEF Inv, TypeOK, Bounded, ServerHolds, UpOK, DownOK, Receive, ServerNoSsl
<1>5. HandshakeIsTheClients'
  BY <1>1, <1>2, Z3 DEF Inv, TypeOK, HandshakeIsTheClients, UpOK, Receive, ServerNoSsl
<1>6. ServerPhase'
  BY <1>1, <1>2, Z3 DEF Inv, TypeOK, ServerPhase, Receive, ServerNoSsl
<1> QED BY <1>3, <1>4, <1>5, <1>6 DEF Inv

LEMMA ReceiveFailsKeeps == Inv /\ ReceiveFails => Inv'
<1> SUFFICES ASSUME Inv, ReceiveFails PROVE Inv'
  OBVIOUS
<1> USE DEF client, server
<1>1. c_alive' \in BOOLEAN /\ s_alive' \in BOOLEAN /\ creset' \in BOOLEAN /\ sreset' \in BOOLEAN
  BY Zenon DEF Inv, TypeOK, ReceiveFails
<1>2. TypeOK'
  BY <1>1, RoomAssumption DEF Inv, TypeOK, Bounded, ServerHolds, UpOK, DownOK, ReceiveFails
<1>3. Bounded'
  BY <1>1, RoomAssumption DEF Inv, TypeOK, Bounded, ServerHolds, UpOK, DownOK, ReceiveFails
<1>4. HandshakeIsTheClients'
  BY <1>1, Z3 DEF Inv, TypeOK, HandshakeIsTheClients, UpOK, ReceiveFails
<1>5. ServerPhase'
  BY <1>1, Z3 DEF Inv, TypeOK, ServerPhase, ReceiveFails
<1> QED BY <1>2, <1>3, <1>4, <1>5 DEF Inv

LEMMA WriteToShellKeeps == Inv /\ WriteToShell => Inv'
<1> SUFFICES ASSUME Inv, WriteToShell PROVE Inv'
  OBVIOUS
<1> USE DEF client, server
<1>1. c_alive' \in BOOLEAN /\ s_alive' \in BOOLEAN /\ creset' \in BOOLEAN /\ sreset' \in BOOLEAN
  BY Zenon DEF Inv, TypeOK, WriteToShell
<1>2. TypeOK'
  BY <1>1, RoomAssumption DEF Inv, TypeOK, Bounded, ServerHolds, UpOK, DownOK, WriteToShell
<1>3. Bounded'
  BY <1>1, RoomAssumption DEF Inv, TypeOK, Bounded, ServerHolds, UpOK, DownOK, WriteToShell
<1>4. HandshakeIsTheClients'
  BY <1>1, Z3 DEF Inv, TypeOK, HandshakeIsTheClients, UpOK, WriteToShell
<1>5. ServerPhase'
  BY <1>1, Z3 DEF Inv, TypeOK, ServerPhase, WriteToShell
<1> QED BY <1>2, <1>3, <1>4, <1>5 DEF Inv

LEMMA ReadFromShellKeeps == Inv /\ ReadFromShell => Inv'
<1> SUFFICES ASSUME Inv, ReadFromShell PROVE Inv'
  OBVIOUS
<1> USE DEF client, server
<1>1. c_alive' \in BOOLEAN /\ s_alive' \in BOOLEAN /\ creset' \in BOOLEAN /\ sreset' \in BOOLEAN
  BY Zenon DEF Inv, TypeOK, ReadFromShell
<1>2. TypeOK'
  BY <1>1, RoomAssumption DEF Inv, TypeOK, Bounded, ServerHolds, UpOK, DownOK, ReadFromShell
<1>3. Bounded'
  BY <1>1, RoomAssumption DEF Inv, TypeOK, Bounded, ServerHolds, UpOK, DownOK, ReadFromShell
<1>4. HandshakeIsTheClients'
  BY <1>1, Z3 DEF Inv, TypeOK, HandshakeIsTheClients, UpOK, ReadFromShell
<1>5. ServerPhase'
  BY <1>1, Z3 DEF Inv, TypeOK, ServerPhase, ReadFromShell
<1> QED BY <1>2, <1>3, <1>4, <1>5 DEF Inv

LEMMA SendChunkKeeps == Inv /\ SendChunk => Inv'
<1> SUFFICES ASSUME Inv, SendChunk PROVE Inv'
  OBVIOUS
<1> USE DEF client, server
<1>1. (down' = down /\ sreset' = sreset) \/ (DownOK(down', Room) /\ sreset' \in BOOLEAN)
  BY SendingDown, RoomAssumption DEF Inv, TypeOK, Bounded, SendChunk, DownFrames
<1>2. c_alive' \in BOOLEAN /\ s_alive' \in BOOLEAN /\ creset' \in BOOLEAN /\ sreset' \in BOOLEAN
  BY <1>1, Zenon DEF Inv, TypeOK, SendChunk
<1>3. TypeOK'
  BY <1>1, <1>2, RoomAssumption DEF Inv, TypeOK, Bounded, ServerHolds, UpOK, DownOK, SendChunk
<1>4. Bounded'
  BY <1>1, <1>2, RoomAssumption DEF Inv, TypeOK, Bounded, ServerHolds, UpOK, DownOK, SendChunk
<1>5. HandshakeIsTheClients'
  BY <1>1, <1>2, Z3 DEF Inv, TypeOK, HandshakeIsTheClients, UpOK, SendChunk
<1>6. ServerPhase'
  BY <1>1, <1>2, Z3 DEF Inv, TypeOK, ServerPhase, SendChunk
<1> QED BY <1>3, <1>4, <1>5, <1>6 DEF Inv

LEMMA SendChunkFailsKeeps == Inv /\ SendChunkFails => Inv'
<1> SUFFICES ASSUME Inv, SendChunkFails PROVE Inv'
  OBVIOUS
<1> USE DEF client, server
<1>1. c_alive' \in BOOLEAN /\ s_alive' \in BOOLEAN /\ creset' \in BOOLEAN /\ sreset' \in BOOLEAN
  BY Zenon DEF Inv, TypeOK, SendChunkFails
<1>2. TypeOK'
  BY <1>1, RoomAssumption DEF Inv, TypeOK, Bounded, ServerHolds, UpOK, DownOK, SendChunkFails
<1>3. Bounded'
  BY <1>1, RoomAssumption DEF Inv, TypeOK, Bounded, ServerHolds, UpOK, DownOK, SendChunkFails
<1>4. HandshakeIsTheClients'
  BY <1>1, Z3 DEF Inv, TypeOK, HandshakeIsTheClients, UpOK, SendChunkFails
<1>5. ServerPhase'
  BY <1>1, Z3 DEF Inv, TypeOK, ServerPhase, SendChunkFails
<1> QED BY <1>2, <1>3, <1>4, <1>5 DEF Inv

LEMMA ShellEndsKeeps == Inv /\ ShellEnds => Inv'
<1> SUFFICES ASSUME Inv, ShellEnds PROVE Inv'
  OBVIOUS
<1> USE DEF client, server
<1>1. (down' = down /\ creset' = creset) \/ (DownOK(down', Room + 2) /\ creset' \in BOOLEAN /\ srv = "ended" /\ shell' = "gone")
  <2>1. CASE srv = "ended" /\ shell' = "gone" /\ CloseServer(<<>>)
    <3>1. Len(down) <= Room + 1 /\ Room + 1 \in Nat /\ TypeOK
      BY RoomAssumption DEF Inv, Bounded, ServerHolds, ShellEnds
    <3>2. DownOK(down', (Room + 1) + 1 + Len(<<>>)) /\ creset' \in BOOLEAN
      BY <2>1, <3>1, ClosingDown
    <3>3. (Room + 1) + 1 + Len(<<>>) = Room + 2
      BY RoomAssumption
    <3> QED BY <2>1, <3>2, <3>3
  <2>2. CASE UNCHANGED <<down, creset>>
    BY <2>2
  <2> QED BY <2>1, <2>2, Zenon DEF ShellEnds
<1>2. c_alive' \in BOOLEAN /\ s_alive' \in BOOLEAN /\ creset' \in BOOLEAN /\ sreset' \in BOOLEAN
  BY <1>1, Zenon DEF Inv, TypeOK, ShellEnds
<1>3. TypeOK'
  BY <1>1, <1>2, RoomAssumption DEF Inv, TypeOK, Bounded, ServerHolds, UpOK, DownOK, ShellEnds
<1>4. Bounded'
  BY <1>1, <1>2, RoomAssumption DEF Inv, TypeOK, Bounded, ServerHolds, UpOK, DownOK, ShellEnds
<1>5. HandshakeIsTheClients'
  BY <1>1, <1>2, Z3 DEF Inv, TypeOK, HandshakeIsTheClients, UpOK, ShellEnds
<1>6. ServerPhase'
  BY <1>1, <1>2, Z3 DEF Inv, TypeOK, ServerPhase, ShellEnds
<1> QED BY <1>3, <1>4, <1>5, <1>6 DEF Inv

LEMMA SwitchedOffKeeps == Inv /\ SwitchedOff => Inv'
<1> SUFFICES ASSUME Inv, SwitchedOff PROVE Inv'
  OBVIOUS
<1> USE DEF client, server
<1>1. c_alive' \in BOOLEAN /\ s_alive' \in BOOLEAN /\ creset' \in BOOLEAN /\ sreset' \in BOOLEAN
  BY Zenon DEF Inv, TypeOK, SwitchedOff
<1>2. TypeOK'
  BY <1>1, RoomAssumption DEF Inv, TypeOK, Bounded, ServerHolds, UpOK, DownOK, SwitchedOff
<1>3. Bounded'
  BY <1>1, RoomAssumption DEF Inv, TypeOK, Bounded, ServerHolds, UpOK, DownOK, SwitchedOff
<1>4. HandshakeIsTheClients'
  BY <1>1, Z3 DEF Inv, TypeOK, HandshakeIsTheClients, UpOK, SwitchedOff
<1>5. ServerPhase'
  BY <1>1, Z3 DEF Inv, TypeOK, ServerPhase, SwitchedOff
<1> QED BY <1>2, <1>3, <1>4, <1>5 DEF Inv

LEMMA SslCrashKeeps == Inv /\ SslCrash => Inv'
<1> SUFFICES ASSUME Inv, SslCrash PROVE Inv'
  OBVIOUS
<1> USE DEF client, server
<1>1. (up' = up /\ sreset' = sreset) \/ (UpOK(up', Room + 1) /\ sreset' \in BOOLEAN /\ cli' = "ended")
  <2>1. CASE cli = "up" /\ cli' = "ended" /\ CloseClient
    BY <2>1, ClosingUp DEF Inv
  <2>2. CASE UNCHANGED <<up, sreset>>
    BY <2>2
  <2> QED BY <2>1, <2>2, Zenon DEF SslCrash
<1>2. (down' = down /\ creset' = creset) \/ (DownOK(down', Room + 1) /\ creset' \in BOOLEAN /\ srv' = "ended" /\ shell = "gone")
  <2>1. CASE srv = "up" /\ srv' = "ended" /\ shell = "gone" /\ CloseServer(<<>>)
    <3>1. Len(down) <= Room /\ Room \in Nat /\ TypeOK
      BY <2>1, RoomAssumption DEF Inv, Bounded
    <3>2. DownOK(down', Room + 1 + Len(<<>>)) /\ creset' \in BOOLEAN
      BY <2>1, <3>1, ClosingDown
    <3> QED BY <2>1, <3>1, <3>2
  <2>2. CASE UNCHANGED <<down, creset>>
    BY <2>2
  <2> QED BY <2>1, <2>2, Zenon DEF SslCrash
<1>3. c_alive' \in BOOLEAN /\ s_alive' \in BOOLEAN /\ creset' \in BOOLEAN /\ sreset' \in BOOLEAN
  BY <1>1, <1>2, Zenon DEF Inv, TypeOK, SslCrash
<1>4. TypeOK'
  BY <1>1, <1>2, <1>3, RoomAssumption DEF Inv, TypeOK, Bounded, ServerHolds, UpOK, DownOK, SslCrash
<1>5. Bounded'
  BY <1>1, <1>2, <1>3, RoomAssumption DEF Inv, TypeOK, Bounded, ServerHolds, UpOK, DownOK, SslCrash
<1>6. HandshakeIsTheClients'
  BY <1>1, <1>2, <1>3, Z3 DEF Inv, TypeOK, HandshakeIsTheClients, UpOK, SslCrash
<1>7. ServerPhase'
  BY <1>1, <1>2, <1>3, Z3 DEF Inv, TypeOK, ServerPhase, SslCrash
<1> QED BY <1>4, <1>5, <1>6, <1>7 DEF Inv

LEMMA StepInv == Inv /\ [Next]_vars => Inv'
<1> SUFFICES ASSUME Inv, [Next]_vars PROVE Inv'
  OBVIOUS
<1>1. CASE ClientStep
  BY <1>1, ClientHelloKeeps, ClientFinishesKeeps, ClientHandshakeFailsKeeps, SendKeysKeeps,
     SendKeysFailsKeeps, ClientEndsKeeps DEF ClientStep
<1>2. CASE PrintOutput \/ Type
  BY <1>2, PrintOutputKeeps, TypeKeeps
<1>3. CASE MainStep
  BY <1>3, ServerHelloKeeps, ServerFinishesKeeps, ServerHandshakeFailsKeeps, SpawnKeeps,
     ServerEndsKeeps DEF MainStep
<1>4. CASE CmdStep
  BY <1>4, ReceiveKeeps, ReceiveFailsKeeps, WriteToShellKeeps DEF CmdStep
<1>5. CASE OutStep \/ ReadFromShell
  BY <1>5, SendChunkKeeps, SendChunkFailsKeeps, ReadFromShellKeeps DEF OutStep
<1>6. CASE ShellEnds \/ SwitchedOff \/ SslCrash
  BY <1>6, ShellEndsKeeps, SwitchedOffKeeps, SslCrashKeeps
<1>7. CASE UNCHANGED vars
  BY <1>7 DEF vars, Inv, TypeOK, Bounded, ServerHolds, HandshakeIsTheClients, ServerPhase
<1> QED BY <1>1, <1>2, <1>3, <1>4, <1>5, <1>6, <1>7 DEF Next, Terminated

\* The inductive invariant holds of every behaviour.
THEOREM Invariance == Spec => []Inv
BY InitInv, StepInv, PTL DEF Spec

\* The two ends and the connection keep their types, and a connection never holds more
\* than it has room for, one goodbye and the end of the stream.
THEOREM TypeCorrect == Spec => []TypeOK
BY Invariance, PTL DEF Inv

\* For any room on the connection and whichever transports the two programs were
\* started with, a TLS server passes on the commands of a client it knows only.
THEOREM StrangersDoNotCommand == Spec => []OnlyKnownClientsCommand
<1>1. Inv => OnlyKnownClientsCommand
  BY DEF Inv, ServerPhase, OnlyKnownClientsCommand
<1> QED BY <1>1, Invariance, PTL

=============================================================================
