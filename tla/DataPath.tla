------------------------------- MODULE DataPath -------------------------------
(***************************************************************************)
(* One direction of a session's data plane, from the source a worker reads *)
(* to the sink the other end's worker writes:                              *)
(*                                                                         *)
(*   upward    keyboard -> command_line_thread -> command_prompt_thread    *)
(*             -> pty master (client/main.c, client_mgmt.c)                *)
(*   downward  pty master -> writeOutput -> getOutput -> terminal          *)
(*                                                                         *)
(* A sender reads what there is into a zeroed buffer and sends the whole   *)
(* buffer, padding included: a frame of DEF_DATASIZE bytes.  TCP keeps     *)
(* the bytes and their order and forgets the frames; TLS keeps the frames, *)
(* since each is one record.  The bytes of the source are numbered         *)
(* 1, 2, 3, ...; 0 is the padding.                                         *)
(***************************************************************************)
EXTENDS Integers, Sequences

CONSTANTS
  TLSModes,    \* the values of will_use_tls a run starts with
  FrameSize,   \* DEF_DATASIZE, and the length of both receive calls
  Capacity,    \* bytes the socket buffers between the two ends hold
  MaxBytes     \* bound: how many bytes the source has to give

ASSUME ModeAssumption  == TLSModes \subseteq BOOLEAN
ASSUME FrameAssumption == FrameSize \in Nat \ {0}
ASSUME BoundAssumption == Capacity \in Nat /\ MaxBytes \in Nat

VARIABLES
  mode,              \* the direction and the transport, which never change
  sender, receiver,  \* where each worker is; "off": it has left its loop
  obuf, ibuf,        \* their buffers, FrameSize bytes each
  got,               \* numread of the receiver
  produced,          \* the bytes the source has given so far
  pending,           \* a frame OpenSSL has begun to write for a call that gave up
  wire,              \* bytes in flight
  delivered,         \* bytes the sink has taken, padding included
  faults             \* history: what the environment has done to the data

vars == <<mode, sender, receiver, obuf, ibuf, got, produced, pending, wire, delivered, faults>>
sending   == <<mode, sender, obuf, produced, pending>>
receiving == <<mode, receiver, ibuf, got, delivered>>

Upward       == mode.upward   \* from the client to the server?
will_use_tls == mode.tls

Zeros  == [i \in 1..FrameSize |-> 0]
Stray  == -1                          \* a byte from behind the end of raw_line
Faults == {"dropped", "short", "cut"}
Bytes  == 0..MaxBytes

TypeOK ==
  /\ mode \in [upward : BOOLEAN, tls : BOOLEAN]
  /\ sender \in {"read", "send", "off"} /\ receiver \in {"recv", "write", "off"}
  /\ obuf \in [1..FrameSize -> Bytes] /\ ibuf \in [1..FrameSize -> Bytes]
  /\ got \in 0..FrameSize /\ produced \in Bytes
  /\ pending \in {<<>>} \cup [1..FrameSize -> Bytes]
  /\ wire \in Seq(Bytes) /\ Len(wire) <= Capacity
  /\ delivered \in Seq(Bytes \cup {Stray})
  /\ faults \subseteq Faults

Init ==
  /\ mode \in [upward : BOOLEAN, tls : TLSModes]
  /\ sender = "read" /\ receiver = "recv"
  /\ obuf = Zeros /\ ibuf = Zeros /\ got = 0
  /\ produced = 0 /\ pending = <<>> /\ wire = <<>> /\ delivered = <<>>
  /\ faults = {}

-----------------------------------------------------------------------------
(* Helpers. *)

Room == Capacity - Len(wire)

\* Buffer b after s was read into its front.
Filled(b, s) == [i \in 1..FrameSize |-> IF i <= Len(s) THEN s[i] ELSE b[i]]

\* After a frame that could not be sent at once: the client's loop breaks, the
\* server drops the chunk and goes on.
AfterTimeout == IF Upward THEN "off" ELSE "read"

\* strlen(raw_line); it runs past the end of a frame without padding.
IsStrlen(n) == (\A i \in 1..n : ibuf[i] # 0) /\ (n < FrameSize => ibuf[n + 1] = 0)
Unterminated == Upward /\ \A i \in 1..FrameSize : ibuf[i] # 0

\* Mutant: the last byte is taken for a terminator.
IsTextLengthLessOne(n) ==
  IF Upward THEN IF ibuf[1] = 0 THEN n = 0 ELSE n < FrameSize /\ IsStrlen(n + 1)
            ELSE n = got - 1

\* How much of its buffer the receiver hands to the sink: the server strlen(raw_line)
\* bytes, the client numread.
IsTextLength(n) == IF Upward THEN IsStrlen(n) ELSE n = got

-----------------------------------------------------------------------------
(* The sender. *)

\* Mutant: no memset.
ReadOverOld ==
  /\ sender = "read" /\ sender' = "send"
  /\ \E n \in 1..FrameSize :
       /\ produced + n <= MaxBytes /\ produced' = produced + n
       /\ obuf' = Filled(obuf, [i \in 1..n |-> produced + i])
  /\ UNCHANGED <<pending, wire, receiving, faults>>

\* memset, then readsome: n bytes are there, any number up to a frame.
Read ==
  /\ sender = "read" /\ sender' = "send"
  /\ \E n \in 1..FrameSize :
       /\ produced + n <= MaxBytes /\ produced' = produced + n
       /\ obuf' = Filled(Zeros, [i \in 1..n |-> produced + i])
  /\ UNCHANGED <<pending, wire, receiving, faults>>

\* sendsome: send takes what there is room for, and nobody compares the result
\* with DEF_DATASIZE.
SendPlain ==
  /\ sender = "send" /\ ~will_use_tls /\ sender' = "read"
  /\ \E k \in 1..FrameSize :
       /\ k <= Room
       /\ wire' = wire \o SubSeq(obuf, 1, k)
       /\ faults' = IF k < FrameSize THEN faults \cup {"short"} ELSE faults
  /\ UNCHANGED <<obuf, produced, pending, receiving>>

\* sendsome_ssl: SSL_write finishes the record it has begun before, if any, with
\* that record's bytes, and reports the new ones as written.
SendRecord ==
  /\ sender = "send" /\ will_use_tls /\ Room >= FrameSize /\ sender' = "read"
  /\ \/ pending = <<>> /\ wire' = wire \o obuf /\ UNCHANGED faults
     \/ pending # <<>> /\ wire' = wire \o pending /\ faults' = faults \cup {"dropped"}
  /\ pending' = <<>>
  /\ UNCHANGED <<obuf, produced, receiving>>

\* -2: not writable in time, with nothing of the frame written or with its record
\* begun.
SendTimesOut ==
  /\ sender = "send" /\ Room < FrameSize /\ sender' = AfterTimeout
  /\ pending' \in IF will_use_tls /\ pending = <<>> THEN {<<>>, obuf} ELSE {pending}
  /\ faults' = faults \cup {"dropped"}
  /\ UNCHANGED <<obuf, produced, wire, receiving>>

\* SSL_write returns 0 on a connection its peer has closed, which is no error to the
\* caller: the frame is dropped and the next one read.
SendClosed ==
  /\ sender = "send" /\ will_use_tls /\ receiver = "off" /\ sender' = "read"
  /\ faults' = faults \cup {"dropped"}
  /\ UNCHANGED <<obuf, produced, pending, wire, receiving>>

\* -1, a switch-off, Ctrl+D, or a call that spins for good: the sender leaves its loop.
SenderLeaves ==
  /\ sender # "off" /\ sender' = "off"
  /\ faults' = IF sender = "send" THEN faults \cup {"dropped"} ELSE faults
  /\ UNCHANGED <<obuf, produced, pending, wire, receiving>>

-----------------------------------------------------------------------------
(* The receiver. *)

\* Mutant: one byte more than the buffer holds.
ReceiveOneMore ==
  /\ receiver = "recv" /\ ~will_use_tls /\ receiver' = "write"
  /\ \E k \in 1..FrameSize + 1 :
       /\ k <= Len(wire) /\ got' = k
       /\ ibuf' = Filled(ibuf, SubSeq(wire, 1, k))
       /\ wire' = SubSeq(wire, k+1, Len(wire))
       /\ faults' = IF k < FrameSize THEN faults \cup {"cut"} ELSE faults
  /\ UNCHANGED <<sending, delivered>>

\* recvsome: whatever has arrived, up to a frame, wherever it begins.
ReceivePlain ==
  /\ receiver = "recv" /\ ~will_use_tls /\ receiver' = "write"
  /\ \E k \in 1..FrameSize :
       /\ k <= Len(wire) /\ got' = k
       /\ ibuf' = Filled(ibuf, SubSeq(wire, 1, k))
       /\ wire' = SubSeq(wire, k+1, Len(wire))
       /\ faults' = IF k < FrameSize THEN faults \cup {"cut"} ELSE faults
  /\ UNCHANGED <<sending, delivered>>

\* readsome_ssl: one record fills the buffer, and the loop is over.
ReceiveRecord ==
  /\ receiver = "recv" /\ will_use_tls /\ receiver' = "write"
  /\ Len(wire) >= FrameSize /\ got' = FrameSize
  /\ ibuf' = SubSeq(wire, 1, FrameSize)
  /\ wire' = SubSeq(wire, FrameSize+1, Len(wire))
  /\ UNCHANGED <<sending, delivered, faults>>

\* Mutant: the receive call is not in the loop.
DeliverOnce ==
  /\ receiver = "write" /\ receiver' = "write"
  /\ \E length \in 0..FrameSize :
       IsTextLength(length) /\ delivered' = delivered \o SubSeq(ibuf, 1, length)
  /\ ibuf' = Zeros /\ got' = 0
  /\ UNCHANGED <<sending, wire, faults>>

\* writesome, whose result is never compared with the length; then memset, which the
\* client skips when what it got is exit_word.
Deliver ==
  /\ receiver = "write" /\ receiver' = "recv"
  /\ \E length \in 0..FrameSize : \E n \in 0..length :
       /\ IsTextLength(length)
       /\ \/ delivered' = delivered \o SubSeq(ibuf, 1, n)
          \/ /\ Unterminated /\ n = length
             /\ delivered' = delivered \o SubSeq(ibuf, 1, n) \o <<Stray>>
       /\ faults' = IF n < length THEN faults \cup {"short"} ELSE faults
  /\ ibuf' \in IF Upward THEN {Zeros} ELSE {Zeros, ibuf}
  /\ UNCHANGED <<sending, got, wire>>

\* A failed write, a timeout of the server, a switch-off, or a call that spins for good.
ReceiverLeaves ==
  /\ receiver # "off" /\ receiver' = "off"
  /\ UNCHANGED <<sending, ibuf, got, wire, delivered, faults>>

\* Both ends have left, or one has and the other has nothing to do.
Terminated ==
  /\ sender = "off" \/ (sender = "read" /\ produced = MaxBytes)
  /\ receiver = "off" \/ (receiver = "recv" /\ wire = <<>>)
  /\ UNCHANGED vars

SenderStep   == Read \/ SendPlain \/ SendRecord \/ SendTimesOut \/ SendClosed
ReceiverStep == ReceivePlain \/ ReceiveRecord \/ Deliver

Next == SenderStep \/ SenderLeaves \/ ReceiverStep \/ ReceiverLeaves \/ Terminated

Spec == Init /\ [][Next]_vars

\* Both workers run and every select returns; nobody has to type or to leave.
FairSpec == Spec /\ WF_vars(SendPlain \/ SendRecord \/ SendTimesOut \/ SendClosed) /\ WF_vars(ReceiverStep)

-----------------------------------------------------------------------------
(* Properties. *)

\* The sink gets bytes of the source only, in their order and none of them twice,
\* whatever is dropped, cut, flushed late or left in a buffer; only padding and what
\* strlen finds behind raw_line is foreign.
InOrder ==
  /\ \A i \in 1..Len(delivered) : delivered[i] <= produced
  /\ \A i, j \in 1..Len(delivered) :
       i < j /\ delivered[i] > 0 /\ delivered[j] > 0 => delivered[i] < delivered[j]

\* No byte is missing before one the sink has got, but after a fault: the ones before any
\* that is delivered were delivered before it.  Of what a worker that leaves takes with it
\* nothing is said.  A frame that arrives in pieces is a fault for the server, which
\* stops at the first padding byte, and none for the client.
Lossless ==
  faults \subseteq (IF Upward THEN {} ELSE {"cut"}) =>
    \A i \in 1..Len(delivered) : \A b \in 1..delivered[i] : \E j \in 1..i : delivered[j] = b

\* What the source has given reaches the sink, unless it is lost or a worker has
\* left.
EverythingArrives ==
  \A b \in 1..MaxBytes :
    produced >= b ~> \/ \E i \in 1..Len(delivered) : delivered[i] = b
                     \/ faults # {} \/ sender = "off" \/ receiver = "off"

=============================================================================
