---------------------------- MODULE DataPathProofs ----------------------------
(***************************************************************************)
(* Type correctness and order of the data plane for frames of any size,    *)
(* any room on the connection and any amount of data.                      *)
(*                                                                         *)
(* The bytes on their way lie in five sequences, from the sink back to the *)
(* source: delivered, what the receiver holds, wire, the record begun, and *)
(* what the sender holds.  The source's bytes strictly increase along each *)
(* of them and from each to those behind it; a step only drops bytes,      *)
(* moves them to the end of the next sequence, or adds padding, strays or  *)
(* bytes newer than all.                                                   *)
(***************************************************************************)
EXTENDS DataPath, SequenceTheorems, TLAPS

Increasing(s) == \A i, j \in 1..Len(s) : i < j /\ s[i] > 0 /\ s[j] > 0 => s[i] < s[j]
Before(s, t)  == \A i \in 1..Len(s), j \in 1..Len(t) : s[i] > 0 /\ t[j] > 0 => s[i] < t[j]
UpTo(s, n)    == \A i \in 1..Len(s) : s[i] <= n

\* A piece of a sequence has its order, and its place among the others.
LEMMA Pieces ==
  ASSUME NEW s \in Seq(Int), NEW t \in Seq(Int), NEW b \in Int,
         NEW m \in Nat \ {0}, NEW n \in Nat, n <= Len(s)
  PROVE  /\ SubSeq(s, m, n) \in Seq(Int)
         /\ Increasing(s) => Increasing(SubSeq(s, m, n))
         /\ UpTo(s, b) => UpTo(SubSeq(s, m, n), b)
         /\ Before(s, t) => Before(SubSeq(s, m, n), t)
         /\ Before(t, s) => Before(t, SubSeq(s, m, n))
<1> DEFINE p == SubSeq(s, m, n)
<1>1. CASE m > n
  <2>1. p = <<>>
    BY <1>1, SubSeqEmpty
  <2> QED BY <2>1 DEF Increasing, Before, UpTo
<1>2. CASE m <= n
  <2>1. /\ p \in Seq(Int) /\ Len(p) = n - m + 1
        /\ \A i \in 1..Len(p) : p[i] = s[m + i - 1]
    BY <1>2, SubSeqProperties
  <2>2. \A i \in 1..Len(p) : m + i - 1 \in 1..Len(s)
    BY <1>2, <2>1, LenProperties
  <2> HIDE DEF p
  <2>3. Increasing(s) => Increasing(p)
    <3> SUFFICES ASSUME Increasing(s), NEW i \in 1..Len(p), NEW j \in 1..Len(p),
                        i < j, p[i] > 0, p[j] > 0
                 PROVE  p[i] < p[j]
      BY DEF Increasing
    <3>1. m + i - 1 \in 1..Len(s) /\ m + j - 1 \in 1..Len(s)
      BY <2>2
    <3>2. p[i] = s[m + i - 1] /\ p[j] = s[m + j - 1]
      BY <2>1
    <3>3. m + i - 1 < m + j - 1
      BY <2>1
    <3> QED BY <3>1, <3>2, <3>3 DEF Increasing
  <2>4. UpTo(s, b) => UpTo(p, b)
    BY <2>1, <2>2, LenProperties DEF UpTo
  <2>5. (Before(s, t) => Before(p, t)) /\ (Before(t, s) => Before(t, p))
    BY <2>1, <2>2, LenProperties DEF Before
  <2> QED BY <2>1, <2>3, <2>4, <2>5 DEF p
<1> QED BY <1>1, <1>2

\* Two sequences joined.
LEMMA Joins ==
  ASSUME NEW s \in Seq(Int), NEW t \in Seq(Int), NEW u \in Seq(Int), NEW b \in Int
  PROVE  /\ s \o t \in Seq(Int)
         /\ Increasing(s) /\ Increasing(t) /\ Before(s, t) => Increasing(s \o t)
         /\ UpTo(s, b) /\ UpTo(t, b) => UpTo(s \o t, b)
         /\ Before(s, u) /\ Before(t, u) => Before(s \o t, u)
         /\ Before(u, s) /\ Before(u, t) => Before(u, s \o t)
<1> DEFINE p == s \o t
<1>1. /\ p \in Seq(Int) /\ Len(p) = Len(s) + Len(t)
      /\ \A i \in 1..Len(p) : p[i] = IF i <= Len(s) THEN s[i] ELSE t[i - Len(s)]
  BY ConcatProperties
<1>2. Len(s) \in Nat /\ Len(t) \in Nat /\ Len(u) \in Nat
  BY LenProperties
<1>3. \A i \in 1..Len(p) : \/ i \in 1..Len(s) /\ p[i] = s[i]
                           \/ i - Len(s) \in 1..Len(t) /\ i > Len(s) /\ p[i] = t[i - Len(s)]
  BY <1>1, <1>2
<1> HIDE DEF p
<1>4. Increasing(s) /\ Increasing(t) /\ Before(s, t) => Increasing(p)
  <2> SUFFICES ASSUME Increasing(s), Increasing(t), Before(s, t),
                      NEW i \in 1..Len(p), NEW j \in 1..Len(p), i < j, p[i] > 0, p[j] > 0
               PROVE  p[i] < p[j]
    BY DEF Increasing
  <2>1. CASE i \in 1..Len(s) /\ p[i] = s[i]
    BY <1>1, <1>2, <1>3, <2>1 DEF Increasing, Before
  <2>2. CASE i - Len(s) \in 1..Len(t) /\ i > Len(s) /\ p[i] = t[i - Len(s)]
    <3>1. i - Len(s) < j - Len(s) /\ ~(j \in 1..Len(s))
      BY <1>1, <1>2, <2>2
    <3>2. j - Len(s) \in 1..Len(t) /\ p[j] = t[j - Len(s)]
      BY <1>3, <3>1
    <3> QED BY <2>2, <3>1, <3>2 DEF Increasing
  <2> QED BY <1>3, <2>1, <2>2
<1>5. UpTo(s, b) /\ UpTo(t, b) => UpTo(p, b)
  BY <1>1, <1>2, <1>3 DEF UpTo
<1>6. Before(s, u) /\ Before(t, u) => Before(p, u)
  BY <1>1, <1>2, <1>3 DEF Before
<1>7. Before(u, s) /\ Before(u, t) => Before(u, p)
  BY <1>1, <1>2, <1>3 DEF Before
<1> QED BY <1>1, <1>4, <1>5, <1>6, <1>7 DEF p

\* The two halves of a sequence are in order.
LEMMA Halves ==
  ASSUME NEW s \in Seq(Int), Increasing(s), NEW k \in 1..Len(s)
  PROVE  Before(SubSeq(s, 1, k), SubSeq(s, k + 1, Len(s)))
<1> DEFINE p == SubSeq(s, 1, k)  q == SubSeq(s, k + 1, Len(s))
<1>1. Len(s) \in Nat
  BY LenProperties
<1>2. Len(p) = k /\ \A i \in 1..k : p[i] = s[i]
  BY <1>1, SubSeqProperties
<1>3. CASE k = Len(s)
  <2>1. q = <<>>
    BY <1>1, <1>3, SubSeqEmpty
  <2>2. Len(q) = 0
    BY <2>1, EmptySeq
  <2> HIDE DEF p, q
  <2>3. Before(p, q)
    BY <2>2 DEF Before
  <2> QED BY <2>3 DEF p, q
<1>4. CASE k < Len(s)
  <2>1. Len(q) = Len(s) - k /\ \A i \in 1..Len(q) : q[i] = s[k + i]
    BY <1>1, <1>4, SubSeqProperties
  <2> HIDE DEF p, q
  <2> QED BY <1>1, <1>2, <1>4, <2>1 DEF Increasing, Before, p, q
<1> QED BY <1>1, <1>3, <1>4

\* Nothing, padding and strays are in nobody's way.
LEMMA Neutral ==
  ASSUME NEW s \in Seq(Int), NEW b \in Nat, NEW z \in {<<>>, <<Stray>>}
  PROVE  z \in Seq(Int) /\ Increasing(z) /\ UpTo(z, b) /\ Before(z, s) /\ Before(s, z)
<1>1. CASE z = <<>>
  <2>1. z \in Seq(Int) /\ Len(z) = 0
    BY <1>1
  <2> QED BY <2>1 DEF Increasing, UpTo, Before
<1>2. CASE z = <<Stray>>
  <2>1. z \in Seq(Int) /\ Len(z) = 1 /\ z[1] = -1
    BY <1>2 DEF Stray
  <2> QED BY <2>1 DEF Increasing, UpTo, Before
<1> QED BY <1>1, <1>2

-----------------------------------------------------------------------------

\* What each worker holds of the data.
Inbox  == IF receiver = "write" THEN SubSeq(ibuf, 1, got) ELSE <<>>
Outbox == IF sender = "send" THEN obuf ELSE <<>>

Sound(s, n) == Increasing(s) /\ UpTo(s, n)

Order ==
  /\ Sound(delivered, produced) /\ Sound(Inbox, produced) /\ Sound(wire, produced)
  /\ Sound(pending, produced) /\ Sound(Outbox, produced)
  /\ Before(delivered, Inbox) /\ Before(delivered, wire)
  /\ Before(delivered, pending) /\ Before(delivered, Outbox)
  /\ Before(Inbox, wire) /\ Before(Inbox, pending) /\ Before(Inbox, Outbox)
  /\ Before(wire, pending) /\ Before(wire, Outbox)
  /\ Before(pending, Outbox)

\* The server's buffer holds nothing behind what it has received, so that strlen stays
\* within it; only a TLS connection has a record begun.
Tidy ==
  /\ Upward /\ receiver = "recv" => ibuf = Zeros
  /\ Upward /\ receiver = "write" => \A i \in 1..FrameSize : i > got => ibuf[i] = 0
  /\ ~will_use_tls => pending = <<>>

Inv == TypeOK /\ Order /\ Tidy

LEMMA Frames ==
  ASSUME NEW S, NEW f \in [1..FrameSize -> S]
  PROVE  f \in Seq(S) /\ Len(f) = FrameSize
BY FrameAssumption

LEMMA Zeroed == Zeros \in [1..FrameSize -> Bytes] /\ Zeros # <<>>
<1>1. Zeros \in [1..FrameSize -> Bytes]
  BY BoundAssumption DEF Zeros, Bytes
<1>2. Len(Zeros) = FrameSize /\ Len(<<>>) = 0
  BY <1>1, Frames
<1> QED BY <1>1, <1>2, FrameAssumption

\* All five are sequences of numbers.
LEMMA Segments ==
  ASSUME TypeOK
  PROVE  /\ delivered \in Seq(Int) /\ Inbox \in Seq(Int) /\ wire \in Seq(Int)
         /\ pending \in Seq(Int) /\ Outbox \in Seq(Int)
         /\ obuf \in Seq(Int) /\ Len(obuf) = FrameSize
         /\ ibuf \in Seq(Int) /\ Len(ibuf) = FrameSize
         /\ produced \in Nat /\ Len(wire) \in Nat /\ got \in 0..FrameSize
<1>1. /\ \A f \in [1..FrameSize -> Bytes] : f \in Seq(Int) /\ Len(f) = FrameSize
      /\ Bytes \subseteq Int /\ Bytes \subseteq Nat /\ Bytes \cup {Stray} \subseteq Int
  <2>1. Bytes \subseteq Nat /\ Stray \in Int
    BY BoundAssumption DEF Bytes, Stray
  <2>2. \A f \in [1..FrameSize -> Bytes] : f \in [1..FrameSize -> Int]
    <3> TAKE f \in [1..FrameSize -> Bytes]
    <3>1. \A i \in 1..FrameSize : f[i] \in 0..MaxBytes
      BY DEF Bytes
    <3> QED BY <3>1, BoundAssumption
  <2> QED BY <2>1, <2>2, Frames
<1>2. obuf \in Seq(Int) /\ Len(obuf) = FrameSize /\ ibuf \in Seq(Int) /\ Len(ibuf) = FrameSize
  BY <1>1 DEF TypeOK
<1>3. delivered \in Seq(Int) /\ wire \in Seq(Int)
  BY <1>1, SeqMonotonic DEF TypeOK
<1>4. pending \in Seq(Int)
  <2>1. <<>> \in Seq(Int)
    OBVIOUS
  <2>2. pending = <<>> \/ pending \in [1..FrameSize -> Bytes]
    BY DEF TypeOK
  <2> QED BY <1>1, <2>1, <2>2
<1>5. produced \in Nat /\ Len(wire) \in Nat /\ got \in 0..FrameSize
  BY <1>1, <1>3, LenProperties DEF TypeOK
<1>6. SubSeq(ibuf, 1, got) \in Seq(Int)
  BY <1>2, <1>5, Pieces, FrameAssumption
<1> QED BY <1>2, <1>3, <1>4, <1>5, <1>6 DEF Inbox, Outbox

LEMMA InitInv == Init => Inv
<1> SUFFICES ASSUME Init PROVE Inv
  OBVIOUS
<1>1. TypeOK
  <2>1. Len(<<>>) = 0 /\ 0 \in Bytes /\ 0 \in 0..FrameSize /\ 0 <= Capacity
    BY FrameAssumption, BoundAssumption DEF Bytes
  <2>2. mode \in [upward : BOOLEAN, tls : BOOLEAN]
    BY ModeAssumption DEF Init
  <2> QED BY <2>1, <2>2, Zeroed DEF Init, TypeOK
<1>2. Order
  <2>1. <<>> \in Seq(Int) /\ 0 \in Nat
    OBVIOUS
  <2>2. Sound(<<>>, 0) /\ Before(<<>>, <<>>)
    BY <2>1, Neutral DEF Sound
  <2> QED BY <2>2 DEF Init, Order, Inbox, Outbox
<1>3. Tidy
  BY DEF Init, Tidy
<1> QED BY <1>1, <1>2, <1>3 DEF Inv

-----------------------------------------------------------------------------
(* The sender's steps. *)

LEMMA ReadKeeps == Inv /\ Read => Inv'
<1> SUFFICES ASSUME Inv, Read PROVE Inv'
  OBVIOUS
<1> USE DEF receiving
<1>1. PICK n \in 1..FrameSize :
        /\ produced + n <= MaxBytes /\ produced' = produced + n
        /\ obuf' = Filled(Zeros, [i \in 1..n |-> produced + i])
  BY DEF Read
<1>2. /\ TypeOK /\ Order /\ Tidy /\ produced \in Nat /\ n \in Nat /\ produced' \in Nat
      /\ delivered \in Seq(Int) /\ Inbox \in Seq(Int) /\ wire \in Seq(Int) /\ pending \in Seq(Int)
  BY <1>1, Segments, FrameAssumption DEF Inv
<1>3. obuf' = [i \in 1..FrameSize |-> IF i <= n THEN produced + i ELSE 0]
  <2>1. [i \in 1..n |-> produced + i] \in Seq(Int) /\ Len([i \in 1..n |-> produced + i]) = n
    BY <1>2
  <2> QED BY <1>1, <1>2, <2>1, FrameAssumption DEF Filled, Zeros
<1>4. obuf' \in [1..FrameSize -> Bytes] /\ produced' \in Bytes
  <2>1. \A i \in 1..FrameSize : (IF i <= n THEN produced + i ELSE 0) \in Bytes
    BY <1>1, <1>2, BoundAssumption DEF Bytes
  <2>2. produced' \in Bytes
    BY <1>1, <1>2, BoundAssumption DEF Bytes
  <2> QED BY <1>3, <2>1, <2>2
<1>5. Len(obuf') = FrameSize /\ obuf' \in Seq(Int)
  BY <1>2, <1>3, FrameAssumption
<1>11. \A i \in 1..Len(obuf') : obuf'[i] = IF i <= n THEN produced + i ELSE 0
  BY <1>3, <1>5
<1>6. Increasing(obuf') /\ UpTo(obuf', produced')
  <2>1. \A i \in 1..Len(obuf') : obuf'[i] <= produced + n
    BY <1>2, <1>11
  <2>2. ASSUME NEW i \in 1..Len(obuf'), NEW j \in 1..Len(obuf'), i < j, obuf'[j] > 0
        PROVE  obuf'[i] < obuf'[j]
    <3>1. i \in Nat /\ j \in Nat
      BY <1>5, FrameAssumption
    <3>2. obuf'[j] = (IF j <= n THEN produced + j ELSE 0) /\ obuf'[i] = (IF i <= n THEN produced + i ELSE 0)
      BY <1>11
    <3> QED BY <1>2, <2>2, <3>1, <3>2
  <2> QED BY <1>1, <2>1, <2>2 DEF Increasing, UpTo
<1>7. ASSUME NEW s \in Seq(Int), UpTo(s, produced)
      PROVE  Before(s, obuf') /\ UpTo(s, produced')
  <2>1. \A i \in 1..Len(s) : s[i] \in Int /\ s[i] <= produced
    BY <1>7, ElementOfSeq DEF UpTo
  <2>2. \A i \in 1..Len(s), j \in 1..Len(obuf') : obuf'[j] > 0 => s[i] < obuf'[j]
    <3> TAKE i \in 1..Len(s), j \in 1..Len(obuf')
    <3>1. j \in Nat \ {0}
      BY <1>5, FrameAssumption
    <3>2. obuf'[j] = IF j <= n THEN produced + j ELSE 0
      BY <1>11
    <3>3. s[i] \in Int /\ s[i] <= produced
      BY <2>1
    <3> QED BY <1>2, <3>1, <3>2, <3>3
  <2>3. \A i \in 1..Len(s) : s[i] <= produced'
    BY <1>1, <1>2, <2>1
  <2> QED BY <2>2, <2>3 DEF Before, UpTo
<1>8. TypeOK'
  BY <1>2, <1>4 DEF Read, TypeOK
<1>9. Order'
  <2>1. /\ delivered' = delivered /\ Inbox' = Inbox /\ wire' = wire /\ pending' = pending
        /\ Outbox' = obuf'
    BY DEF Read, Inbox, Outbox
  <2> QED BY <1>2, <1>6, <1>7, <2>1 DEF Order, Sound
<1>10. Tidy'
  BY <1>2 DEF Read, Tidy, Upward, will_use_tls
<1> QED BY <1>8, <1>9, <1>10 DEF Inv

\* The frame the sender holds, or its first part, goes behind what is on the wire; with
\* a record begun it is that record that goes and the frame that is lost.
LEMMA SendPlainKeeps == Inv /\ SendPlain => Inv'
<1> SUFFICES ASSUME Inv, SendPlain PROVE Inv'
  OBVIOUS
<1> USE DEF receiving
<1>1. PICK k \in 1..FrameSize : k <= Room /\ wire' = wire \o SubSeq(obuf, 1, k)
  BY DEF SendPlain
<1> DEFINE p == SubSeq(obuf, 1, k)
<1>2. /\ TypeOK /\ Order /\ Tidy /\ produced \in Nat /\ k \in Nat \ {0} /\ k <= Len(obuf)
      /\ delivered \in Seq(Int) /\ Inbox \in Seq(Int) /\ wire \in Seq(Int)
      /\ pending = <<>> /\ pending \in Seq(Int) /\ obuf \in Seq(Int) /\ Outbox = obuf
  BY Segments, FrameAssumption DEF Inv, SendPlain, Outbox, Tidy
<1>3. p \in Seq(Int) /\ Sound(p, produced) /\ Before(delivered, p) /\ Before(Inbox, p) /\ Before(wire, p)
  BY <1>2, Pieces DEF Order, Sound
<1>4. p \in Seq(Bytes) /\ Len(p) = k
  BY <1>1, <1>2, SubSeqProperties, FrameAssumption DEF TypeOK
<1> HIDE DEF p
<1>5. /\ Sound(wire \o p, produced)
      /\ Before(delivered, wire \o p) /\ Before(Inbox, wire \o p)
  BY <1>2, <1>3, Joins DEF Order, Sound
<1>6. TypeOK'
  <2>1. wire' \in Seq(Bytes) /\ Len(wire') <= Capacity
    BY <1>1, <1>2, <1>4, ConcatProperties, LenProperties, BoundAssumption DEF p, Room, TypeOK
  <2>2. faults' \subseteq Faults
    BY DEF SendPlain, TypeOK, Faults, Inv
  <2> QED BY <1>2, <2>1, <2>2 DEF SendPlain, TypeOK
<1>7. Order'
  <2>1. /\ delivered' = delivered /\ Inbox' = Inbox /\ wire' = wire \o p /\ pending' = <<>>
        /\ Outbox' = <<>> /\ produced' = produced /\ wire' \in Seq(Int)
    <3>1. wire \o p \in Seq(Int)
      BY <1>2, <1>3, Joins
    <3> QED BY <1>1, <1>2, <3>1 DEF SendPlain, Inbox, Outbox, p
  <2>2. \A s \in Seq(Int) : Before(s, <<>>) /\ Before(<<>>, s)
    BY Neutral
  <2>3. Sound(<<>>, produced) /\ <<>> \in Seq(Int)
    BY <1>2, Neutral DEF Sound
  <2> QED BY <1>2, <1>5, <2>1, <2>2, <2>3 DEF Order
<1>8. Tidy'
  BY <1>2 DEF SendPlain, Tidy, Upward, will_use_tls
<1> QED BY <1>6, <1>7, <1>8 DEF Inv

LEMMA SendRecordKeeps == Inv /\ SendRecord => Inv'
<1> SUFFICES ASSUME Inv, SendRecord PROVE Inv'
  OBVIOUS
<1> USE DEF receiving
<1> DEFINE p == IF pending = <<>> THEN obuf ELSE pending
<1>1. /\ TypeOK /\ Order /\ Tidy /\ produced \in Nat
      /\ delivered \in Seq(Int) /\ Inbox \in Seq(Int) /\ wire \in Seq(Int)
      /\ pending \in Seq(Int) /\ obuf \in Seq(Int) /\ Outbox = obuf
  BY Segments DEF Inv, SendRecord, Outbox
<1>2. p \in Seq(Int) /\ Sound(p, produced) /\ Before(delivered, p) /\ Before(Inbox, p) /\ Before(wire, p)
  BY <1>1 DEF Order
<1>3. p \in Seq(Bytes) /\ Len(p) = FrameSize
  <2>1. p \in [1..FrameSize -> Bytes]
    BY <1>1 DEF TypeOK
  <2> QED BY <2>1, Frames
<1>4. wire' = wire \o p
  BY DEF SendRecord
<1> HIDE DEF p
<1>5. /\ Sound(wire \o p, produced)
      /\ Before(delivered, wire \o p) /\ Before(Inbox, wire \o p)
  BY <1>1, <1>2, Joins DEF Order, Sound
<1>6. TypeOK'
  <2>1. wire' \in Seq(Bytes) /\ Len(wire') <= Capacity
    BY <1>1, <1>3, <1>4, ConcatProperties, LenProperties, BoundAssumption, FrameAssumption
       DEF Room, TypeOK, SendRecord
  <2>2. faults' \subseteq Faults
    BY DEF SendRecord, TypeOK, Faults, Inv
  <2> QED BY <1>1, <2>1, <2>2 DEF SendRecord, TypeOK
<1>7. Order'
  <2>1. /\ delivered' = delivered /\ Inbox' = Inbox /\ wire' = wire \o p /\ pending' = <<>>
        /\ Outbox' = <<>> /\ produced' = produced /\ wire' \in Seq(Int)
    BY <1>1, <1>2, <1>4, Joins DEF SendRecord, Inbox, Outbox
  <2>2. \A s \in Seq(Int) : Before(s, <<>>) /\ Before(<<>>, s)
    BY Neutral
  <2>3. Sound(<<>>, produced) /\ <<>> \in Seq(Int)
    BY <1>1, Neutral DEF Sound
  <2> QED BY <1>1, <1>5, <2>1, <2>2, <2>3 DEF Order
<1>8. Tidy'
  BY <1>1 DEF SendRecord, Tidy, Upward, will_use_tls
<1> QED BY <1>6, <1>7, <1>8 DEF Inv

\* The frame is dropped, or becomes the record begun.
LEMMA SendTimesOutKeeps == Inv /\ SendTimesOut => Inv'
<1> SUFFICES ASSUME Inv, SendTimesOut PROVE Inv'
  OBVIOUS
<1> USE DEF receiving
<1>1. /\ TypeOK /\ Order /\ Tidy /\ produced \in Nat
      /\ delivered \in Seq(Int) /\ Inbox \in Seq(Int) /\ wire \in Seq(Int)
      /\ pending \in Seq(Int) /\ obuf \in Seq(Int) /\ Outbox = obuf
  BY Segments DEF Inv, SendTimesOut, Outbox
<1>2. pending' = pending \/ (will_use_tls /\ pending' = obuf)
  BY DEF SendTimesOut
<1>3. sender' \in {"read", "off"}
  BY DEF SendTimesOut, AfterTimeout
<1>4. TypeOK'
  <2>1. faults' \subseteq Faults
    BY DEF SendTimesOut, TypeOK, Faults, Inv
  <2> QED BY <1>1, <1>2, <1>3, <2>1 DEF SendTimesOut, TypeOK
<1>5. Order'
  <2>1. /\ delivered' = delivered /\ Inbox' = Inbox /\ wire' = wire
        /\ Outbox' = <<>> /\ produced' = produced
    BY <1>3 DEF SendTimesOut, Inbox, Outbox
  <2>2. \A s \in Seq(Int) : Before(s, <<>>) /\ Before(<<>>, s)
    BY Neutral
  <2>3. Sound(<<>>, produced) /\ <<>> \in Seq(Int)
    BY <1>1, Neutral DEF Sound
  <2> QED BY <1>1, <1>2, <2>1, <2>2, <2>3 DEF Order
<1>6. Tidy'
  BY <1>1, <1>2 DEF SendTimesOut, Tidy, Upward, will_use_tls
<1> QED BY <1>4, <1>5, <1>6 DEF Inv

\* What the sender holds is lost.
LEMMA SenderStopsKeeps == Inv /\ (SendClosed \/ SenderLeaves) => Inv'
<1> SUFFICES ASSUME Inv, SendClosed \/ SenderLeaves PROVE Inv'
  OBVIOUS
<1> USE DEF receiving
<1>1. /\ TypeOK /\ Order /\ Tidy /\ produced \in Nat
      /\ delivered \in Seq(Int) /\ Inbox \in Seq(Int) /\ wire \in Seq(Int) /\ pending \in Seq(Int)
  BY Segments DEF Inv
<1>2. TypeOK'
  BY <1>1 DEF SendClosed, SenderLeaves, TypeOK, Faults
<1>3. Order'
  <2>1. /\ delivered' = delivered /\ Inbox' = Inbox /\ wire' = wire /\ pending' = pending
        /\ Outbox' = <<>> /\ produced' = produced
    BY DEF SendClosed, SenderLeaves, Inbox, Outbox
  <2>2. \A s \in Seq(Int) : Before(s, <<>>)
    BY Neutral
  <2>3. Sound(<<>>, produced)
    BY <1>1, Neutral DEF Sound
  <2> QED BY <1>1, <2>1, <2>2, <2>3 DEF Order
<1>4. Tidy'
  BY <1>1 DEF SendClosed, SenderLeaves, Tidy, Upward, will_use_tls
<1> QED BY <1>2, <1>3, <1>4 DEF Inv

-----------------------------------------------------------------------------
(* The receiver's steps. *)

\* What the receiver takes is the front of the wire.
LEMMA Taking ==
  ASSUME Inv, NEW k \in 1..FrameSize, k <= Len(wire), receiver = "recv"
  PROVE  LET f == SubSeq(wire, 1, k)  r == SubSeq(wire, k + 1, Len(wire)) IN
         /\ f \in Seq(Int) /\ r \in Seq(Int) /\ Len(f) = k
         /\ f \in Seq(Bytes) /\ r \in Seq(Bytes) /\ Len(r) = Len(wire) - k
         /\ Sound(f, produced) /\ Sound(r, produced) /\ Before(f, r)
         /\ Before(delivered, f) /\ Before(delivered, r)
         /\ Before(f, pending) /\ Before(f, Outbox) /\ Before(r, pending) /\ Before(r, Outbox)
<1>1. /\ TypeOK /\ Order /\ produced \in Nat /\ delivered \in Seq(Int) /\ wire \in Seq(Int)
      /\ pending \in Seq(Int) /\ Outbox \in Seq(Int) /\ Len(wire) \in Nat
      /\ k \in Nat \ {0} /\ k + 1 \in Nat \ {0} /\ wire \in Seq(Bytes)
  <2>1. k \in Nat \ {0} /\ k + 1 \in Nat \ {0}
    BY FrameAssumption
  <2>2. TypeOK /\ Order /\ wire \in Seq(Bytes)
    BY DEF Inv, TypeOK
  <2> QED BY <2>1, <2>2, Segments
<1> DEFINE f == SubSeq(wire, 1, k)  r == SubSeq(wire, k + 1, Len(wire))
<1>2. /\ f \in Seq(Int) /\ Sound(f, produced) /\ Before(delivered, f)
      /\ Before(f, pending) /\ Before(f, Outbox)
  BY <1>1, Pieces DEF Order, Sound
<1>3. /\ r \in Seq(Int) /\ Sound(r, produced) /\ Before(delivered, r)
      /\ Before(r, pending) /\ Before(r, Outbox)
  BY <1>1, Pieces DEF Order, Sound
<1>4. Before(f, r)
  BY <1>1, Halves DEF Order, Sound
<1>5. Len(f) = k /\ f \in Seq(Bytes)
  BY <1>1, SubSeqProperties
<1>6. r \in Seq(Bytes) /\ Len(r) = Len(wire) - k
  BY <1>1, SubSeqProperties
<1> QED BY <1>2, <1>3, <1>4, <1>5, <1>6

LEMMA ReceivePlainKeeps == Inv /\ ReceivePlain => Inv'
<1> SUFFICES ASSUME Inv, ReceivePlain PROVE Inv'
  OBVIOUS
<1> USE DEF sending
<1>1. PICK k \in 1..FrameSize :
        /\ k <= Len(wire) /\ got' = k
        /\ ibuf' = Filled(ibuf, SubSeq(wire, 1, k))
        /\ wire' = SubSeq(wire, k+1, Len(wire))
        /\ faults' = IF k < FrameSize THEN faults \cup {"cut"} ELSE faults
  BY DEF ReceivePlain
<1> DEFINE f == SubSeq(wire, 1, k)  r == SubSeq(wire, k + 1, Len(wire))
<1>2. /\ TypeOK /\ Order /\ Tidy /\ receiver = "recv" /\ k \in Nat
      /\ ibuf \in [1..FrameSize -> Bytes] /\ Len(wire) \in Nat
      /\ \A i \in 1..k : i \in 1..FrameSize
  <2>1. k \in Nat /\ \A i \in 1..k : i \in 1..FrameSize
    BY FrameAssumption
  <2>2. TypeOK /\ Order /\ Tidy /\ receiver = "recv" /\ ibuf \in [1..FrameSize -> Bytes]
    BY DEF Inv, TypeOK, ReceivePlain
  <2> QED BY <2>1, <2>2, Segments
<1>3. /\ f \in Seq(Int) /\ r \in Seq(Int) /\ Len(f) = k
      /\ f \in Seq(Bytes) /\ r \in Seq(Bytes) /\ Len(r) = Len(wire) - k
      /\ Sound(f, produced) /\ Sound(r, produced) /\ Before(f, r)
      /\ Before(delivered, f) /\ Before(delivered, r)
      /\ Before(f, pending) /\ Before(f, Outbox) /\ Before(r, pending) /\ Before(r, Outbox)
  BY <1>1, <1>2, Taking
<1> HIDE DEF f, r
<1>4. ibuf' = [i \in 1..FrameSize |-> IF i <= k THEN f[i] ELSE ibuf[i]]
  BY <1>1, <1>3 DEF Filled, f
<1>5. ibuf' \in [1..FrameSize -> Bytes]
  <2>1. \A i \in 1..FrameSize : (IF i <= k THEN f[i] ELSE ibuf[i]) \in Bytes
    BY <1>2, <1>3, ElementOfSeq
  <2> QED BY <1>4, <2>1
<1>6. SubSeq(ibuf', 1, k) = f
  <2>1. /\ SubSeq(ibuf', 1, k) \in Seq(Bytes) /\ Len(SubSeq(ibuf', 1, k)) = k
        /\ \A i \in 1..k : SubSeq(ibuf', 1, k)[i] = ibuf'[i]
    <3>1. \A i \in 1..k : ibuf'[i] \in Bytes
      BY <1>2, <1>5
    <3> QED BY <1>2, <3>1, SubSeqProperties
  <2>2. \A i \in 1..k : ibuf'[i] = f[i]
    BY <1>2, <1>4
  <2> QED BY <1>3, <2>1, <2>2, SeqEqual
<1>7. TypeOK'
  <2>1. wire' \in Seq(Bytes) /\ Len(wire') <= Capacity
    BY <1>1, <1>2, <1>3, BoundAssumption DEF TypeOK, r
  <2>2. faults' \subseteq Faults
    BY <1>1, <1>2 DEF TypeOK, Faults
  <2> QED BY <1>1, <1>2, <1>5, <2>1, <2>2 DEF ReceivePlain, TypeOK
<1>8. Order'
  <2>1. /\ delivered' = delivered /\ Inbox' = f /\ wire' = r /\ pending' = pending
        /\ Outbox' = Outbox /\ produced' = produced
    BY <1>1, <1>6 DEF ReceivePlain, Inbox, Outbox, r
  <2> QED BY <1>2, <1>3, <2>1 DEF Order
<1>9. Tidy'
  <2>1. ASSUME Upward, NEW i \in 1..FrameSize, i > k PROVE ibuf'[i] = 0
    BY <1>2, <1>4, <2>1 DEF Tidy, Zeros
  <2> QED BY <1>1, <1>2, <2>1 DEF ReceivePlain, Tidy, Upward, will_use_tls
<1> QED BY <1>7, <1>8, <1>9 DEF Inv

LEMMA ReceiveRecordKeeps == Inv /\ ReceiveRecord => Inv'
<1> SUFFICES ASSUME Inv, ReceiveRecord PROVE Inv'
  OBVIOUS
<1> USE DEF sending
<1> DEFINE f == SubSeq(wire, 1, FrameSize)  r == SubSeq(wire, FrameSize + 1, Len(wire))
<1>1. /\ ibuf' = f /\ wire' = r /\ got' = FrameSize /\ receiver = "recv" /\ FrameSize <= Len(wire)
      /\ TypeOK /\ Order /\ Tidy /\ Len(wire) \in Nat /\ FrameSize \in 1..FrameSize
  BY Segments, FrameAssumption DEF Inv, ReceiveRecord
<1>2. /\ f \in Seq(Int) /\ r \in Seq(Int) /\ Len(f) = FrameSize
      /\ f \in Seq(Bytes) /\ r \in Seq(Bytes) /\ Len(r) = Len(wire) - FrameSize
      /\ Sound(f, produced) /\ Sound(r, produced) /\ Before(f, r)
      /\ Before(delivered, f) /\ Before(delivered, r)
      /\ Before(f, pending) /\ Before(f, Outbox) /\ Before(r, pending) /\ Before(r, Outbox)
  BY <1>1, Taking
<1> HIDE DEF f, r
<1>3. ibuf' \in [1..FrameSize -> Bytes]
  BY <1>1, <1>2, LenProperties
<1>4. SubSeq(ibuf', 1, FrameSize) = f
  BY <1>1, <1>2, SubSeqFull
<1>5. TypeOK'
  <2>1. wire' \in Seq(Bytes) /\ Len(wire') <= Capacity
    BY <1>1, <1>2, FrameAssumption, BoundAssumption DEF TypeOK
  <2>2. got' \in 0..FrameSize
    BY <1>1, FrameAssumption
  <2> QED BY <1>1, <1>3, <2>1, <2>2 DEF ReceiveRecord, TypeOK
<1>6. Order'
  <2>1. /\ delivered' = delivered /\ Inbox' = f /\ wire' = r /\ pending' = pending
        /\ Outbox' = Outbox /\ produced' = produced
    BY <1>1, <1>4 DEF ReceiveRecord, Inbox, Outbox
  <2> QED BY <1>1, <1>2, <2>1 DEF Order
<1>7. Tidy'
  BY <1>1, FrameAssumption DEF ReceiveRecord, Tidy, Upward, will_use_tls
<1> QED BY <1>5, <1>6, <1>7 DEF Inv

\* The front of what the receiver holds goes behind what is delivered, perhaps with a
\* stray; the rest is lost.
LEMMA DeliverKeeps == Inv /\ Deliver => Inv'
<1> SUFFICES ASSUME Inv, Deliver PROVE Inv'
  OBVIOUS
<1> USE DEF sending
<1>0. PICK length \in 0..FrameSize : \E n \in 0..length :
        /\ IsTextLength(length)
        /\ \/ delivered' = delivered \o SubSeq(ibuf, 1, n)
           \/ delivered' = delivered \o SubSeq(ibuf, 1, n) \o <<Stray>>
        /\ faults' = IF n < length THEN faults \cup {"short"} ELSE faults
  BY DEF Deliver
<1>1. PICK n \in 0..length :
        /\ IsTextLength(length)
        /\ \/ delivered' = delivered \o SubSeq(ibuf, 1, n)
           \/ delivered' = delivered \o SubSeq(ibuf, 1, n) \o <<Stray>>
        /\ faults' = IF n < length THEN faults \cup {"short"} ELSE faults
  BY <1>0
<1>2. /\ TypeOK /\ Order /\ Tidy /\ receiver = "write" /\ produced \in Nat
      /\ delivered \in Seq(Int) /\ Inbox \in Seq(Int) /\ wire \in Seq(Int)
      /\ pending \in Seq(Int) /\ Outbox \in Seq(Int)
      /\ ibuf \in Seq(Int) /\ Len(ibuf) = FrameSize /\ got \in 0..FrameSize
  BY Segments DEF Inv, Deliver
<1>3. length <= got
  <2>1. CASE Upward
    <3>1. \A i \in 1..length : ibuf[i] # 0
      BY <1>1, <2>1 DEF IsTextLength, IsStrlen
    <3>2. \A i \in 1..FrameSize : i > got => ibuf[i] = 0
      BY <1>2, <2>1 DEF Tidy
    <3> SUFFICES ASSUME length > got PROVE FALSE
      BY <1>2, FrameAssumption
    <3>3. got + 1 \in 1..length /\ got + 1 \in 1..FrameSize /\ got + 1 > got
      BY <1>2, FrameAssumption
    <3> QED BY <3>1, <3>2, <3>3
  <2>2. CASE ~Upward
    BY <1>1, <1>2, <2>2, FrameAssumption DEF IsTextLength
  <2> QED BY <2>1, <2>2
<1> DEFINE x == SubSeq(ibuf, 1, n)
<1>4. n \in Nat /\ n <= got /\ n <= FrameSize /\ got \in Nat
  BY <1>1, <1>2, <1>3, FrameAssumption
<1>5. x = SubSeq(Inbox, 1, n)
  <2>1. Inbox = SubSeq(ibuf, 1, got)
    BY <1>2 DEF Inbox
  <2>2. CASE n = 0
    BY <2>2, SubSeqEmpty
  <2>3. CASE n > 0
    <3>1. 1 \in 1..Len(ibuf) /\ got \in 1..Len(ibuf) /\ 1 \in 1..got-1+1 /\ n \in 1..got-1+1
      BY <1>2, <1>4, <2>3, FrameAssumption
    <3>2. SubSeq(SubSeq(ibuf, 1, got), 1, n) = SubSeq(ibuf, 1+1-1, 1+n-1)
      BY <1>2, <3>1, SubSeqOfSubSeq
    <3>3. 1+1-1 = 1 /\ 1+n-1 = n
      BY <1>4
    <3> QED BY <2>1, <3>2, <3>3
  <2> QED BY <1>4, <2>2, <2>3
<1>6. /\ x \in Seq(Int) /\ Sound(x, produced) /\ Before(delivered, x)
      /\ Before(x, wire) /\ Before(x, pending) /\ Before(x, Outbox)
  <2>1. n <= Len(Inbox)
    BY <1>2, <1>4, SubSeqProperties DEF Inbox
  <2>2. \A t \in Seq(Int) : /\ x \in Seq(Int)
                            /\ Increasing(Inbox) => Increasing(x)
                            /\ UpTo(Inbox, produced) => UpTo(x, produced)
                            /\ Before(Inbox, t) => Before(x, t)
                            /\ Before(t, Inbox) => Before(t, x)
    <3>1. 1 \in Nat \ {0} /\ produced \in Int
      BY <1>2
    <3> QED BY <1>2, <1>4, <1>5, <2>1, <3>1, Pieces
  <2> HIDE DEF x
  <2> QED BY <1>2, <2>2 DEF Order, Sound
<1>7. x \in Seq(Bytes)
  <2>1. \A i \in 1..n : ibuf[i] \in Bytes
    BY <1>2, <1>4, FrameAssumption DEF TypeOK
  <2> QED BY <1>4, <2>1, SubSeqProperties
<1> DEFINE d == delivered \o x
<1>8. /\ d \in Seq(Int) /\ Sound(d, produced)
      /\ Before(d, wire) /\ Before(d, pending) /\ Before(d, Outbox)
  <2> HIDE DEF x
  <2>1. \A u \in Seq(Int) : /\ d \in Seq(Int)
                            /\ Increasing(delivered) /\ Increasing(x) /\ Before(delivered, x) => Increasing(d)
                            /\ UpTo(delivered, produced) /\ UpTo(x, produced) => UpTo(d, produced)
                            /\ Before(delivered, u) /\ Before(x, u) => Before(d, u)
    <3>1. produced \in Int
      BY <1>2
    <3> QED BY <1>2, <1>6, <3>1, Joins
  <2> HIDE DEF d
  <2> QED BY <1>2, <1>6, <2>1 DEF Order, Sound
<1>9. d \in Seq(Bytes \cup {Stray})
  <2>1. x \in Seq(Bytes \cup {Stray})
    BY <1>7, SeqMonotonic
  <2> QED BY <1>2, <2>1, ConcatProperties DEF TypeOK
<1>10. delivered' = d \/ delivered' = d \o <<Stray>>
  BY <1>1
<1> HIDE DEF d, x
<1>11. <<Stray>> \in Seq(Int) /\ Sound(<<Stray>>, produced) /\ Before(d, <<Stray>>)
       /\ \A s \in Seq(Int) : Before(<<Stray>>, s)
  BY <1>2, <1>8, Neutral DEF Sound
<1>12. /\ delivered' \in Seq(Int) /\ Sound(delivered', produced)
       /\ Before(delivered', wire) /\ Before(delivered', pending) /\ Before(delivered', Outbox)
  <2>1. CASE delivered' = d
    BY <1>8, <2>1
  <2>2. CASE delivered' = d \o <<Stray>>
    <3>1. \A u \in Seq(Int) :
            /\ d \o <<Stray>> \in Seq(Int)
            /\ Increasing(d) /\ Increasing(<<Stray>>) /\ Before(d, <<Stray>>) => Increasing(d \o <<Stray>>)
            /\ UpTo(d, produced) /\ UpTo(<<Stray>>, produced) => UpTo(d \o <<Stray>>, produced)
            /\ Before(d, u) /\ Before(<<Stray>>, u) => Before(d \o <<Stray>>, u)
      <4>1. produced \in Int
        BY <1>2
      <4> QED BY <1>8, <1>11, <4>1, Joins
    <3> QED BY <1>2, <1>8, <1>11, <2>2, <3>1 DEF Sound
  <2> QED BY <1>10, <2>1, <2>2
<1>13. TypeOK'
  <2>1. delivered' \in Seq(Bytes \cup {Stray})
    <3>1. <<Stray>> \in Seq(Bytes \cup {Stray})
      OBVIOUS
    <3> QED BY <1>9, <1>10, <3>1, ConcatProperties
  <2>2. ibuf' \in [1..FrameSize -> Bytes]
    BY <1>2, Zeroed DEF Deliver, TypeOK
  <2>3. faults' \subseteq Faults
    BY <1>1, <1>2 DEF TypeOK, Faults
  <2> QED BY <1>2, <2>1, <2>2, <2>3 DEF Deliver, TypeOK
<1>14. Order'
  <2>1. /\ Inbox' = <<>> /\ wire' = wire /\ pending' = pending
        /\ Outbox' = Outbox /\ produced' = produced
    BY DEF Deliver, Inbox, Outbox
  <2>2. \A s \in Seq(Int) : Before(s, <<>>) /\ Before(<<>>, s)
    BY Neutral
  <2>3. Sound(<<>>, produced)
    BY <1>2, Neutral DEF Sound
  <2> QED BY <1>2, <1>12, <2>1, <2>2, <2>3 DEF Order
<1>15. Tidy'
  BY <1>2 DEF Deliver, Tidy, Upward, will_use_tls
<1> QED BY <1>13, <1>14, <1>15 DEF Inv

\* What the receiver holds is lost.
LEMMA ReceiverLeavesKeeps == Inv /\ ReceiverLeaves => Inv'
<1> SUFFICES ASSUME Inv, ReceiverLeaves PROVE Inv'
  OBVIOUS
<1> USE DEF sending
<1>1. /\ TypeOK /\ Order /\ Tidy /\ produced \in Nat
      /\ delivered \in Seq(Int) /\ wire \in Seq(Int) /\ pending \in Seq(Int) /\ Outbox \in Seq(Int)
  BY Segments DEF Inv
<1>2. TypeOK'
  BY <1>1 DEF ReceiverLeaves, TypeOK
<1>3. Order'
  <2>1. /\ delivered' = delivered /\ Inbox' = <<>> /\ wire' = wire /\ pending' = pending
        /\ Outbox' = Outbox /\ produced' = produced
    BY DEF ReceiverLeaves, Inbox, Outbox
  <2>2. \A s \in Seq(Int) : Before(s, <<>>) /\ Before(<<>>, s)
    BY Neutral
  <2>3. Sound(<<>>, produced)
    BY <1>1, Neutral DEF Sound
  <2> QED BY <1>1, <2>1, <2>2, <2>3 DEF Order
<1>4. Tidy'
  BY <1>1 DEF ReceiverLeaves, Tidy, Upward, will_use_tls
<1> QED BY <1>2, <1>3, <1>4 DEF Inv

-----------------------------------------------------------------------------

LEMMA StepInv == Inv /\ [Next]_vars => Inv'
<1>1. Inv /\ UNCHANGED vars => Inv'
  BY DEF vars, Inv, TypeOK, Order, Tidy, Inbox, Outbox, Upward, will_use_tls
<1> QED BY <1>1, ReadKeeps, SendPlainKeeps, SendRecordKeeps, SendTimesOutKeeps, SenderStopsKeeps,
           ReceivePlainKeeps, ReceiveRecordKeeps, DeliverKeeps, ReceiverLeavesKeeps
        DEF Next, SenderStep, ReceiverStep, Terminated

\* The inductive invariant holds of every behaviour.
THEOREM Invariance == Spec => []Inv
BY InitInv, StepInv, PTL DEF Spec

\* Buffers, wire and delivered data keep their types for frames of any size: no frame is
\* longer than its buffer and no more is in flight than there is room for.
THEOREM TypeCorrect == Spec => []TypeOK
BY Invariance, PTL DEF Inv

\* For frames of any size, any room on the connection and any amount of data, the sink
\* gets the source's bytes in order, none of them twice.
THEOREM BytesKeepTheirOrder == Spec => []InOrder
<1>1. Inv => InOrder
  BY DEF Inv, Order, Sound, Increasing, UpTo, InOrder
<1> QED BY <1>1, Invariance, PTL

-----------------------------------------------------------------------------
(* Nothing is missing.  Without a fault every byte the source has given is  *)
(* in one of the five places; and since those behind the sink hold only     *)
(* newer ones, the sink has all the older ones.  Going up the server looks  *)
(* for the end of the text, so there it matters too that the wire holds     *)
(* whole frames and that a frame's padding is at its end.                   *)

Has(s, b)   == \E i \in 1..Len(s) : s[i] = b
OnTheWay(b) == Has(delivered, b) \/ Has(Inbox, b) \/ Has(wire, b) \/ Has(Outbox, b)

Harmless == IF Upward THEN {} ELSE {"cut"}

Accounted == faults \subseteq Harmless =>
  /\ pending = <<>>
  /\ receiver # "off" => \A b \in 1..produced : OnTheWay(b)
  /\ \A i \in 1..Len(delivered) : \A b \in 1..delivered[i] : Has(delivered, b)

\* The frame of s that begins behind position m is text, then padding.
Padded(s, m) == \A i, j \in 1..FrameSize : i <= j /\ s[m+i] = 0 => s[m+j] = 0

\* s is a number of frames one behind the other; B is the set of their ends.
Ends(s, B) ==
  /\ B \subseteq 0..Len(s) /\ 0 \in B /\ Len(s) \in B
  /\ \A m \in B : m # Len(s) => m + FrameSize \in B /\ Padded(s, m)
  /\ \A m \in B : m # 0 => m - FrameSize \in B

Framed == Upward /\ faults = {} =>
  /\ \E B \in SUBSET (0..Len(wire)) : Ends(wire, B)
  /\ sender = "send" => Padded(obuf, 0)
  /\ receiver = "write" => got = FrameSize /\ Padded(ibuf, 0)

LEMMA HasCut ==
  ASSUME NEW s \in Seq(Int), NEW k \in 1..Len(s), NEW b, Has(s, b)
  PROVE  Has(SubSeq(s, 1, k), b) \/ Has(SubSeq(s, k + 1, Len(s)), b)
<1> DEFINE p == SubSeq(s, 1, k)  q == SubSeq(s, k + 1, Len(s))
<1>1. Len(s) \in Nat /\ k \in Nat
  BY LenProperties
<1>2. PICK i \in 1..Len(s) : s[i] = b
  BY DEF Has
<1>3. \A j \in 1..Len(s) : s[j] \in Int
  BY ElementOfSeq
<1>4. Len(p) = k /\ \A j \in 1..k : p[j] = s[j]
  BY <1>1, <1>3, SubSeqProperties
<1>5. k < Len(s) => Len(q) = Len(s) - k /\ \A j \in 1..Len(s) - k : q[j] = s[k + j]
  BY <1>1, <1>3, SubSeqProperties
<1> HIDE DEF p, q
<1>6. CASE i <= k
  BY <1>1, <1>2, <1>4, <1>6 DEF Has, p
<1>7. CASE i > k
  <2>1. i - k \in 1..Len(q) /\ q[i - k] = s[i]
    BY <1>1, <1>2, <1>5, <1>7
  <2> QED BY <1>2, <2>1 DEF Has, q
<1> QED BY <1>1, <1>6, <1>7

\* What is read into the front of a buffer can be read there.
LEMMA FilledFront ==
  ASSUME NEW b, NEW s \in Seq(Int), NEW k \in 1..FrameSize, k <= Len(s)
  PROVE  SubSeq(Filled(b, SubSeq(s, 1, k)), 1, k) = SubSeq(s, 1, k)
<1> DEFINE f == SubSeq(s, 1, k)  g == Filled(b, f)
<1>1. k \in Nat /\ Len(s) \in Nat /\ \A i \in 1..k : i \in 1..FrameSize /\ i \in 1..Len(s)
  BY LenProperties, FrameAssumption
<1>2. f \in Seq(Int) /\ Len(f) = k
  <2>1. \A i \in 1..k : s[i] \in Int
    BY <1>1, ElementOfSeq
  <2> QED BY <1>1, <2>1, SubSeqProperties
<1> HIDE DEF f
<1>3. \A i \in 1..k : g[i] = f[i] /\ f[i] \in Int
  BY <1>1, <1>2, ElementOfSeq DEF Filled
<1> HIDE DEF g
<1>4. /\ SubSeq(g, 1, k) \in Seq(Int) /\ Len(SubSeq(g, 1, k)) = k
      /\ \A i \in 1..k : SubSeq(g, 1, k)[i] = f[i]
  BY <1>1, <1>3, SubSeqProperties
<1>5. SubSeq(g, 1, k) = f
  BY <1>2, <1>4, SeqEqual
<1> QED BY <1>5 DEF f, g

LEMMA HasJoined ==
  ASSUME NEW s \in Seq(Int), NEW t \in Seq(Int), NEW b, Has(s, b) \/ Has(t, b)
  PROVE  Has(s \o t, b)
<1>1. /\ Len(s) \in Nat /\ Len(t) \in Nat /\ Len(s \o t) = Len(s) + Len(t)
      /\ \A i \in 1..Len(s) + Len(t) : (s \o t)[i] = IF i <= Len(s) THEN s[i] ELSE t[i - Len(s)]
  BY ConcatProperties, LenProperties
<1>2. CASE Has(s, b)
  BY <1>1, <1>2 DEF Has
<1>3. CASE Has(t, b)
  <2>1. PICK j \in 1..Len(t) : t[j] = b
    BY <1>3 DEF Has
  <2>2. j + Len(s) \in 1..Len(s \o t) /\ (s \o t)[j + Len(s)] = b
    BY <1>1, <2>1
  <2> QED BY <2>2 DEF Has
<1> QED BY <1>2, <1>3

\* When every byte given is in one of the places, the first of them, which all others
\* come behind, has all that are older than one it has.
LEMMA Older ==
  ASSUME NEW d \in Seq(Int), NEW x, NEW w, NEW o, NEW n \in Nat,
         Increasing(d), UpTo(d, n), Before(d, x), Before(d, w), Before(d, o),
         \A b \in 1..n : Has(d, b) \/ Has(x, b) \/ Has(w, b) \/ Has(o, b)
  PROVE  \A i \in 1..Len(d) : \A b \in 1..d[i] : Has(d, b)
<1> SUFFICES ASSUME NEW i \in 1..Len(d), NEW b \in 1..d[i], ~Has(d, b) PROVE FALSE
  OBVIOUS
<1>1. d[i] \in Int /\ d[i] > 0 /\ b > 0 /\ b \in Int /\ b <= d[i] /\ d[i] <= n
  <2>1. d[i] \in Int
    BY ElementOfSeq
  <2> QED BY <2>1 DEF UpTo
<1>2. b \in 1..n
  BY <1>1
<1>3. ASSUME NEW t, Before(d, t), Has(t, b) PROVE FALSE
  BY <1>1, <1>3 DEF Before, Has
<1> QED BY <1>2, <1>3

\* Without a fault the whole of what the sender holds goes on the wire.
LEMMA SendsAll ==
  ASSUME SendPlain \/ SendRecord, pending = <<>>, "short" \notin faults',
         obuf \in Seq(Int), Len(obuf) = FrameSize
  PROVE  wire' = wire \o obuf /\ sender = "send"
<1>1. CASE SendPlain
  <2>1. PICK k \in 1..FrameSize : /\ wire' = wire \o SubSeq(obuf, 1, k)
                                  /\ faults' = IF k < FrameSize THEN faults \cup {"short"} ELSE faults
    BY <1>1 DEF SendPlain
  <2>2. k = Len(obuf)
    BY <2>1, FrameAssumption
  <2> QED BY <1>1, <2>1, <2>2, SubSeqFull DEF SendPlain
<1>2. CASE SendRecord
  BY <1>2 DEF SendRecord
<1> QED BY <1>1, <1>2

LEMMA AccountedStep == Inv /\ Inv' /\ Accounted /\ Framed /\ [Next]_vars => Accounted'
<1> SUFFICES ASSUME Inv, Inv', Accounted, Framed, [Next]_vars, (faults \subseteq Harmless)' PROVE
      /\ pending' = <<>>
      /\ receiver' # "off" => \A b \in 1..produced' : OnTheWay(b)'
      /\ \A i \in 1..Len(delivered') : \A b \in 1..delivered'[i] : Has(delivered', b)
  BY DEF Accounted
<1> USE DEF sending, receiving
<1>1. /\ faults \subseteq faults' /\ mode' = mode
      /\ receiver = "off" => receiver' = "off" /\ delivered' = delivered
  BY DEF Next, SenderStep, ReceiverStep, Read, SendPlain, SendRecord, SendTimesOut, SendClosed,
         SenderLeaves, ReceivePlain, ReceiveRecord, Deliver, ReceiverLeaves, Terminated, vars
<1>2. /\ faults \subseteq Harmless /\ "dropped" \notin faults' /\ "short" \notin faults'
      /\ "cut" \in faults' => ~Upward
  BY <1>1 DEF Harmless, Upward
<1>3. /\ pending = <<>>
      /\ receiver # "off" => \A b \in 1..produced : OnTheWay(b)
      /\ \A i \in 1..Len(delivered) : \A b \in 1..delivered[i] : Has(delivered, b)
  BY <1>2 DEF Accounted
<1>4. pending' = <<>>
  BY <1>2, <1>3 DEF Next, SenderStep, ReceiverStep, Read, SendPlain, SendRecord, SendTimesOut, SendClosed,
         SenderLeaves, ReceivePlain, ReceiveRecord, Deliver, ReceiverLeaves, Terminated, vars
<1>5. /\ delivered \in Seq(Int) /\ Inbox \in Seq(Int) /\ wire \in Seq(Int)
      /\ obuf \in Seq(Int) /\ Len(obuf) = FrameSize /\ ibuf \in Seq(Int) /\ Len(ibuf) = FrameSize
      /\ produced \in Nat /\ Len(wire) \in Nat /\ got \in 0..FrameSize /\ TypeOK /\ Tidy
  BY Segments DEF Inv
<1>6. ASSUME receiver # "off" PROVE \A b \in 1..produced' : receiver' = "off" \/ OnTheWay(b)'
  <2> TAKE b \in 1..produced'
  <2>0. receiver' # "off" /\ b \in 1..produced => OnTheWay(b)
    BY <1>3, <1>6
  <2>1. CASE Read
    <3>1. PICK n \in 1..FrameSize :
            produced' = produced + n /\ obuf' = Filled(Zeros, [i \in 1..n |-> produced + i])
      BY <2>1 DEF Read
    <3>2. /\ delivered' = delivered /\ Inbox' = Inbox /\ wire' = wire /\ Outbox' = obuf' /\ Outbox = <<>>
          /\ receiver' = receiver
      BY <2>1 DEF Read, Inbox, Outbox
    <3>3. CASE b \in 1..produced
      <4>1. ~Has(Outbox, b)
        BY <3>2 DEF Has
      <4> QED BY <1>6, <2>0, <3>2, <3>3, <4>1 DEF OnTheWay, Has
    <3>4. CASE b \notin 1..produced
      <4>1. n \in Nat /\ b - produced \in 1..n /\ b - produced \in 1..FrameSize
        BY <1>5, <3>1, <3>4, FrameAssumption
      <4>2. Len([i \in 1..n |-> produced + i]) = n
        BY <4>1
      <4>3. obuf'[b - produced] = produced + (b - produced)
        BY <3>1, <4>1, <4>2 DEF Filled
      <4>4. obuf'[b - produced] = b
        BY <1>5, <3>1, <4>1, <4>3
      <4>5. Len(obuf') = FrameSize
        BY <3>1, FrameAssumption DEF Filled
      <4> QED BY <3>2, <4>1, <4>4, <4>5 DEF OnTheWay, Has
    <3> QED BY <3>3, <3>4
  <2>2. CASE SendPlain \/ SendRecord
    <3>1. wire' = wire \o obuf
      BY <1>2, <1>3, <1>5, <2>2, SendsAll
    <3>2. /\ delivered' = delivered /\ Inbox' = Inbox /\ Outbox = obuf /\ receiver' = receiver
          /\ produced' = produced
      BY <2>2 DEF SendPlain, SendRecord, Inbox, Outbox
    <3>3. OnTheWay(b)
      BY <1>6, <2>0, <3>2
    <3>4. Has(wire, b) \/ Has(Outbox, b) => Has(wire', b)
      BY <1>5, <3>1, <3>2, HasJoined
    <3> QED BY <3>2, <3>3, <3>4 DEF OnTheWay
  <2>3. CASE SendTimesOut \/ SendClosed \/ SenderLeaves
    <3>1. SenderLeaves /\ sender # "send"
      BY <1>2, <2>3 DEF SendTimesOut, SendClosed, SenderLeaves
    <3>2. /\ delivered' = delivered /\ Inbox' = Inbox /\ wire' = wire /\ Outbox' = Outbox
          /\ receiver' = receiver /\ produced' = produced
      BY <3>1 DEF SenderLeaves, Inbox, Outbox
    <3> QED BY <1>6, <2>0, <3>2 DEF OnTheWay
  <2>4. CASE ReceivePlain \/ ReceiveRecord
    <3>1. PICK k \in 1..FrameSize : /\ k <= Len(wire) /\ got' = k /\ receiver' = "write"
                                    /\ Inbox' = SubSeq(wire, 1, k) /\ wire' = SubSeq(wire, k+1, Len(wire))
      <4>1. CASE ReceivePlain
        <5>1. PICK k \in 1..FrameSize :
                /\ k <= Len(wire) /\ got' = k
                /\ ibuf' = Filled(ibuf, SubSeq(wire, 1, k))
                /\ wire' = SubSeq(wire, k+1, Len(wire))
          BY <4>1 DEF ReceivePlain
        <5>2. SubSeq(ibuf', 1, k) = SubSeq(wire, 1, k)
          BY <1>5, <5>1, FilledFront
        <5> QED BY <4>1, <5>1, <5>2 DEF ReceivePlain, Inbox
      <4>2. CASE ReceiveRecord
        <5>1. /\ FrameSize \in 1..FrameSize /\ FrameSize <= Len(wire) /\ got' = FrameSize /\ receiver' = "write"
              /\ ibuf' = SubSeq(wire, 1, FrameSize) /\ wire' = SubSeq(wire, FrameSize+1, Len(wire))
          BY <4>2, <1>5, FrameAssumption DEF ReceiveRecord
        <5>2. ibuf' \in Seq(Int) /\ Len(ibuf') = FrameSize
          BY <1>5, <5>1, SubSeqProperties, ElementOfSeq, FrameAssumption
        <5>3. SubSeq(ibuf', 1, FrameSize) = ibuf'
          BY <5>2, SubSeqFull
        <5> QED BY <5>1, <5>3 DEF Inbox
      <4> QED BY <2>4, <4>1, <4>2
    <3>2. /\ delivered' = delivered /\ Inbox = <<>> /\ Outbox' = Outbox /\ produced' = produced
      BY <2>4 DEF ReceivePlain, ReceiveRecord, Inbox, Outbox
    <3>3. OnTheWay(b) /\ ~Has(Inbox, b)
      BY <2>0, <3>1, <3>2 DEF Has
    <3>4. Has(wire, b) => Has(Inbox', b) \/ Has(wire', b)
      <4>1. k \in 1..Len(wire)
        BY <1>5, <3>1, FrameAssumption
      <4> QED BY <1>5, <3>1, <4>1, HasCut
    <3> QED BY <3>2, <3>3, <3>4 DEF OnTheWay
  <2>5. CASE Deliver
    <3>1. PICK length \in 0..FrameSize : \E n \in 0..length :
            /\ IsTextLength(length)
            /\ \/ delivered' = delivered \o SubSeq(ibuf, 1, n)
               \/ delivered' = delivered \o SubSeq(ibuf, 1, n) \o <<Stray>>
            /\ faults' = IF n < length THEN faults \cup {"short"} ELSE faults
      BY <2>5 DEF Deliver
    <3>1b. PICK n \in 0..length :
            /\ IsTextLength(length)
            /\ \/ delivered' = delivered \o SubSeq(ibuf, 1, n)
               \/ delivered' = delivered \o SubSeq(ibuf, 1, n) \o <<Stray>>
            /\ faults' = IF n < length THEN faults \cup {"short"} ELSE faults
      BY <3>1
    <3>2. /\ Inbox = SubSeq(ibuf, 1, got) /\ wire' = wire /\ Outbox' = Outbox /\ produced' = produced
      BY <2>5 DEF Deliver, Inbox, Outbox
    <3>3. n = length /\ n \in Nat /\ n <= FrameSize
      BY <1>2, <3>1b, FrameAssumption
    <3>4. SubSeq(ibuf, 1, n) \in Seq(Int) /\ <<Stray>> \in Seq(Int)
      BY <1>5, <3>3, Pieces DEF Stray
    <3>5. Has(delivered, b) \/ Has(SubSeq(ibuf, 1, n), b) => Has(delivered', b)
      <4>1. Has(delivered, b) \/ Has(SubSeq(ibuf, 1, n), b) => Has(delivered \o SubSeq(ibuf, 1, n), b)
        BY <1>5, <3>4, HasJoined
      <4>2. delivered \o SubSeq(ibuf, 1, n) \in Seq(Int)
        BY <1>5, <3>4, ConcatProperties
      <4> HIDE DEF Stray
      <4>3. Has(delivered \o SubSeq(ibuf, 1, n), b) => Has(delivered \o SubSeq(ibuf, 1, n) \o <<Stray>>, b)
        BY <3>4, <4>2, HasJoined
      <4> QED BY <3>1b, <4>1, <4>3
    <3>6. Has(Inbox, b) => Has(SubSeq(ibuf, 1, n), b)
      <4>1. CASE Upward
        <5>1. got = FrameSize /\ Padded(ibuf, 0)
          BY <1>2, <2>5, <4>1 DEF Framed, Harmless, Deliver
        <5>2. \A i \in 1..FrameSize : i > n => ibuf[i] = 0
          <6> SUFFICES ASSUME NEW i \in 1..FrameSize, i > n PROVE ibuf[i] = 0
            OBVIOUS
          <6>1. n + 1 \in 1..FrameSize /\ n + 1 <= i /\ n < FrameSize
            BY <3>3, FrameAssumption
          <6>2. ibuf[n + 1] = 0
            BY <3>1b, <3>3, <4>1, <6>1 DEF IsTextLength, IsStrlen
          <6>3. \A j \in 1..FrameSize : 0 + j = j
            BY FrameAssumption
          <6> QED BY <5>1, <6>1, <6>2, <6>3 DEF Padded
        <5>3. Inbox = ibuf
          BY <1>5, <3>2, <5>1, SubSeqFull
        <5>4. /\ Len(SubSeq(ibuf, 1, n)) = n
              /\ \A i \in 1..n : SubSeq(ibuf, 1, n)[i] = ibuf[i]
          <6>1. \A i \in 1..n : ibuf[i] \in Int
            BY <1>5, <3>3, ElementOfSeq, FrameAssumption
          <6> QED BY <3>3, <6>1, SubSeqProperties
        <5> SUFFICES ASSUME Has(ibuf, b) PROVE Has(SubSeq(ibuf, 1, n), b)
          BY <5>3
        <5>5. PICK i \in 1..FrameSize : ibuf[i] = b
          BY <1>5 DEF Has
        <5>6. b > 0
          BY <1>5
        <5>7. i \in 1..n
          BY <3>3, <5>2, <5>5, <5>6, FrameAssumption
        <5> QED BY <5>4, <5>5, <5>7 DEF Has
      <4>2. CASE ~Upward
        BY <3>1b, <3>2, <3>3, <4>2 DEF IsTextLength
      <4> QED BY <4>1, <4>2
    <3> QED BY <2>0, <3>2, <3>5, <3>6 DEF OnTheWay
  <2>6. CASE ReceiverLeaves
    BY <2>6 DEF ReceiverLeaves
  <2>7. CASE UNCHANGED vars
    BY <1>6, <2>0, <2>7 DEF vars, OnTheWay, Inbox, Outbox
  <2> QED BY <2>1, <2>2, <2>3, <2>4, <2>5, <2>6, <2>7 DEF Next, SenderStep, ReceiverStep, Terminated
<1>7. \A i \in 1..Len(delivered') : \A b \in 1..delivered'[i] : Has(delivered', b)
  <2>1. CASE receiver' = "off"
    <3>1. delivered' = delivered
      BY <1>1, <2>1 DEF Next, SenderStep, ReceiverStep, Read, SendPlain, SendRecord, SendTimesOut,
           SendClosed, SenderLeaves, ReceivePlain, ReceiveRecord, Deliver, ReceiverLeaves, Terminated, vars
    <3> QED BY <1>3, <3>1
  <2>2. CASE receiver' # "off"
    <3>1. \A b \in 1..produced' : OnTheWay(b)'
      BY <1>1, <1>6, <2>2
    <3>2. delivered' \in Seq(Int) /\ produced' \in Nat
      <4>1. Bytes \subseteq Nat /\ Bytes \cup {Stray} \subseteq Int
        BY BoundAssumption DEF Bytes, Stray
      <4>2. delivered' \in Seq(Bytes \cup {Stray}) /\ produced' \in Bytes
        BY DEF Inv, TypeOK
      <4> QED BY <4>1, <4>2, SeqMonotonic
    <3> QED BY <3>1, <3>2, Older DEF Inv, Order, Sound, OnTheWay
  <2> QED BY <2>1, <2>2
<1> QED BY <1>1, <1>4, <1>6, <1>7

-----------------------------------------------------------------------------
(* Frames. *)

\* A frame joins a number of frames.
LEMMA FrameJoins ==
  ASSUME NEW s \in Seq(Int), NEW p \in Seq(Int), Len(p) = FrameSize, Padded(p, 0),
         \E B \in SUBSET (0..Len(s)) : Ends(s, B)
  PROVE  \E B \in SUBSET (0..Len(s \o p)) : Ends(s \o p, B)
<1> DEFINE t == s \o p
<1>1. /\ Len(s) \in Nat /\ FrameSize \in Nat \ {0} /\ Len(t) = Len(s) + FrameSize
      /\ \A i \in 1..Len(s) + FrameSize : t[i] = IF i <= Len(s) THEN s[i] ELSE p[i - Len(s)]
  BY ConcatProperties, LenProperties, FrameAssumption
<1> HIDE DEF t
<1>2. PICK B \in SUBSET (0..Len(s)) : Ends(s, B)
  OBVIOUS
<1> DEFINE C == B \cup {Len(t)}
<1>3. C \subseteq 0..Len(t) /\ 0 \in C /\ Len(t) \in C
  <2>1. 0..Len(s) \subseteq 0..Len(t) /\ Len(t) \in 0..Len(t)
    BY <1>1
  <2>2. B \subseteq 0..Len(s) /\ 0 \in B
    BY <1>2 DEF Ends
  <2> QED BY <2>1, <2>2
<1>4. ASSUME NEW m \in C, m # Len(t) PROVE m + FrameSize \in C /\ Padded(t, m)
  <2>1. m \in B /\ m \in 0..Len(s)
    BY <1>4
  <2>2. CASE m = Len(s)
    <3>1. \A i \in 1..FrameSize : t[m + i] = p[0 + i]
      <4> TAKE i \in 1..FrameSize
      <4>1. m + i \in 1..Len(s) + FrameSize /\ m + i > Len(s) /\ m + i - Len(s) = i /\ 0 + i = i
        BY <1>1, <2>1, <2>2
      <4> QED BY <1>1, <4>1
    <3> QED BY <1>1, <2>2, <3>1, ZenonT(40) DEF Padded
  <2>3. CASE m # Len(s)
    <3>1. m + FrameSize \in B /\ m + FrameSize \in 0..Len(s) /\ Padded(s, m)
      BY <1>2, <2>1, <2>3 DEF Ends
    <3>2. \A i \in 1..FrameSize : t[m + i] = s[m + i]
      BY <1>1, <2>1, <3>1
    <3> QED BY <3>1, <3>2, ZenonT(40) DEF Padded
  <2> QED BY <2>2, <2>3
<1>5. ASSUME NEW m \in C, m # 0 PROVE m - FrameSize \in C
  <2>1. CASE m \in B
    BY <1>2, <1>5, <2>1 DEF Ends
  <2>2. CASE m = Len(t)
    <3>1. m - FrameSize = Len(s)
      BY <1>1, <2>2
    <3> QED BY <1>2, <3>1 DEF Ends
  <2> QED BY <2>1, <2>2
<1> QED BY <1>3, <1>4, <1>5 DEF Ends, t

\* And the first of them, taken off, leaves a number of them.
LEMMA FrameTaken ==
  ASSUME NEW s \in Seq(Int), FrameSize <= Len(s), \E B \in SUBSET (0..Len(s)) : Ends(s, B)
  PROVE  LET r == SubSeq(s, FrameSize + 1, Len(s)) IN
         /\ Padded(s, 0)
         /\ \E B \in SUBSET (0..Len(r)) : Ends(r, B)
<1> DEFINE r == SubSeq(s, FrameSize + 1, Len(s))
<1>1. /\ Len(s) \in Nat /\ FrameSize \in Nat \ {0} /\ Len(r) = Len(s) - FrameSize
      /\ \A i \in 1..Len(s) - FrameSize : r[i] = s[FrameSize + i]
  <2>1. Len(s) \in Nat /\ FrameSize \in Nat \ {0} /\ \A i \in FrameSize + 1..Len(s) : s[i] \in Int
    BY LenProperties, ElementOfSeq, FrameAssumption
  <2> DEFINE first == FrameSize + 1
  <2>2. /\ first \in Int /\ Len(s) - first + 1 = Len(s) - FrameSize
        /\ first <= Len(s) \/ Len(s) - FrameSize = 0
        /\ \A i \in 1..Len(s) - FrameSize : first + i - 1 = FrameSize + i
    BY <2>1
  <2>3. \A i \in first..Len(s) : s[i] \in Int
    BY <2>1
  <2> HIDE DEF first
  <2>4. /\ Len(SubSeq(s, first, Len(s))) = IF first <= Len(s) THEN Len(s) - first + 1 ELSE 0
        /\ \A i \in 1..Len(s) - first + 1 : SubSeq(s, first, Len(s))[i] = s[first + i - 1]
    BY <2>1, <2>2, <2>3, SubSeqProperties
  <2>5. r = SubSeq(s, first, Len(s))
    BY DEF first
  <2> QED BY <2>1, <2>2, <2>4, <2>5
<1> HIDE DEF r
<1>2. PICK B \in SUBSET (0..Len(s)) : Ends(s, B)
  OBVIOUS
<1> DEFINE C == {m \in 0..Len(r) : m + FrameSize \in B}
<1>3. C \subseteq 0..Len(r) /\ 0 \in C /\ Len(r) \in C
  BY <1>1, <1>2 DEF Ends
<1>4. ASSUME NEW m \in C, m # Len(r) PROVE m + FrameSize \in C /\ Padded(r, m)
  <2>1. m + FrameSize \in B /\ m + FrameSize # Len(s) /\ m \in Nat
    BY <1>1, <1>4
  <2>2. m + FrameSize + FrameSize \in B /\ Padded(s, m + FrameSize)
    BY <1>2, <2>1 DEF Ends
  <2>3. m + FrameSize + FrameSize \in 0..Len(s)
    BY <2>2
  <2>4. \A i \in 1..FrameSize : r[m + i] = s[m + FrameSize + i]
    <3> TAKE i \in 1..FrameSize
    <3>1. m + i \in 1..Len(s) - FrameSize /\ FrameSize + (m + i) = m + FrameSize + i
      BY <1>1, <2>1, <2>3
    <3> QED BY <1>1, <3>1
  <2>5. Padded(r, m)
    BY <2>2, <2>4 DEF Padded
  <2> QED BY <1>1, <2>1, <2>2, <2>3, <2>5
<1>5. ASSUME NEW m \in C, m # 0 PROVE m - FrameSize \in C
  <2>1. m + FrameSize \in B /\ m \in Nat /\ m <= Len(r)
    BY <1>1
  <2>2. m \in B
    <3>1. m + FrameSize # 0 /\ (m + FrameSize) - FrameSize = m
      BY <1>1, <2>1
    <3>2. \A e \in B : e # 0 => e - FrameSize \in B
      BY <1>2 DEF Ends
    <3>3. (m + FrameSize) - FrameSize \in B
      BY <2>1, <3>1, <3>2, Zenon
    <3> QED BY <3>1, <3>3
  <2>3. m - FrameSize \in 0..Len(s)
    BY <1>2, <1>5, <2>2 DEF Ends
  <2> QED BY <1>1, <2>1, <2>2, <2>3
<1>6. Padded(s, 0)
  BY <1>1, <1>2 DEF Ends
<1> QED BY <1>3, <1>4, <1>5, <1>6 DEF Ends, r

LEMMA FramedStep == Inv /\ Inv' /\ Framed /\ Accounted /\ [Next]_vars => Framed'
<1> SUFFICES ASSUME Inv, Inv', Framed, Accounted, [Next]_vars, Upward', faults' = {} PROVE
      /\ \E B \in SUBSET (0..Len(wire')) : Ends(wire', B)
      /\ sender' = "send" => Padded(obuf', 0)
      /\ receiver' = "write" => got' = FrameSize /\ Padded(ibuf', 0)
  BY DEF Framed, Padded, Ends
<1> USE DEF sending, receiving
<1>1. Upward /\ faults = {}
  BY DEF Upward, Next, SenderStep, ReceiverStep, Read, SendPlain, SendRecord, SendTimesOut, SendClosed,
         SenderLeaves, ReceivePlain, ReceiveRecord, Deliver, ReceiverLeaves, Terminated, vars
<1>2. /\ \E B \in SUBSET (0..Len(wire)) : Ends(wire, B)
      /\ sender = "send" => Padded(obuf, 0)
      /\ receiver = "write" => got = FrameSize /\ Padded(ibuf, 0)
      /\ pending = <<>>
  BY <1>1 DEF Framed, Accounted
<1>3. /\ wire \in Seq(Int) /\ Len(wire) \in Nat /\ produced \in Nat
      /\ obuf \in Seq(Int) /\ Len(obuf) = FrameSize /\ ibuf \in Seq(Int) /\ Len(ibuf) = FrameSize
  BY Segments DEF Inv
<1>4. CASE Read
  <2>1. PICK n \in 1..FrameSize : obuf' = Filled(Zeros, [i \in 1..n |-> produced + i])
    BY <1>4 DEF Read
  <2>2. n \in Nat /\ Len([i \in 1..n |-> produced + i]) = n
    BY FrameAssumption
  <2>3. \A i \in 1..FrameSize : obuf'[0 + i] = IF i <= n THEN produced + i ELSE 0
    BY <2>1, <2>2, FrameAssumption DEF Filled, Zeros
  <2>4. Padded(obuf', 0)
    <3> SUFFICES ASSUME NEW i \in 1..FrameSize, NEW j \in 1..FrameSize, i <= j, obuf'[0 + i] = 0
                 PROVE  obuf'[0 + j] = 0
      BY DEF Padded
    <3>1. i \in Nat \ {0} /\ j \in Nat
      BY FrameAssumption
    <3>2. i > n
      BY <1>3, <2>2, <2>3, <3>1, SMTT(30)
    <3> QED BY <2>2, <2>3, <3>1, <3>2
  <2> QED BY <1>2, <1>4, <2>4 DEF Read
<1>5. CASE SendPlain \/ SendRecord
  <2>1. wire' = wire \o obuf /\ sender = "send"
    BY <1>1, <1>2, <1>3, <1>5, SendsAll
  <2>2. \E B \in SUBSET (0..Len(wire')) : Ends(wire', B)
    BY <1>2, <1>3, <2>1, FrameJoins
  <2> QED BY <1>2, <1>5, <2>2 DEF SendPlain, SendRecord
<1>6. CASE SendTimesOut \/ SendClosed \/ SenderLeaves
  BY <1>2, <1>6 DEF SendTimesOut, SendClosed, SenderLeaves
<1>7. CASE ReceivePlain \/ ReceiveRecord
  <2>1. /\ FrameSize <= Len(wire) /\ got' = FrameSize /\ sender' = sender /\ obuf' = obuf
        /\ \A i \in 1..FrameSize : ibuf'[i] = wire[i]
        /\ wire' = SubSeq(wire, FrameSize + 1, Len(wire))
    <3>0. Len(SubSeq(wire, 1, FrameSize)) = FrameSize /\ \A i \in 1..FrameSize : SubSeq(wire, 1, FrameSize)[i] = wire[i]
      <4>1. FrameSize <= Len(wire)
        BY <1>7, FrameAssumption DEF ReceivePlain, ReceiveRecord
      <4>2. \A i \in 1..FrameSize : wire[i] \in Int
        BY <1>3, <4>1, ElementOfSeq, FrameAssumption
      <4> QED BY <4>2, SubSeqProperties, FrameAssumption
    <3>1. CASE ReceivePlain
      <4>1. PICK k \in 1..FrameSize :
              /\ k <= Len(wire) /\ got' = k
              /\ ibuf' = Filled(ibuf, SubSeq(wire, 1, k))
              /\ wire' = SubSeq(wire, k+1, Len(wire))
              /\ faults' = IF k < FrameSize THEN faults \cup {"cut"} ELSE faults
        BY <3>1 DEF ReceivePlain
      <4>2. k = FrameSize
        BY <4>1, FrameAssumption
      <4> QED BY <3>0, <3>1, <4>1, <4>2, FrameAssumption DEF ReceivePlain, Filled
    <3>2. CASE ReceiveRecord
      BY <3>0, <3>2 DEF ReceiveRecord
    <3> QED BY <1>7, <3>1, <3>2
  <2>2. Padded(wire, 0) /\ \E B \in SUBSET (0..Len(wire')) : Ends(wire', B)
    BY <1>2, <1>3, <2>1, FrameTaken
  <2>3. Padded(ibuf', 0)
    <3>1. \A i \in 1..FrameSize : 0 + i = i
      BY FrameAssumption
    <3> QED BY <2>1, <2>2, <3>1 DEF Padded
  <2> QED BY <1>2, <2>1, <2>2, <2>3
<1>8. CASE Deliver \/ ReceiverLeaves
  BY <1>2, <1>8 DEF Deliver, ReceiverLeaves
<1>9. CASE UNCHANGED vars
  BY <1>2, <1>9 DEF vars
<1> QED BY <1>4, <1>5, <1>6, <1>7, <1>8, <1>9 DEF Next, SenderStep, ReceiverStep, Terminated

LEMMA InitAccounted == Init => Accounted /\ Framed
<1> SUFFICES ASSUME Init PROVE Accounted /\ Framed
  OBVIOUS
<1>1. Len(<<>>) = 0
  OBVIOUS
<1>2. Accounted
  BY <1>1 DEF Init, Accounted
<1>3. Ends(<<>>, {0}) /\ {0} \in SUBSET (0..0)
  BY <1>1 DEF Ends
<1> QED BY <1>1, <1>2, <1>3 DEF Init, Framed

\* For frames of any size, any room and any amount of data, a byte is missing before one the
\* sink has got only after a fault: text that is read in whole frames ends where its padding begins.
THEOREM MissingOnlyAfterAFault == Spec => []Lossless
<1>1. Spec => [](Accounted /\ Framed)
  BY Invariance, InitAccounted, AccountedStep, FramedStep, PTL DEF Spec
<1>2. Inv /\ Accounted => Lossless
  <2> SUFFICES ASSUME Inv, Accounted, faults \subseteq Harmless,
                      NEW i \in 1..Len(delivered), NEW b \in 1..delivered[i]
               PROVE  \E j \in 1..i : delivered[j] = b
    BY DEF Lossless, Harmless
  <2>1. PICK j \in 1..Len(delivered) : delivered[j] = b
    BY DEF Accounted, Has
  <2>2. delivered \in Seq(Int) /\ Len(delivered) \in Nat
    BY Segments, LenProperties DEF Inv
  <2>3. delivered[i] \in Int /\ b \in Int /\ 0 < b /\ b <= delivered[i]
    <3>1. delivered[i] \in Int
      BY <2>2, ElementOfSeq
    <3> QED BY <3>1
  <2>4. ~(i < j)
    BY <2>1, <2>3 DEF Inv, Order, Sound, Increasing
  <2> QED BY <2>1, <2>2, <2>4
<1> QED BY <1>1, <1>2, Invariance, PTL

=============================================================================
