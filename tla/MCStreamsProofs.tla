---------------------------- MODULE MCStreamsProofs ----------------------------
(***************************************************************************)
(* The safety properties of the contact log, the media streams and the     *)
(* threads that capture and record, for every value of the constants that  *)
(* PartsAssumption allows.  A behaviour runs one part: each has an         *)
(* invariant of its own, proved from its Init and its Next, and the last   *)
(* section puts them together.                                             *)
(***************************************************************************)
EXTENDS MCStreams, FiniteSetTheorems, SequenceTheorems, TLAPS

-----------------------------------------------------------------------------
(* Numbers and sequences.                                                   *)

\* A set of numbers has a least element.
LEMMA LeastElement ==
    ASSUME NEW S, S \subseteq Nat, S # {}
    PROVE  \E x \in S : \A y \in S : x <= y
  <1> DEFINE R == {ss \in Nat \X Nat : ss[1] < ss[2]}
  <1>2. PICK x \in S : \A y \in S : ~ (<<y, x>> \in R)
    <2> HIDE DEF R
    <2>1. IsWellFoundedOn(R, Nat)
      BY NatLessThanWellFounded DEF OpToRel, R
    <2> QED
      BY <2>1, WFMin
  <1>3. ASSUME NEW y \in S PROVE x <= y
    <2>1. y \in Nat /\ x \in Nat
      OBVIOUS
    <2>2. y < x => <<y, x>> \in R
      BY <2>1
    <2>3. QED
      BY <1>2, <2>1, <2>2
  <1>4. QED
    BY <1>3

\* A bounded one has a greatest.
LEMMA GreatestElement ==
    ASSUME NEW S, NEW n \in Nat, S \subseteq 0..n, S # {}
    PROVE  \E x \in S : \A y \in S : y <= x
  <1> DEFINE T == {k \in 0..n : n - k \in S}
  <1>1. T \subseteq Nat /\ T # {}
    <2>1. PICK x \in S : TRUE
      OBVIOUS
    <2>2. x \in 0..n
      BY <2>1
    <2>3. n - x \in 0..n /\ n - (n - x) = x
      BY <2>2
    <2>4. n - (n - x) \in S
      BY <2>1, <2>3
    <2>5. n - x \in T
      BY <2>3, <2>4
    <2>6. T \subseteq Nat
      OBVIOUS
    <2>7. QED
      BY <2>5, <2>6
  <1>2. PICK m \in T : \A y \in T : m <= y
    <2> HIDE DEF T
    <2> QED
      BY <1>1, LeastElement
  <1>3. ASSUME NEW y \in S
        PROVE  y <= n - m
    <2>1. y \in 0..n /\ m \in 0..n
      BY <1>3, <1>2
    <2>2. n - y \in 0..n /\ n - (n - y) = y
      BY <2>1
    <2>3. n - y \in T
      BY <1>3, <2>2
    <2>4. m <= n - y
      BY <1>2, <2>3
    <2>5. QED
      BY <2>1, <2>4
  <1>4. QED
    BY <1>2, <1>3

\* A sequence without one of its elements.
LEMMA Removed ==
    ASSUME NEW S, NEW s \in Seq(S), NEW i \in 1..Len(s)
    PROVE  /\ Mic!RemoveAt(s, i) \in Seq(S)
           /\ Len(Mic!RemoveAt(s, i)) = Len(s) - 1
           /\ \A j \in 1..(Len(s) - 1) :
                 Mic!RemoveAt(s, i)[j] = IF j < i THEN s[j] ELSE s[j + 1]
  <1> DEFINE a == SubSeq(s, 1, i - 1)
             b == SubSeq(s, i + 1, Len(s))
  <1>1. Len(s) \in Nat /\ i \in Int /\ 1 <= i /\ i <= Len(s)
    BY LenProperties
  <1>2. a \in Seq(S) /\ Len(a) = i - 1 /\ \A j \in 1..(i - 1) : a[j] = s[j]
    BY <1>1, SubSeqProperties
  <1>3. b \in Seq(S) /\ Len(b) = Len(s) - i /\ \A j \in 1..(Len(s) - i) : b[j] = s[i + j]
    BY <1>1, SubSeqProperties
  <1>4. Mic!RemoveAt(s, i) = a \o b
    BY DEF Mic!RemoveAt
  <1> HIDE DEF a, b
  <1>5. /\ a \o b \in Seq(S) /\ Len(a \o b) = Len(s) - 1
        /\ \A j \in 1..(Len(s) - 1) : (a \o b)[j] = IF j <= i - 1 THEN a[j] ELSE b[j - (i - 1)]
    <2>1. Len(a) + Len(b) = Len(s) - 1
      BY <1>1, <1>2, <1>3
    <2>2. a \o b \in Seq(S) /\ Len(a \o b) = Len(a) + Len(b)
      BY <1>2, <1>3, ConcatProperties
    <2>3. \A j \in 1..(Len(a) + Len(b)) :
             (a \o b)[j] = IF j <= Len(a) THEN a[j] ELSE b[j - Len(a)]
      BY <1>2, <1>3, ConcatProperties
    <2>4. QED
      BY <1>2, <2>1, <2>2, <2>3
  <1>6. ASSUME NEW j \in 1..(Len(s) - 1)
        PROVE  (a \o b)[j] = IF j < i THEN s[j] ELSE s[j + 1]
    <2>1. CASE j < i
      BY <1>1, <1>2, <1>5, <2>1
    <2>2. CASE ~(j < i)
      <3>1. j - (i - 1) \in 1..(Len(s) - i) /\ i + (j - (i - 1)) = j + 1
        BY <1>1, <2>2
      <3>2. b[j - (i - 1)] = s[j + 1]
        BY <1>3, <3>1
      <3>3. QED
        BY <1>1, <1>5, <2>2, <3>2
    <2>3. QED
      BY <2>1, <2>2
  <1>7. QED
    BY <1>4, <1>5, <1>6

-----------------------------------------------------------------------------
(* The microphone: MicUplink.                                               *)

\* The ring is emptied at each press and at each release, so what it holds, and what
\* is sent from it, was captured under the press it is sent under.
RingIsCurrent == \A i \in 1..Len(ring) : ring[i] = press
SentUnderOwnPress == \A i \in 1..Len(micNet) : micNet[i].press = micNet[i].sent

PressedFirst == streaming => press # 0

MicInv == Mic!TypeOK /\ PressedFirst /\ RingIsCurrent /\ SentUnderOwnPress /\ Mic!QueueIsCurrent

\* Division.
LEMMA DivisionFacts ==
    ASSUME NEW n \in Nat, NEW k \in Nat \ {0}
    PROVE  /\ n \div k \in Nat /\ n % k \in 0..(k - 1)
           /\ k * (n \div k) + (n % k) = n
  <1>1. n \div k \in Int /\ n \div k >= 0
    OBVIOUS
  <1>2. n % k \in 0..(k - 1)
    OBVIOUS
  <1>3. k * (n \div k) + (n % k) = n
    BY Z3
  <1>4. QED
    BY <1>1, <1>2, <1>3

\* A quotient below a bound.
LEMMA DivisionBound ==
    ASSUME NEW n \in Nat, NEW k \in Nat \ {0}, NEW m \in Nat, n < m * k
    PROVE  n \div k < m
  <1> DEFINE q == n \div k
             r == n % k
  <1>1. q \in Nat /\ r \in Nat /\ k * q + r = n
    BY DivisionFacts
  <1> HIDE DEF q, r
  <1>2. q * k <= n
    BY <1>1
  <1>3. q < m
    <2>1. SUFFICES ASSUME m <= q PROVE FALSE
      BY <1>1
    <2>2. PICK d \in Nat : q = m + d
      <3>1. q - m \in Nat /\ q = m + (q - m)
        BY <1>1, <2>1
      <3>2. QED
        BY <3>1
    <2>3. (m + d) * k = m * k + d * k /\ d * k \in Nat /\ m * k \in Nat
      OBVIOUS
    <2>4. QED
      BY <1>2, <2>2, <2>3
  <1>4. QED
    BY <1>3 DEF q

\* One element more, one less.
LEMMA CardinalityPlus ==
    ASSUME NEW S, IsFiniteSet(S), NEW x
    PROVE  /\ IsFiniteSet(S \cup {x}) /\ Cardinality(S) \in Nat
           /\ Cardinality(S \cup {x}) \in {Cardinality(S), Cardinality(S) + 1}
  BY FS_AddElement, FS_CardinalityType

\* And of one element less.
LEMMA CardinalityMinus ==
    ASSUME NEW S, IsFiniteSet(S), NEW x \in S
    PROVE  /\ IsFiniteSet(S \ {x}) /\ Cardinality(S) \in Nat
           /\ Cardinality(S \ {x}) = Cardinality(S) - 1
  BY FS_RemoveElement, FS_CardinalityType

\* What is assumed of the constants.
LEMMA MicConstants == MaxPresses \in Nat /\ RingMax \in Nat /\ QueueMax \in Nat
  BY PartsAssumption DEF PartsAssumption

\* Pushing drops the oldest block, or none.
LEMMA PushedFacts ==
    ASSUME NEW S, NEW s \in Seq(S), NEW b \in S, NEW max \in Nat, Len(s) <= max
    PROVE  /\ Mic!Pushed(s, b, max) \in Seq(S)
           /\ Len(Mic!Pushed(s, b, max)) <= max
           /\ \A i \in 1..Len(Mic!Pushed(s, b, max)) :
                 \/ Mic!Pushed(s, b, max)[i] = b
                 \/ \E j \in 1..Len(s) : Mic!Pushed(s, b, max)[i] = s[j]
  <1> DEFINE grown == Append(s, b)
  <1>1. /\ grown \in Seq(S) /\ Len(grown) = Len(s) + 1
        /\ \A j \in 1..Len(s) : grown[j] = s[j]
        /\ grown[Len(s) + 1] = b
    BY AppendProperties
  <1>2. Len(s) \in Nat
    BY LenProperties
  <1>3. Mic!Pushed(s, b, max) = IF Len(grown) > max THEN Tail(grown) ELSE grown
    BY DEF Mic!Pushed
  <1> HIDE DEF grown
  <1>4. \A j \in 1..(Len(s) + 1) : grown[j] = b \/ \E k \in 1..Len(s) : grown[j] = s[k]
    <2>1. TAKE j \in 1..(Len(s) + 1)
    <2>2. j = Len(s) + 1 \/ j \in 1..Len(s)
      BY <1>2
    <2>3. QED
      BY <1>1, <2>2
  <1>5. CASE Len(grown) > max
    <2>1. grown # <<>>
      BY <1>1, <1>2
    <2>2. /\ Tail(grown) \in Seq(S) /\ Len(Tail(grown)) = Len(s)
          /\ \A i \in 1..Len(s) : Tail(grown)[i] = grown[i + 1]
      BY <1>1, <1>2, <2>1, HeadTailProperties
    <2>3. \A i \in 1..Len(s) : i + 1 \in 1..(Len(s) + 1)
      BY <1>2
    <2>4. QED
      BY <1>3, <1>4, <1>5, <2>2, <2>3
  <1>6. CASE ~(Len(grown) > max)
    BY <1>1, <1>2, <1>3, <1>4, <1>6
  <1>7. QED
    BY <1>5, <1>6

\* A client that starts has captured nothing.
LEMMA MicInitInv == Mic!Init => MicInv
  <1> SUFFICES ASSUME Mic!Init PROVE MicInv
    OBVIOUS
  <1>1. \A S : <<>> \in Seq(S) /\ Len(<<>>) = 0
    OBVIOUS
  <1>2. 0 \in 0..MaxPresses
    BY MicConstants
  <1>3. Mic!TypeOK
    <2>1. {press, started} \subseteq 0..MaxPresses
      BY <1>2 DEF Mic!Init
    <2>2. {streaming, overtaken, active, pending} \subseteq BOOLEAN
      BY DEF Mic!Init
    <2>3. /\ ring \in Seq(Mic!Presses) /\ queue \in Seq(Mic!Presses)
          /\ Len(ring) <= RingMax /\ Len(queue) <= QueueMax
      BY <1>1, MicConstants DEF Mic!Init
    <2>4. micNet \in Seq([press : Mic!Presses, sent : Mic!Presses])
      BY <1>1 DEF Mic!Init
    <2>5. cmds \in Seq(0..MaxPresses)
      BY <1>1 DEF Mic!Init
    <2>6. over \in {"idle", "prefill", "drain"} /\ onAir \in Mic!Presses \cup {None}
      BY DEF Mic!Init
    <2>7. QED
      BY <2>1, <2>2, <2>3, <2>4, <2>5, <2>6 DEF Mic!TypeOK
  <1>4. PressedFirst /\ RingIsCurrent /\ SentUnderOwnPress /\ Mic!QueueIsCurrent
    BY <1>1 DEF Mic!Init, PressedFirst, RingIsCurrent, SentUnderOwnPress, Mic!QueueIsCurrent
  <1>5. QED
    BY <1>3, <1>4 DEF MicInv

\* Pressing and releasing PTT empty the ring.
LEMMA MicPttInv ==
    ASSUME MicInv, Mic!PressPtt \/ Mic!ReleasePtt
    PROVE  MicInv'
  <1> USE DEF MicInv
  <1>1. /\ UNCHANGED <<micNet, queue, started, overtaken, active, pending, over, onAir>>
        /\ streaming' \in BOOLEAN /\ ring' = <<>>
    BY DEF Mic!PressPtt, Mic!ReleasePtt, Mic!SetTxStreaming, Mic!radio
  <1>2. press' \in 0..MaxPresses
    <2>1. press \in 0..MaxPresses
      BY DEF Mic!TypeOK
    <2>2. press' = press \/ (press < MaxPresses /\ press' = press + 1)
      BY DEF Mic!PressPtt, Mic!ReleasePtt
    <2>3. QED
      BY <2>1, <2>2, MicConstants
  <1>3. cmds' \in Seq(0..MaxPresses)
    <2>1. cmds \in Seq(0..MaxPresses) /\ 0 \in 0..MaxPresses
      BY MicConstants DEF Mic!TypeOK
    <2>2. CASE Mic!PressPtt
      BY <1>2, <2>1, <2>2, AppendProperties DEF Mic!PressPtt
    <2>4. CASE Mic!ReleasePtt
      BY <2>1, <2>4, AppendProperties DEF Mic!ReleasePtt
    <2>5. QED
      BY <2>2, <2>4
  <1>4. ring' \in Seq(Mic!Presses) /\ Len(ring') = 0
    BY <1>1
  <1>5. Mic!TypeOK'
    BY <1>1, <1>2, <1>3, <1>4, MicConstants DEF Mic!TypeOK
  <1>6. RingIsCurrent' /\ SentUnderOwnPress' /\ Mic!QueueIsCurrent'
    BY <1>1, <1>4 DEF RingIsCurrent, SentUnderOwnPress, Mic!QueueIsCurrent
  <1>7. PressedFirst'
    <2>1. press \in 0..MaxPresses
      BY DEF Mic!TypeOK
    <2>2. (press' = press + 1) \/ streaming' = FALSE
      BY DEF Mic!PressPtt, Mic!ReleasePtt, Mic!SetTxStreaming
    <2>3. QED
      BY <2>1, <2>2, MicConstants DEF PressedFirst
  <1>8. QED
    BY <1>5, <1>6, <1>7

\* A block captured while streaming is of the press held.
LEMMA MicCaptureInv == MicInv /\ Mic!Capture => MicInv'
  <1> SUFFICES ASSUME MicInv, Mic!Capture PROVE MicInv'
    OBVIOUS
  <1> USE DEF MicInv
  <1>1. press \in 0..MaxPresses /\ ring \in Seq(Mic!Presses) /\ Len(ring) <= RingMax
    BY DEF Mic!TypeOK
  <1>2. /\ UNCHANGED <<press, streaming, micNet, cmds, queue, started, overtaken,
                       active, pending, over, onAir>>
        /\ ring' = Mic!Pushed(ring, press, RingMax)
    BY DEF Mic!Capture, Mic!radio
  <1>3. press \in Mic!Presses
    <2>1. press # 0
      BY DEF Mic!Capture, PressedFirst
    <2>2. QED
      BY <1>1, <2>1, MicConstants DEF Mic!Presses
  <1>4. /\ ring' \in Seq(Mic!Presses) /\ Len(ring') <= RingMax
        /\ \A i \in 1..Len(ring') :
              ring'[i] = press \/ \E j \in 1..Len(ring) : ring'[i] = ring[j]
    BY <1>1, <1>2, <1>3, PushedFacts, MicConstants
  <1>5. Mic!TypeOK'
    BY <1>2, <1>4 DEF Mic!TypeOK
  <1>6. PressedFirst' /\ RingIsCurrent' /\ SentUnderOwnPress' /\ Mic!QueueIsCurrent'
    BY <1>2, <1>4 DEF PressedFirst, RingIsCurrent, SentUnderOwnPress, Mic!QueueIsCurrent
  <1>7. QED
    BY <1>5, <1>6

\* What is sent is what the ring held, under the press now held.
LEMMA MicSendInv == MicInv /\ Mic!Send => MicInv'
  <1> SUFFICES ASSUME MicInv, Mic!Send PROVE MicInv'
    OBVIOUS
  <1> USE DEF MicInv
  <1> DEFINE sending == [i \in 1..Len(ring) |-> [press |-> ring[i], sent |-> press]]
             Datagram == [press : Mic!Presses, sent : Mic!Presses]
  <1>1. /\ press \in 0..MaxPresses /\ ring \in Seq(Mic!Presses) /\ Len(ring) \in Nat
        /\ micNet \in Seq(Datagram) /\ Len(micNet) \in Nat
    BY LenProperties DEF Mic!TypeOK
  <1>2. /\ UNCHANGED <<press, streaming, cmds, queue, started, overtaken,
                       active, pending, over, onAir>>
        /\ ring' = <<>> /\ micNet' = micNet \o sending
    BY DEF Mic!Send, Mic!radio
  <1>3. \A i \in 1..Len(ring) : ring[i] \in Mic!Presses /\ ring[i] = press
    BY <1>1, ElementOfSeq DEF RingIsCurrent
  <1>4. /\ sending \in Seq(Datagram) /\ Len(sending) = Len(ring)
        /\ \A i \in 1..Len(sending) : sending[i].press = sending[i].sent
    <2>1. \A i \in 1..Len(ring) : [press |-> ring[i], sent |-> press] \in Datagram
      BY <1>3
    <2>2. QED
      BY <1>1, <1>3, <2>1
  <1> HIDE DEF sending, Datagram
  <1>5. micNet' \in Seq(Datagram) /\ Len(micNet') = Len(micNet) + Len(sending)
    BY <1>1, <1>2, <1>4, ConcatProperties
  <1>6. ASSUME NEW i \in 1..Len(micNet')
        PROVE  micNet'[i].press = micNet'[i].sent
    <2>1. micNet'[i] = IF i <= Len(micNet) THEN micNet[i] ELSE sending[i - Len(micNet)]
      BY <1>1, <1>2, <1>4, <1>5, ConcatProperties
    <2>2. CASE i <= Len(micNet)
      BY <1>1, <2>1, <2>2 DEF SentUnderOwnPress
    <2>3. CASE ~(i <= Len(micNet))
      <3>1. i - Len(micNet) \in 1..Len(sending)
        BY <1>1, <1>4, <1>5, <2>3
      <3>2. QED
        BY <1>4, <2>1, <2>3, <3>1
    <2>4. QED
      BY <2>2, <2>3
  <1>7. ring' \in Seq(Mic!Presses) /\ Len(ring') = 0
    BY <1>2
  <1>8. Mic!TypeOK'
    BY <1>2, <1>5, <1>7, MicConstants DEF Mic!TypeOK, Datagram
  <1>9. PressedFirst' /\ RingIsCurrent' /\ SentUnderOwnPress' /\ Mic!QueueIsCurrent'
    BY <1>2, <1>6, <1>7 DEF PressedFirst, RingIsCurrent, SentUnderOwnPress,
                             Mic!QueueIsCurrent
  <1>10. QED
    BY <1>8, <1>9

\* A datagram lost, or received: it left under the press it was captured under, so it
\* is of the over begun, or of a later one, or it was overtaken.
LEMMA MicNetworkInv ==
    ASSUME MicInv, Mic!Receive \/ Mic!Lose
    PROVE  MicInv'
  <1> USE DEF MicInv
  <1> DEFINE Datagram == [press : Mic!Presses, sent : Mic!Presses]
  <1>1. PICK i \in 1..Len(micNet) :
          /\ micNet' = Mic!RemoveAt(micNet, i)
          /\ \/ UNCHANGED <<queue, overtaken>>
             \/ /\ queue' = Mic!Pushed(queue, micNet[i].press, QueueMax)
                /\ overtaken' = (overtaken \/ micNet[i].sent < started)
    BY DEF Mic!Receive, Mic!Lose
  <1>2. UNCHANGED <<press, streaming, ring, cmds, started, active, pending, over, onAir>>
    BY DEF Mic!Receive, Mic!Lose, Mic!client, Mic!radio
  <1>3. /\ micNet \in Seq(Datagram) /\ Len(micNet) \in Nat
        /\ queue \in Seq(Mic!Presses) /\ Len(queue) <= QueueMax
        /\ started \in 0..MaxPresses /\ overtaken \in BOOLEAN
    BY LenProperties DEF Mic!TypeOK
  <1>4. /\ micNet[i] \in Datagram /\ micNet[i].press \in Mic!Presses
        /\ micNet[i].press = micNet[i].sent
    <2>1. micNet[i] \in Datagram
      <3> HIDE DEF Datagram
      <3> QED
        BY <1>3
    <2>2. QED
      BY <2>1 DEF SentUnderOwnPress
  <1>5. /\ micNet' \in Seq(Datagram) /\ Len(micNet') = Len(micNet) - 1
        /\ \A j \in 1..Len(micNet') : \E k \in 1..Len(micNet) : micNet'[j] = micNet[k]
    <2> HIDE DEF Datagram
    <2>1. /\ micNet' \in Seq(Datagram) /\ Len(micNet') = Len(micNet) - 1
          /\ \A j \in 1..(Len(micNet) - 1) :
                micNet'[j] = IF j < i THEN micNet[j] ELSE micNet[j + 1]
      BY <1>1, <1>3, Removed
    <2>2. \A j \in 1..(Len(micNet) - 1) : j \in 1..Len(micNet) /\ j + 1 \in 1..Len(micNet)
      BY <1>3
    <2>3. QED
      BY <2>1, <2>2
  <1>6. /\ queue' \in Seq(Mic!Presses) /\ Len(queue') <= QueueMax
        /\ overtaken' \in BOOLEAN
    <2>1. CASE UNCHANGED <<queue, overtaken>>
      BY <1>3, <2>1
    <2>2. CASE /\ queue' = Mic!Pushed(queue, micNet[i].press, QueueMax)
               /\ overtaken' = (overtaken \/ micNet[i].sent < started)
      <3>1. queue' \in Seq(Mic!Presses) /\ Len(queue') <= QueueMax
        BY <1>3, <1>4, <2>2, PushedFacts, MicConstants
      <3>2. overtaken' \in BOOLEAN
        BY <2>2
      <3>3. QED
        BY <3>1, <3>2
    <2>3. QED
      BY <1>1, <2>1, <2>2
  <1>7. Mic!TypeOK'
    BY <1>2, <1>5, <1>6 DEF Mic!TypeOK
  <1>8. SentUnderOwnPress'
    BY <1>5 DEF SentUnderOwnPress
  <1>9. PressedFirst' /\ RingIsCurrent'
    BY <1>2 DEF PressedFirst, RingIsCurrent
  <1>10. Mic!QueueIsCurrent'
    <2>1. CASE UNCHANGED <<queue, overtaken>>
      BY <1>2, <2>1 DEF Mic!QueueIsCurrent
    <2>2. CASE /\ queue' = Mic!Pushed(queue, micNet[i].press, QueueMax)
               /\ overtaken' = (overtaken \/ micNet[i].sent < started)
      <3>1. SUFFICES ASSUME ~overtaken', NEW j \in 1..Len(queue')
                     PROVE  queue'[j] >= started
        BY <1>2 DEF Mic!QueueIsCurrent
      <3>2. ~overtaken /\ ~(micNet[i].sent < started)
        BY <2>2, <3>1
      <3>3. micNet[i].press >= started
        BY <1>3, <1>4, <3>2, MicConstants DEF Mic!Presses
      <3>4. \A k \in 1..Len(queue) : queue[k] >= started
        BY <3>2 DEF Mic!QueueIsCurrent
      <3>5. queue'[j] = micNet[i].press \/ \E k \in 1..Len(queue) : queue'[j] = queue[k]
        BY <1>3, <1>4, <2>2, PushedFacts, MicConstants
      <3>6. QED
        BY <3>3, <3>4, <3>5
    <2>3. QED
      BY <1>1, <2>1, <2>2
  <1>11. QED
    BY <1>7, <1>8, <1>9, <1>10

\* Handling a start empties the queue.
LEMMA MicCommandInv == MicInv /\ Mic!Command => MicInv'
  <1> SUFFICES ASSUME MicInv, Mic!Command PROVE MicInv'
    OBVIOUS
  <1> USE DEF MicInv
  <1> DEFINE starts == Head(cmds) # 0
  <1>1. /\ UNCHANGED <<press, streaming, ring, micNet, over, onAir>>
        /\ cmds # <<>> /\ cmds' = Tail(cmds)
        /\ queue' = (IF starts THEN <<>> ELSE queue)
        /\ started' = (IF starts THEN Head(cmds) ELSE started)
        /\ overtaken' = (overtaken /\ ~starts)
        /\ active' = starts /\ pending' = starts
    BY DEF Mic!Command, Mic!ClearedAtStart
  <1>2. cmds' \in Seq(0..MaxPresses) /\ Head(cmds) \in 0..MaxPresses
    <2>1. cmds \in Seq(0..MaxPresses)
      BY DEF Mic!TypeOK
    <2>2. QED
      BY <1>1, <2>1, HeadTailProperties
  <1>3. queue' \in Seq(Mic!Presses) /\ Len(queue') <= QueueMax
    <2>1. queue \in Seq(Mic!Presses) /\ Len(queue) <= QueueMax
      BY DEF Mic!TypeOK
    <2>2. CASE starts
      BY <1>1, <2>2, MicConstants
    <2>3. CASE ~starts
      BY <1>1, <2>1, <2>3
    <2>4. QED
      BY <2>2, <2>3
  <1>4. started' \in 0..MaxPresses
    BY <1>1, <1>2 DEF Mic!TypeOK
  <1>5. {overtaken', active', pending'} \subseteq BOOLEAN
    BY <1>1
  <1>6. Mic!TypeOK'
    BY <1>1, <1>2, <1>3, <1>4, <1>5 DEF Mic!TypeOK
  <1>7. PressedFirst' /\ RingIsCurrent' /\ SentUnderOwnPress'
    BY <1>1 DEF PressedFirst, RingIsCurrent, SentUnderOwnPress
  <1>8. Mic!QueueIsCurrent'
    <2>1. CASE starts
      BY <1>1, <2>1 DEF Mic!QueueIsCurrent
    <2>2. CASE ~starts
      BY <1>1, <2>2 DEF Mic!QueueIsCurrent
    <2>3. QED
      BY <2>1, <2>2
  <1>9. QED
    BY <1>6, <1>7, <1>8

\* The over takes blocks from the head of the queue.
LEMMA MicOverInv ==
    ASSUME MicInv, Mic!Begin \/ Mic!PrefillEnds \/ Mic!Pull \/ Mic!EndOver
    PROVE  MicInv'
  <1> USE DEF MicInv
  <1>1. UNCHANGED <<press, streaming, ring, cmds, micNet, started, overtaken>>
    BY DEF Mic!Begin, Mic!PrefillEnds, Mic!Pull, Mic!EndOver, Mic!client
  <1>2. queue \in Seq(Mic!Presses) /\ Len(queue) <= QueueMax /\ Len(queue) \in Nat
    BY LenProperties DEF Mic!TypeOK
  <1>3. /\ \/ queue' = queue
           \/ queue # <<>> /\ queue' = Tail(queue)
        /\ \/ onAir' \in {onAir, None}
           \/ queue # <<>> /\ onAir' = Head(queue)
    BY DEF Mic!Begin, Mic!PrefillEnds, Mic!Pull, Mic!EndOver
  <1>4. /\ over' \in {"idle", "prefill", "drain"}
        /\ {active', pending'} \subseteq BOOLEAN
    BY DEF Mic!TypeOK, Mic!Begin, Mic!PrefillEnds, Mic!Pull, Mic!EndOver
  <1>5. /\ queue' \in Seq(Mic!Presses) /\ Len(queue') <= QueueMax
        /\ \A i \in 1..Len(queue') : \E j \in 1..Len(queue) : queue'[i] = queue[j]
    <2>1. CASE queue' = queue
      BY <1>2, <2>1
    <2>2. CASE queue # <<>> /\ queue' = Tail(queue)
      <3>1. /\ queue' \in Seq(Mic!Presses) /\ Len(queue') = Len(queue) - 1
            /\ \A i \in 1..Len(queue') : queue'[i] = queue[i + 1]
        BY <1>2, <2>2, HeadTailProperties
      <3>2. \A i \in 1..(Len(queue) - 1) : i + 1 \in 1..Len(queue)
        BY <1>2
      <3>3. QED
        BY <1>2, <3>1, <3>2, MicConstants
    <2>3. QED
      BY <1>3, <2>1, <2>2
  <1>6. onAir' \in Mic!Presses \cup {None}
    BY <1>2, <1>3, HeadTailProperties DEF Mic!TypeOK
  <1>7. Mic!TypeOK'
    BY <1>1, <1>4, <1>5, <1>6 DEF Mic!TypeOK
  <1>8. /\ PressedFirst' /\ RingIsCurrent' /\ SentUnderOwnPress' /\ Mic!QueueIsCurrent'
    BY <1>1, <1>5 DEF PressedFirst, RingIsCurrent, SentUnderOwnPress, Mic!QueueIsCurrent
  <1>9. QED
    BY <1>7, <1>8

\* Every step of the microphone keeps its invariant.
LEMMA MicNextInv == MicInv /\ Mic!Next => MicInv'
  BY MicPttInv, MicCaptureInv, MicSendInv, MicNetworkInv, MicCommandInv, MicOverInv
  DEF Mic!Next

-----------------------------------------------------------------------------
(* The capture thread: CaptureLoop.                                         *)

Controls == [center : Bands, target : Bands, b : Bands, dual : BOOLEAN,
             txB : BOOLEAN, n2adr : BOOLEAN, direct : BOOLEAN, keys : Loops!KeySets,
             sweep : Bands \cup {None}, rec : {None, "start", "stop"}, gate : BOOLEAN, gateB : BOOLEAN]
Believed == [dual : BOOLEAN, b : Bands \cup {None}, direct : BOOLEAN, center : Bands,
             n2adr : BOOLEAN, filter : Loops!Filters \cup {None}]
Sources == [center : Bands, b : Bands \cup {None}, direct : BOOLEAN,
            filter : Loops!Filters \cup {None}, rec : BOOLEAN]
Steps == {"snapshot", "configure", "tune", "record", "spot", "sweep", "mic", "read",
          "sendA", "done"}

\* Unless an over led the filter astray, the source has the filter the thread believes it
\* has.  Once tuned the thread believes it has the one the snapshot calls for; with one
\* receiver it goes on believing so in that turn, or believes nothing after an over across
\* bands, until a sweep puts it on another band.
BeliefIsTrue == last.filter # None /\ ~astray => source.filter = last.filter
TunedForSnapshot ==
    pc = "record" /\ captureSnap.n2adr /\ Loops!FilterForRx(captureSnap) # None
      => last.filter = Loops!FilterForRx(captureSnap)
StillTuned ==
    pc \in {"spot", "sweep", "mic"} /\ ~swept
      /\ captureSnap.n2adr /\ ~captureSnap.dual /\ captureSnap.target # 0
      => last.filter \in {None, Loops!FilterOf(captureSnap.target)}
SweptLast == swept => pc \in {"mic", "read", "sendA", "snapshot"}

CaptureInv == /\ Loops!TypeOK /\ captureSnap \in Controls
              /\ BeliefIsTrue /\ TunedForSnapshot /\ StillTuned /\ SweptLast
              /\ Loops!GateOfB

\* What is assumed of the constants.
LEMMA CaptureConstants ==
    /\ Bands \subseteq Nat /\ \E top \in Bands : \A f \in Bands : f <= top
    /\ Tuner \subseteq Bands /\ Tuner # {} /\ Direct \subseteq Bands /\ Direct # {}
    /\ None \notin Bands /\ None \notin Loops!Filters
    /\ QueueCap \in Nat /\ MaxCommands \in Nat
  BY PartsAssumption DEF PartsAssumption

\* A set of bands has a lowest and a highest.
LEMMA BandsBounded ==
    ASSUME NEW S, S \subseteq Bands, S # {}
    PROVE  /\ Loops!Max(S) \in S /\ \A f \in S : f <= Loops!Max(S)
           /\ Loops!Min(S) \in S /\ \A f \in S : Loops!Min(S) <= f
  <1>1. PICK top \in Bands : \A f \in Bands : f <= top
    BY CaptureConstants
  <1>2. S \subseteq 0..top /\ top \in Nat /\ S \subseteq Nat
    BY <1>1, CaptureConstants
  <1>3. PICK hi \in S : \A f \in S : f <= hi
    BY <1>2, GreatestElement
  <1>4. PICK lo \in S : \A f \in S : lo <= f
    BY <1>2, LeastElement
  <1>5. \A f, g \in S : (f <= g <=> g >= f)
    BY <1>2
  <1>6. hi \in S /\ \A f \in S : hi >= f
    BY <1>3, <1>5
  <1>7. Loops!Max(S) \in S /\ \A f \in S : Loops!Max(S) >= f
    BY <1>6 DEF Loops!Max
  <1>8. Loops!Min(S) \in S /\ \A f \in S : Loops!Min(S) <= f
    BY <1>4 DEF Loops!Min
  <1>9. QED
    BY <1>5, <1>7, <1>8

\* The clamp stays on the bands.
LEMMA ClampIsBand ==
    ASSUME NEW f \in Bands, NEW S, S \subseteq Bands, S # {}
    PROVE  Loops!Clamp(f, S) \in Bands
  <1>1. Loops!Max(S) \in Bands /\ Loops!Min(S) \in Bands
    BY BandsBounded
  <1>2. Loops!Min({f, Loops!Max(S)}) \in Bands
    BY <1>1, BandsBounded
  <1>3. Loops!Max({Loops!Min({f, Loops!Max(S)}), Loops!Min(S)}) \in Bands
    BY <1>1, <1>2, BandsBounded
  <1>4. QED
    BY <1>3 DEF Loops!Clamp

\* The filter of a receive configuration is a filter; with one receiver it is the one
\* of the dial's band.
LEMMA FilterForRxFacts ==
    ASSUME NEW c \in Controls
    PROVE  /\ Loops!FilterForRx(c) \in Loops!Filters \cup {None}
           /\ ~c.dual /\ c.target # 0 => /\ Loops!FilterForRx(c) = Loops!FilterOf(c.target)
                                         /\ Loops!FilterForRx(c) # None
  <1> DEFINE tuned == (IF c.dual THEN {c.target, c.b} ELSE {c.target}) \ {0}
  <1>1. tuned \subseteq Bands /\ c.target \in Bands
    BY DEF Controls
  <1>2. Loops!FilterForRx(c) = IF tuned = {} THEN None
                               ELSE [lpf |-> Loops!Max(tuned), hpf |-> 1 \notin tuned]
    BY DEF Loops!FilterForRx
  <1>3. ~c.dual /\ c.target # 0 => tuned = {c.target}
    OBVIOUS
  <1> HIDE DEF tuned
  <1>4. tuned # {} => Loops!Max(tuned) \in tuned
    BY <1>1, BandsBounded
  <1>5. tuned # {} => [lpf |-> Loops!Max(tuned), hpf |-> 1 \notin tuned] \in Loops!Filters
    <2>1. tuned # {} => Loops!Max(tuned) \in Bands /\ (1 \notin tuned) \in BOOLEAN
      BY <1>1, <1>4
    <2>2. QED
      BY <2>1 DEF Loops!Filters
  <1>6. Loops!FilterForRx(c) \in Loops!Filters \cup {None}
    BY <1>2, <1>5
  <1>7. ASSUME ~c.dual, c.target # 0
        PROVE  /\ Loops!FilterForRx(c) = Loops!FilterOf(c.target)
               /\ Loops!FilterForRx(c) # None
    <2>1. tuned = {c.target} /\ tuned # {}
      BY <1>3, <1>7
    <2>2. Loops!Max(tuned) = c.target /\ ((1 \notin tuned) <=> c.target # 1)
      BY <1>4, <2>1
    <2>3. (1 \notin tuned) = (c.target # 1)
      BY <2>2
    <2>4. Loops!FilterForRx(c) = [lpf |-> c.target, hpf |-> c.target # 1]
      BY <1>2, <2>1, <2>2, <2>3
    <2>5. QED
      BY <1>2, <1>5, <2>1, <2>4, CaptureConstants DEF Loops!FilterOf
  <1>8. QED
    BY <1>6, <1>7

\* Before the first turn the thread believes nothing of the filter.
LEMMA CaptureInitInv == Loops!Init => CaptureInv
  <1> SUFFICES ASSUME Loops!Init PROVE CaptureInv
    OBVIOUS
  <1>1. PICK f \in Tuner :
          /\ control = [center |-> f, target |-> f, b |-> f, dual |-> FALSE, txB |-> FALSE,
                        n2adr |-> FALSE, direct |-> FALSE, keys |-> {}, sweep |-> None,
                        rec |-> None, gate |-> TRUE, gateB |-> TRUE]
          /\ mirror = [tuned |-> f, gate |-> TRUE]
          /\ last = [dual |-> FALSE, b |-> None, direct |-> FALSE, center |-> f,
                     n2adr |-> FALSE, filter |-> None]
          /\ source = [center |-> f, b |-> None, direct |-> FALSE, filter |-> None,
                       rec |-> FALSE]
    BY DEF Loops!Init
  <1>2. f \in Bands
    BY CaptureConstants
  <1>3. control \in Controls /\ captureSnap \in Controls
    <2>1. control \in Controls
      BY <1>1, <1>2 DEF Controls, Loops!KeySets
    <2>2. QED
      BY <2>1 DEF Loops!Init
  <1>4. mirror \in [tuned : Bands, gate : BOOLEAN]
    BY <1>1, <1>2
  <1>5. last \in Believed /\ source \in Sources
    BY <1>1, <1>2 DEF Believed, Sources
  <1>6. captureQueue \in [{"A", "B"} -> 0..QueueCap] /\ asked \in 0..MaxCommands
    BY CaptureConstants DEF Loops!Init
  <1>7. /\ hw \in {"rtl", "hl2"} /\ gateB \in BOOLEAN /\ swept = FALSE /\ astray \in BOOLEAN
        /\ stop \in BOOLEAN /\ pc = "snapshot"
    BY DEF Loops!Init
  <1>8. Loops!TypeOK
    BY <1>3, <1>4, <1>5, <1>6, <1>7 DEF Loops!TypeOK, Controls, Believed, Sources, Steps, Loops!KeySets
  <1>9. BeliefIsTrue /\ TunedForSnapshot /\ StillTuned /\ SweptLast /\ Loops!GateOfB
    <2>1. last.filter = None /\ mirror.gate = TRUE /\ gateB = TRUE
      BY <1>1 DEF Loops!Init
    <2>2. QED
      BY <1>7, <2>1 DEF BeliefIsTrue, TunedForSnapshot, StillTuned, SweptLast, Loops!GateOfB
  <1>10. QED
    BY <1>3, <1>8, <1>9 DEF CaptureInv

\* What TypeOK says, by the names of the sets.
LEMMA CaptureTypes ==
    Loops!TypeOK <=>
      /\ hw \in {"rtl", "hl2"} /\ control \in Controls
      /\ mirror \in [tuned : Bands, gate : BOOLEAN] /\ gateB \in BOOLEAN
      /\ pc \in Steps
      /\ last \in Believed /\ source \in Sources
      /\ captureQueue \in [{"A", "B"} -> 0..QueueCap]
      /\ swept \in BOOLEAN /\ astray \in BOOLEAN /\ stop \in BOOLEAN /\ asked \in 0..MaxCommands
  BY DEF Loops!TypeOK, Controls, Believed, Sources, Steps, Loops!KeySets

\* TypeOK of the next state, from the types of its variables.
LEMMA CaptureTypesNext ==
    ASSUME hw' \in {"rtl", "hl2"}, control' \in Controls,
           mirror' \in [tuned : Bands, gate : BOOLEAN], gateB' \in BOOLEAN,
           pc' \in Steps,
           last' \in Believed, source' \in Sources,
           captureQueue' \in [{"A", "B"} -> 0..QueueCap],
           swept' \in BOOLEAN, astray' \in BOOLEAN, stop' \in BOOLEAN, asked' \in 0..MaxCommands
    PROVE  Loops!TypeOK'
  BY DEF Loops!TypeOK, Controls, Believed, Sources, Steps, Loops!KeySets

\* A command leaves settings of the kind it found.
LEMMA SettingsAreControls ==
    ASSUME control \in Controls
    PROVE  Loops!Settings \subseteq Controls
  <1> DEFINE dial == IF hw = "hl2" THEN Bands ELSE IF control.direct THEN Direct ELSE Tuner
             Dialled(f) == [control EXCEPT !.center = f, !.target = f]
             dialled == {Dialled(f) : f \in dial}
             tuned == {[control EXCEPT !.target = f] : f \in Bands}
             recorded == {[control EXCEPT !.rec = r] : r \in {"start", "stop"}}
             sampled == {[control EXCEPT !.direct = ~control.direct]}
             second == {[control EXCEPT !.b = f] : f \in Bands}
             Replayed(v) == [control EXCEPT !.b = v[1], !.n2adr = TRUE, !.txB = v[2],
                                            !.dual = ~v[2], !.keys = v[3], !.sweep = v[4]]
             replays == Bands \X BOOLEAN \X Loops!KeySets \X Loops!Sweeps
             replayed == {Replayed(v) : v \in replays}
             toggled == {[control EXCEPT !.dual = ~control.dual],
                         [control EXCEPT !.txB = ~control.txB],
                         [control EXCEPT !.n2adr = ~control.n2adr]}
             keyed == {[control EXCEPT !.keys = k] : k \in Loops!KeySets}
             swung == {[control EXCEPT !.sweep = f] : f \in Loops!Sweeps}
  <1>1. Loops!Settings = dialled \cup tuned \cup recorded
                           \cup IF hw = "rtl" THEN sampled
                                ELSE second \cup replayed \cup toggled \cup keyed
                                       \cup swung
    BY DEF Loops!Settings
  <1> USE DEF Controls
  <1>2. dial \subseteq Bands /\ Loops!Sweeps \subseteq Bands \cup {None}
    BY CaptureConstants DEF Loops!Sweeps
  <1>3. dialled \subseteq Controls /\ tuned \subseteq Controls /\ second \subseteq Controls
    <2>1. \A f \in Bands : /\ Dialled(f) \in Controls
                           /\ [control EXCEPT !.target = f] \in Controls
                           /\ [control EXCEPT !.b = f] \in Controls
      OBVIOUS
    <2> HIDE DEF Controls, dial, Dialled
    <2>2. dialled \subseteq Controls
      BY <1>2, <2>1
    <2>3. tuned \subseteq Controls /\ second \subseteq Controls
      BY <2>1
    <2> HIDE DEF dialled
    <2>4. QED
      BY <2>2, <2>3
  <1>4. recorded \subseteq Controls
    OBVIOUS
  <1>5. sampled \subseteq Controls /\ toggled \subseteq Controls
    <2>1. /\ [control EXCEPT !.direct = ~control.direct] \in Controls
          /\ [control EXCEPT !.dual = ~control.dual] \in Controls
          /\ [control EXCEPT !.txB = ~control.txB] \in Controls
          /\ [control EXCEPT !.n2adr = ~control.n2adr] \in Controls
      OBVIOUS
    <2> HIDE DEF Controls
    <2>2. QED
      BY <2>1
  <1>6. replayed \subseteq Controls
    <2>1. ASSUME NEW v \in replays PROVE Replayed(v) \in Controls
      <3>1. /\ v[1] \in Bands /\ v[2] \in BOOLEAN /\ v[3] \in Loops!KeySets
            /\ v[4] \in Bands \cup {None}
        BY <1>2
      <3>2. QED
        BY <3>1
    <2> HIDE DEF Controls, Replayed, replays
    <2>2. QED
      BY <2>1
  <1>7. keyed \subseteq Controls /\ swung \subseteq Controls
    <2>1. \A k \in Loops!KeySets : [control EXCEPT !.keys = k] \in Controls
      OBVIOUS
    <2>2. \A f \in Bands \cup {None} : [control EXCEPT !.sweep = f] \in Controls
      OBVIOUS
    <2> HIDE DEF Controls
    <2>3. QED
      BY <1>2, <2>1, <2>2
  <1>8. QED
    <2> HIDE DEF Controls, dial, dialled, tuned, recorded, sampled, second, replayed, toggled,
                 keyed, swung
    <2> QED
      BY <1>1, <1>3, <1>4, <1>5, <1>6, <1>7

\* The command thread and the DSP threads; VFO B's writes its gate in both places.
LEMMA CaptureOthersInv ==
    ASSUME CaptureInv, Loops!Command \/ Loops!Stop \/ Loops!DspA \/ Loops!DspB
    PROVE  CaptureInv'
  <1> USE DEF CaptureInv
  <1>1. UNCHANGED <<hw, pc, captureSnap, last, source, swept, astray>>
    BY DEF Loops!Command, Loops!Stop, Loops!DspA, Loops!DspB
  <1>2. control' \in Controls
    <2>1. control \in Controls
      BY CaptureTypes
    <2>2. control' = control \/ control' \in Loops!Settings
            \/ \E g \in BOOLEAN : control' = [control EXCEPT !.gate = g]
      BY DEF Loops!Command, Loops!Stop, Loops!DspA, Loops!DspB
    <2>3. \A g \in BOOLEAN : [control EXCEPT !.gate = g] \in Controls
      BY <2>1 DEF Controls
    <2>4. QED
      BY <2>1, <2>2, <2>3, SettingsAreControls
  <1>3. /\ mirror' \in [tuned : Bands, gate : BOOLEAN] /\ gateB' \in BOOLEAN
        /\ mirror'.gate = gateB'
    <2>1. /\ mirror \in [tuned : Bands, gate : BOOLEAN] /\ gateB \in BOOLEAN
          /\ mirror.gate = gateB
      BY CaptureTypes DEF Loops!GateOfB
    <2>2. CASE UNCHANGED <<mirror, gateB>>
      BY <2>1, <2>2
    <2>3. CASE Loops!DspB
      <3>1. PICK g \in BOOLEAN :
               /\ gateB' = g
               /\ mirror' = IF g # gateB THEN [mirror EXCEPT !.gate = g] ELSE mirror
        BY <2>3 DEF Loops!DspB
      <3>2. QED
        BY <2>1, <3>1
    <2>4. QED
      BY <2>2, <2>3 DEF Loops!Command, Loops!Stop, Loops!DspA
  <1>4. captureQueue' \in [{"A", "B"} -> 0..QueueCap]
    <2>1. captureQueue \in [{"A", "B"} -> 0..QueueCap]
      BY CaptureTypes
    <2>2. \/ captureQueue' = captureQueue
          \/ \E v \in {"A", "B"} :
               captureQueue[v] > 0 /\ captureQueue' = [captureQueue EXCEPT ![v] = @ - 1]
      BY DEF Loops!Command, Loops!Stop, Loops!DspA, Loops!DspB
    <2>3. QED
      BY <2>1, <2>2, CaptureConstants
  <1>5. stop' \in BOOLEAN /\ asked' \in 0..MaxCommands
    <2>1. stop \in BOOLEAN /\ asked \in 0..MaxCommands
      BY CaptureTypes
    <2>2. stop' = stop \/ stop' = TRUE
      BY DEF Loops!Command, Loops!Stop, Loops!DspA, Loops!DspB
    <2>3. asked' = asked \/ (asked < MaxCommands /\ asked' = asked + 1)
      BY DEF Loops!Command, Loops!Stop, Loops!DspA, Loops!DspB
    <2>4. asked' \in 0..MaxCommands
      BY <2>1, <2>3, CaptureConstants
    <2>5. QED
      BY <2>1, <2>2, <2>4
  <1>6. Loops!TypeOK'
    BY <1>1, <1>2, <1>3, <1>4, <1>5, CaptureTypes, CaptureTypesNext
  <1>7. captureSnap' \in Controls /\ BeliefIsTrue' /\ TunedForSnapshot' /\ StillTuned'
        /\ SweptLast'
    BY <1>1 DEF BeliefIsTrue, TunedForSnapshot, StillTuned, SweptLast
  <1>8. QED
    BY <1>3, <1>6, <1>7 DEF Loops!GateOfB

\* The turn begins: a new snapshot, not yet tuned for.
LEMMA SnapshotInv == CaptureInv /\ Loops!Snapshot => CaptureInv'
  <1> SUFFICES ASSUME CaptureInv, Loops!Snapshot PROVE CaptureInv'
    OBVIOUS
  <1> USE DEF CaptureInv
  <1>1. /\ UNCHANGED <<hw, control, mirror, gateB, last, astray, captureQueue, stop, asked>>
        /\ pc' \in {"done", "configure"} /\ swept' = FALSE
        /\ captureSnap' \in {captureSnap, [control EXCEPT !.keys = {}, !.sweep = None,
                                                         !.rec = None, !.gateB = TRUE]}
        /\ source' \in {source, [source EXCEPT !.rec = FALSE]}
    BY DEF Loops!Snapshot
  <1>2. source' \in Sources /\ source'.filter = source.filter
    <2>1. source \in Sources
      BY CaptureTypes
    <2>2. QED
      BY <1>1, <2>1 DEF Sources
  <1>3. Loops!TypeOK' /\ captureSnap' \in Controls
    <2>1. captureSnap' \in Controls
      <3>1. control \in Controls
        BY CaptureTypes
      <3>2. {} \in Loops!KeySets
        BY DEF Loops!KeySets
      <3>3. [control EXCEPT !.keys = {}, !.sweep = None, !.rec = None, !.gateB = TRUE]
              \in Controls
        BY <3>1, <3>2 DEF Controls
      <3>4. QED
        BY <1>1, <3>3
    <2>2. QED
      BY <1>1, <1>2, <2>1, CaptureTypes, CaptureTypesNext DEF Steps
  <1>4. BeliefIsTrue' /\ TunedForSnapshot' /\ StillTuned' /\ SweptLast' /\ Loops!GateOfB'
    BY <1>1, <1>2 DEF BeliefIsTrue, TunedForSnapshot, StillTuned, SweptLast, Loops!GateOfB
  <1>5. QED
    BY <1>3, <1>4

\* The mirror of VFO A's state keeps VFO B's gate; the filter is not touched.
LEMMA ConfigureInv == CaptureInv /\ Loops!Configure => CaptureInv'
  <1> SUFFICES ASSUME CaptureInv, Loops!Configure PROVE CaptureInv'
    OBVIOUS
  <1> USE DEF CaptureInv
  <1> DEFINE range == IF captureSnap.direct THEN Direct ELSE Tuner
             center == Loops!Clamp(captureSnap.center, range)
             target == Loops!Clamp(captureSnap.target, range)
             turned == captureSnap.direct # last.direct
             aired == IF captureSnap.dual THEN [control EXCEPT !.gateB = mirror.gate]
                      ELSE control
  <1>1. /\ UNCHANGED <<hw, gateB, captureSnap, swept, astray, captureQueue, stop, asked>>
        /\ pc' = "tune" /\ pc = "configure"
        /\ mirror' = (IF captureSnap.dual THEN Loops!Mirrored ELSE mirror)
        /\ control' = (IF turned THEN [aired EXCEPT !.center = center, !.target = target]
                       ELSE aired)
        /\ source' = [source EXCEPT !.b = IF captureSnap.dual THEN captureSnap.b ELSE @,
                                    !.center = IF turned THEN center ELSE @,
                                    !.direct = captureSnap.direct]
        /\ last' = [last EXCEPT !.dual = captureSnap.dual,
                                !.b = IF captureSnap.dual THEN captureSnap.b
                                      ELSE IF last.dual THEN None ELSE @,
                                !.center = IF turned THEN center ELSE @,
                                !.direct = captureSnap.direct]
    BY DEF Loops!Configure
  <1>2. /\ control \in Controls /\ captureSnap \in Controls
        /\ mirror \in [tuned : Bands, gate : BOOLEAN] /\ last \in Believed
        /\ source \in Sources
    BY CaptureTypes
  <1>3. /\ captureSnap.b \in Bands /\ captureSnap.center \in Bands
        /\ captureSnap.target \in Bands
        /\ captureSnap.direct \in BOOLEAN /\ captureSnap.dual \in BOOLEAN
    BY <1>2 DEF Controls
  <1>4. range \subseteq Bands /\ range # {}
    BY CaptureConstants
  <1>5. center \in Bands /\ target \in Bands
    <2> HIDE DEF range
    <2> QED
      BY <1>3, <1>4, ClampIsBand
  <1> HIDE DEF range, center, target, turned
  <1>6. aired \in Controls
    BY <1>2 DEF Controls
  <1>7. control' \in Controls
    <2> HIDE DEF aired
    <2> QED
      BY <1>1, <1>5, <1>6 DEF Controls
  <1>8. mirror' \in [tuned : Bands, gate : BOOLEAN] /\ mirror'.gate = mirror.gate
    BY <1>1, <1>2, <1>3 DEF Loops!Mirrored
  <1>9. source' \in Sources /\ source'.filter = source.filter
    BY <1>1, <1>2, <1>3, <1>5 DEF Sources
  <1>10. last' \in Believed /\ last'.filter = last.filter
    BY <1>1, <1>2, <1>3, <1>5 DEF Believed
  <1>11. Loops!TypeOK' /\ captureSnap' \in Controls
    BY <1>1, <1>7, <1>8, <1>9, <1>10, CaptureTypes, CaptureTypesNext DEF Steps
  <1>12. BeliefIsTrue' /\ TunedForSnapshot' /\ StillTuned' /\ SweptLast' /\ Loops!GateOfB'
    BY <1>1, <1>8, <1>9, <1>10 DEF BeliefIsTrue, TunedForSnapshot, StillTuned, SweptLast, Loops!GateOfB
  <1>13. QED
    BY <1>11, <1>12

\* The filter is programmed when it is not known to be the one wanted.
LEMMA TuneInv == CaptureInv /\ Loops!Tune => CaptureInv'
  <1> SUFFICES ASSUME CaptureInv, Loops!Tune PROVE CaptureInv'
    OBVIOUS
  <1> USE DEF CaptureInv
  <1> DEFINE want == Loops!FilterForRx(captureSnap)
             program == captureSnap.n2adr /\ want # None /\ Loops!Reprograms
             off == ~captureSnap.n2adr /\ last.n2adr
  <1>1. /\ UNCHANGED <<hw, control, mirror, gateB, captureSnap, swept, captureQueue, stop, asked>>
        /\ pc' = "record" /\ pc = "tune" /\ astray' = (astray /\ ~program)
        /\ source' = [source EXCEPT !.center = captureSnap.center,
                                    !.filter = IF program THEN want ELSE @]
        /\ last' = [last EXCEPT !.center = captureSnap.center,
                                !.n2adr = captureSnap.n2adr,
                                !.filter = IF program THEN want ELSE IF off THEN None ELSE @]
    BY DEF Loops!Tune
  <1>2. captureSnap \in Controls /\ last \in Believed /\ source \in Sources
    BY CaptureTypes
  <1>3. want \in Loops!Filters \cup {None} /\ captureSnap.center \in Bands
        /\ captureSnap.n2adr \in BOOLEAN
    BY <1>2, FilterForRxFacts DEF Controls
  <1>4. ~program /\ captureSnap.n2adr /\ want # None => last.filter = want
    BY DEF Loops!Reprograms
  <1> HIDE DEF want, program
  <1>5. source' \in Sources /\ source'.filter = IF program THEN want ELSE source.filter
    BY <1>1, <1>2, <1>3 DEF Sources
  <1>6. /\ last' \in Believed
        /\ last'.filter = IF program THEN want ELSE IF off THEN None ELSE last.filter
    BY <1>1, <1>2, <1>3 DEF Believed
  <1>7. astray' \in BOOLEAN
    BY <1>1
  <1>8. Loops!TypeOK' /\ captureSnap' \in Controls
    BY <1>1, <1>5, <1>6, <1>7, CaptureTypes, CaptureTypesNext DEF Steps
  <1>9. BeliefIsTrue'
    <2>1. CASE program
      BY <1>5, <1>6, <2>1 DEF BeliefIsTrue
    <2>2. CASE ~program
      BY <1>1, <1>5, <1>6, <2>2 DEF BeliefIsTrue
    <2>3. QED
      BY <2>1, <2>2
  <1>10. TunedForSnapshot'
    <2>1. SUFFICES ASSUME captureSnap.n2adr, want # None
                   PROVE  last'.filter = want
      BY <1>1 DEF TunedForSnapshot, want
    <2>2. QED
      BY <1>4, <1>6, <2>1
  <1>11. Loops!GateOfB' /\ StillTuned' /\ SweptLast'
    BY <1>1 DEF Loops!GateOfB, StillTuned, SweptLast
  <1>12. QED
    BY <1>8, <1>9, <1>10, <1>11

\* The recording requests come first: the filter is as it was tuned.
LEMMA RecordInv == CaptureInv /\ Loops!Record => CaptureInv'
  <1> SUFFICES ASSUME CaptureInv, Loops!Record PROVE CaptureInv'
    OBVIOUS
  <1> USE DEF CaptureInv
  <1>1. /\ UNCHANGED <<hw, mirror, gateB, captureSnap, last, swept, astray, captureQueue, stop,
                      asked>>
        /\ pc = "record" /\ pc' = "spot" /\ control' = [control EXCEPT !.rec = None]
        /\ source' = [source EXCEPT
                        !.rec = IF control.rec = None THEN @ ELSE control.rec = "start"]
    BY DEF Loops!Record
  <1>2. control' \in Controls
    BY <1>1, CaptureTypes DEF Controls
  <1>3. source' \in Sources /\ source'.filter = source.filter
    BY <1>1, CaptureTypes DEF Sources
  <1>4. Loops!TypeOK' /\ captureSnap' \in Controls
    BY <1>1, <1>2, <1>3, CaptureTypes, CaptureTypesNext DEF Steps
  <1>5. StillTuned'
    BY <1>1, FilterForRxFacts DEF StillTuned, TunedForSnapshot
  <1>6. BeliefIsTrue' /\ TunedForSnapshot' /\ SweptLast' /\ Loops!GateOfB'
    BY <1>1, <1>3 DEF BeliefIsTrue, TunedForSnapshot, SweptLast, Loops!GateOfB
  <1>7. QED
    BY <1>4, <1>5, <1>6

\* The over puts the filter on the band it transmits on.  On the dial's own that is not the
\* one believed in dual watch or after a sweep of another band, and astray says so; across
\* bands nothing is believed.
LEMMA OverInv ==
    ASSUME CaptureInv, NEW kind \in {"spot", "mic"}, NEW then \in {"sweep", "read"},
           kind = "spot" => then = "sweep", kind = "mic" => then = "read",
           Loops!Over(kind, then)
    PROVE  CaptureInv'
  <1> USE DEF CaptureInv
  <1> DEFINE tx == IF captureSnap.txB THEN captureSnap.b ELSE captureSnap.target
             cross == captureSnap.target # tx
             moved == captureSnap.n2adr /\ tx # 0
  <1>1. /\ UNCHANGED <<hw, mirror, gateB, captureSnap, swept, captureQueue, stop, asked>>
        /\ pc = kind /\ pc' = then
        /\ \/ /\ source' = IF moved THEN [source EXCEPT !.filter = Loops!FilterOf(tx)]
                           ELSE source
              /\ last' = [last EXCEPT !.filter = Loops!Restored(cross)]
              /\ astray' = (astray \/ (moved /\ ~cross /\ (captureSnap.dual \/ swept)))
           \/ UNCHANGED <<source, last, astray>>
    BY DEF Loops!Over
  <1>2. /\ captureSnap \in Controls /\ control \in Controls /\ last \in Believed
        /\ source \in Sources
    BY CaptureTypes
  <1>3. control' \in Controls
    <2>1. control.keys \in Loops!KeySets /\ {kind} \cap {"mic"} \subseteq {"spot", "mic"}
      BY <1>2 DEF Controls
    <2>2. control' = control \/ control' = [control EXCEPT !.keys = @ \ {kind}]
            \/ \E again \in SUBSET ({kind} \cap {"mic"}) :
                 control' = [control EXCEPT !.keys = (@ \ {kind}) \cup again]
      BY DEF Loops!Over
    <2>3. \A k \in Loops!KeySets : [control EXCEPT !.keys = k] \in Controls
      BY <1>2 DEF Controls
    <2>4. /\ control.keys \ {kind} \in Loops!KeySets
          /\ \A again \in SUBSET ({kind} \cap {"mic"}) :
                (control.keys \ {kind}) \cup again \in Loops!KeySets
      BY <2>1 DEF Loops!KeySets
    <2>5. QED
      BY <1>2, <2>2, <2>3, <2>4
  <1>4. then \in Steps /\ then # "record" /\ then # "spot" /\ then # "mic"
    BY DEF Steps
  <1>5. CASE UNCHANGED <<source, last, astray>>
    <2>1. Loops!TypeOK' /\ captureSnap' \in Controls
      BY <1>1, <1>3, <1>4, <1>5, CaptureTypes, CaptureTypesNext
    <2>2. BeliefIsTrue' /\ TunedForSnapshot' /\ StillTuned' /\ SweptLast' /\ Loops!GateOfB'
      BY <1>1, <1>4, <1>5
      DEF BeliefIsTrue, TunedForSnapshot, StillTuned, SweptLast, Loops!GateOfB
    <2>3. QED
      BY <2>1, <2>2
  <1>6. CASE ~UNCHANGED <<source, last, astray>>
    <2>1. tx \in Bands
      BY <1>2 DEF Controls
    <2>2. Loops!FilterOf(tx) \in Loops!Filters
      <3>1. (tx # 1) \in BOOLEAN
        OBVIOUS
      <3> HIDE DEF tx
      <3>2. QED
        BY <2>1, <3>1 DEF Loops!FilterOf, Loops!Filters
    <2>3. Loops!Restored(cross) = IF cross THEN None ELSE last.filter
      BY DEF Loops!Restored
    <2>4. ASSUME ~cross, ~captureSnap.dual, ~swept, moved, last.filter # None
          PROVE  Loops!FilterOf(tx) = last.filter
      <3>1. tx = captureSnap.target /\ captureSnap.target # 0 /\ captureSnap.n2adr
        BY <2>4
      <3>2. QED
        BY <1>1, <2>4, <3>1 DEF StillTuned
    <2> HIDE DEF tx, cross, moved
    <2>5. source' \in Sources
          /\ source'.filter = IF moved THEN Loops!FilterOf(tx) ELSE source.filter
      BY <1>1, <1>2, <1>6, <2>2 DEF Sources
    <2>6. last' \in Believed /\ last'.filter = IF cross THEN None ELSE last.filter
      BY <1>1, <1>2, <1>6, <2>3 DEF Believed
    <2>7. astray' = (astray \/ (moved /\ ~cross /\ (captureSnap.dual \/ swept)))
          /\ astray' \in BOOLEAN
      BY <1>1, <1>6, CaptureTypes DEF moved, cross, Controls
    <2>8. Loops!TypeOK' /\ captureSnap' \in Controls
      BY <1>1, <1>3, <1>4, <2>5, <2>6, <2>7, CaptureTypes, CaptureTypesNext
    <2>9. BeliefIsTrue'
      <3>1. SUFFICES ASSUME last'.filter # None, ~astray'
                     PROVE  source'.filter = last'.filter
        BY DEF BeliefIsTrue
      <3>2. ~cross /\ last'.filter = last.filter
        BY <2>6, <3>1
      <3>3. ~astray /\ (moved => ~captureSnap.dual /\ ~swept)
        BY <2>7, <3>1, <3>2
      <3>4. source.filter = last.filter
        BY <3>1, <3>2, <3>3 DEF BeliefIsTrue
      <3>5. QED
        BY <2>4, <2>5, <3>1, <3>2, <3>3, <3>4
    <2>10. StillTuned'
      BY <1>1, <2>6 DEF StillTuned
    <2>11. TunedForSnapshot' /\ SweptLast' /\ Loops!GateOfB'
      BY <1>1, <1>4 DEF TunedForSnapshot, SweptLast, Loops!GateOfB
    <2>12. QED
      BY <2>8, <2>9, <2>10, <2>11
  <1>7. QED
    BY <1>5, <1>6

\* The sweep puts the filter on its band, and the thread believes it there.
LEMMA SweepInv == CaptureInv /\ Loops!Sweep => CaptureInv'
  <1> SUFFICES ASSUME CaptureInv, Loops!Sweep PROVE CaptureInv'
    OBVIOUS
  <1> USE DEF CaptureInv
  <1> DEFINE band == control.sweep
             moved == captureSnap.n2adr /\ band # None
  <1>1. /\ UNCHANGED <<hw, mirror, gateB, captureSnap, captureQueue, stop, asked>>
        /\ pc = "sweep" /\ pc' = "mic" /\ control' = [control EXCEPT !.sweep = None]
        /\ source' = IF moved THEN [source EXCEPT !.filter = Loops!FilterOf(band)] ELSE source
        /\ last' = IF moved THEN [last EXCEPT !.filter = Loops!FilterOf(band)] ELSE last
        /\ astray' = (astray /\ ~moved) /\ swept' = (moved /\ band # captureSnap.target)
    BY DEF Loops!Sweep
  <1>2. /\ captureSnap \in Controls /\ control \in Controls /\ last \in Believed
        /\ source \in Sources
    BY CaptureTypes
  <1>3. moved => Loops!FilterOf(band) \in Loops!Filters
    <2>1. moved => band \in Bands /\ (band # 1) \in BOOLEAN
      BY <1>2 DEF Controls
    <2> HIDE DEF band, moved
    <2>2. QED
      BY <2>1 DEF Loops!FilterOf, Loops!Filters
  <1>4. captureSnap.n2adr \in BOOLEAN
    BY <1>2 DEF Controls
  <1>5. moved \in BOOLEAN /\ swept' \in BOOLEAN /\ astray' \in BOOLEAN
    BY <1>1, <1>4
  <1>6. control' \in Controls
    BY <1>1, <1>2 DEF Controls
  <1>7. swept = FALSE
    BY <1>1, CaptureTypes DEF SweptLast
  <1> HIDE DEF band, moved
  <1>8. source' \in Sources
        /\ source'.filter = IF moved THEN Loops!FilterOf(band) ELSE source.filter
    BY <1>1, <1>2, <1>3 DEF Sources
  <1>9. last' \in Believed
        /\ last'.filter = IF moved THEN Loops!FilterOf(band) ELSE last.filter
    BY <1>1, <1>2, <1>3 DEF Believed
  <1>10. Loops!TypeOK' /\ captureSnap' \in Controls
    BY <1>1, <1>5, <1>6, <1>8, <1>9, CaptureTypes, CaptureTypesNext DEF Steps
  <1>11. BeliefIsTrue'
    <2>1. CASE moved
      BY <1>8, <1>9, <2>1 DEF BeliefIsTrue
    <2>2. CASE ~moved
      BY <1>1, <1>8, <1>9, <2>2 DEF BeliefIsTrue
    <2>3. QED
      BY <2>1, <2>2
  <1>12. StillTuned'
    <2>1. CASE moved
      BY <1>1, <1>9, <2>1 DEF StillTuned
    <2>2. CASE ~moved
      BY <1>1, <1>7, <1>9, <2>2 DEF StillTuned
    <2>3. QED
      BY <2>1, <2>2
  <1>13. TunedForSnapshot' /\ SweptLast' /\ Loops!GateOfB'
    BY <1>1 DEF TunedForSnapshot, SweptLast, Loops!GateOfB
  <1>14. QED
    BY <1>10, <1>11, <1>12, <1>13

\* The end of a turn, or of the thread.
LEMMA CaptureRestInv ==
    ASSUME CaptureInv, Loops!Read \/ Loops!SendBlock \/ Loops!TuneFails
    PROVE  CaptureInv'
  <1> USE DEF CaptureInv
  <1>1. /\ UNCHANGED <<hw, control, mirror, gateB, captureSnap, last, swept, astray, asked>>
        /\ pc' \in {"sendA", "snapshot", "done"} /\ pc \in {"read", "sendA", "tune"}
        /\ pc = "tune" \/ pc' # "done"
        /\ source' \in {source, [source EXCEPT !.rec = FALSE]}
        /\ stop' \in {stop, TRUE}
    BY DEF Loops!Read, Loops!SendBlock, Loops!TuneFails
  <1>2. source' \in Sources /\ source'.filter = source.filter
    <2>1. source \in Sources
      BY CaptureTypes
    <2>2. QED
      BY <1>1, <2>1 DEF Sources
  <1>3. captureQueue' \in [{"A", "B"} -> 0..QueueCap]
    <2>1. captureQueue \in [{"A", "B"} -> 0..QueueCap]
      BY CaptureTypes
    <2>2. CASE Loops!SendBlock
      BY <2>1, <2>2, CaptureConstants DEF Loops!SendBlock, Loops!HasRoom
    <2>3. CASE ~Loops!SendBlock
      BY <2>1, <2>3 DEF Loops!Read, Loops!TuneFails
    <2>4. QED
      BY <2>2, <2>3
  <1>4. Loops!TypeOK' /\ captureSnap' \in Controls
    BY <1>1, <1>2, <1>3, CaptureTypes, CaptureTypesNext DEF Steps
  <1>5. BeliefIsTrue' /\ TunedForSnapshot' /\ StillTuned' /\ SweptLast' /\ Loops!GateOfB'
    BY <1>1, <1>2 DEF BeliefIsTrue, TunedForSnapshot, StillTuned, SweptLast, Loops!GateOfB
  <1>6. QED
    BY <1>4, <1>5

\* Every step of the capture loop keeps its invariant.
LEMMA CaptureNextInv == CaptureInv /\ Loops!Next => CaptureInv'
  <1> SUFFICES ASSUME CaptureInv, Loops!Next PROVE CaptureInv'
    OBVIOUS
  <1>1. CASE Loops!Spot \/ Loops!Mic
    BY <1>1, OverInv DEF Loops!Spot, Loops!Mic
  <1>2. QED
    BY <1>1, CaptureOthersInv, SnapshotInv, ConfigureInv, TuneInv, RecordInv, SweepInv,
       CaptureRestInv DEF Loops!Next, Loops!Capture

\* Which says what CaptureFollows does.
LEMMA CaptureInvFollows == CaptureInv => Loops!GateOfB /\ Loops!FilterFollowsDial
  <1> SUFFICES ASSUME CaptureInv PROVE Loops!GateOfB /\ Loops!FilterFollowsDial
    OBVIOUS
  <1> USE DEF CaptureInv
  <1>1. ASSUME pc = "record", captureSnap.n2adr, ~captureSnap.dual,
               captureSnap.target # 0, ~astray
        PROVE  source.filter = Loops!FilterOf(captureSnap.target)
    <2>1. /\ Loops!FilterForRx(captureSnap) = Loops!FilterOf(captureSnap.target)
          /\ Loops!FilterForRx(captureSnap) # None
      BY <1>1, FilterForRxFacts
    <2>2. QED
      BY <1>1, <2>1 DEF BeliefIsTrue, TunedForSnapshot
  <1>2. QED
    BY <1>1 DEF Loops!FilterFollowsDial

-----------------------------------------------------------------------------
(* The change of sample rate: RateSwitch.                                   *)

\* While nothing is in doubt: the DSP thread's pipeline is for the rate confirmed, and
\* so is every block queued for it, but for one change it has not seen; during which it
\* may still have a block to take for the pipeline it has.
Seen ==
    switched.unseen = 0 =>
      /\ pipeline = rateConfirmed
      /\ \A i \in 1..Len(rateQueue) : rateQueue[i] = pipeline
Unseen ==
    switched.unseen # 0 => /\ switched.unseen = 1 /\ pipeline # rateConfirmed
                           /\ taking => strays < switched.all

RateInv ==
    /\ Rate!TypeOK /\ Rate!OneStrayBlock
    /\ rateQueue \in Seq(Rates) /\ switched \in [all : Nat, unseen : Nat] /\ strays \in Nat
    /\ applied = rateConfirmed
    /\ ~doubtful => rateSource = rateConfirmed /\ Seen /\ Unseen

\* What is assumed of the constants.
LEMMA RateConstants == Depth \in Nat
  BY PartsAssumption DEF PartsAssumption

\* What TypeOK asks for.
LEMMA RateTypesNext ==
    ASSUME rateAsked' \in Rates, applied' \in Rates, rateSource' \in Rates,
           rateConfirmed' \in Rates, pipeline' \in Rates,
           rateQueue' \in Seq(Rates), Len(rateQueue') <= Depth,
           reading' \in BOOLEAN, taking' \in BOOLEAN, doubtful' \in BOOLEAN
    PROVE  Rate!TypeOK'
  <1>1. \A i \in DOMAIN rateQueue' : rateQueue'[i] \in Rates
    BY LenProperties
  <1>2. QED
    BY <1>1 DEF Rate!TypeOK

\* What TypeOK says of each variable.
LEMMA RateTypes ==
    ASSUME Rate!TypeOK
    PROVE  /\ rateAsked \in Rates /\ applied \in Rates /\ rateSource \in Rates
           /\ rateConfirmed \in Rates /\ pipeline \in Rates /\ Len(rateQueue) <= Depth
           /\ reading \in BOOLEAN /\ taking \in BOOLEAN /\ doubtful \in BOOLEAN
  BY DEF Rate!TypeOK

\* Everything starts at one rate.
LEMMA RateInitInv == Rate!Init => RateInv
  <1> SUFFICES ASSUME Rate!Init PROVE RateInv
    OBVIOUS
  <1>1. /\ rateQueue = <<>> /\ rateQueue \in Seq(Rates) /\ Len(rateQueue) = 0
        /\ DOMAIN rateQueue = {}
    BY DEF Rate!Init
  <1>2. /\ switched = [all |-> 0, unseen |-> 0] /\ strays = 0
        /\ applied = rateConfirmed /\ rateSource = rateConfirmed
        /\ pipeline = rateConfirmed
    BY DEF Rate!Init
  <1>3. Rate!TypeOK
    <2>1. {rateAsked, applied, rateSource, rateConfirmed, pipeline} \subseteq Rates
      BY DEF Rate!Init
    <2>2. {reading, taking, doubtful} \subseteq BOOLEAN
      BY DEF Rate!Init
    <2>3. QED
      BY <1>1, <2>1, <2>2, RateConstants DEF Rate!TypeOK
  <1>4. Seen /\ Unseen
    BY <1>1, <1>2 DEF Seen, Unseen
  <1>5. QED
    BY <1>1, <1>2, <1>3, <1>4 DEF RateInv, Rate!OneStrayBlock

\* Asking leaves the rest as it is.
LEMMA RateAskInv == RateInv /\ Rate!Ask => RateInv'
  <1> SUFFICES ASSUME RateInv, Rate!Ask PROVE RateInv'
    OBVIOUS
  <1> USE DEF RateInv
  <1>1. /\ UNCHANGED <<applied, rateSource, rateConfirmed, reading, rateQueue, pipeline,
                       taking, switched, strays, doubtful>>
        /\ rateAsked' \in Rates
    BY DEF Rate!Ask, Rate!history
  <1>2. Rate!TypeOK'
    BY <1>1, RateTypes, RateTypesNext
  <1>3. QED
    BY <1>1, <1>2 DEF Rate!OneStrayBlock, Seen, Unseen

\* A turn of the capture thread: a change confirmed is one the DSP thread has yet to see,
\* a second such change or a source half set is doubt.
LEMMA RateTurnInv == RateInv /\ Rate!Turn => RateInv'
  <1> SUFFICES ASSUME RateInv, Rate!Turn PROVE RateInv'
    OBVIOUS
  <1> USE DEF RateInv
  <1>1. /\ UNCHANGED <<rateAsked, rateQueue, pipeline, taking, strays>>
        /\ reading' = TRUE
        /\ \/ UNCHANGED <<rateSource, applied, rateConfirmed, switched, doubtful>>
           \/ rateAsked # applied /\ Rate!Confirm
           \/ Rate!Fail
    BY DEF Rate!Turn
  <1>2. CASE UNCHANGED <<rateSource, applied, rateConfirmed, switched, doubtful>>
    <2>1. Rate!TypeOK'
      BY <1>1, <1>2, RateTypes, RateTypesNext
    <2>2. QED
      BY <1>1, <1>2, <2>1 DEF Rate!OneStrayBlock, Seen, Unseen
  <1>3. CASE rateAsked # applied /\ Rate!Confirm
    <2>1. /\ rateSource' = rateAsked /\ applied' = rateAsked /\ rateConfirmed' = rateAsked
          /\ switched' = [all |-> switched.all + 1, unseen |-> switched.unseen + 1]
          /\ doubtful' = (doubtful \/ switched.unseen > 0)
      BY <1>3 DEF Rate!Confirm
    <2>2. doubtful' \in BOOLEAN
      BY <2>1
    <2>3. Rate!TypeOK'
      BY <1>1, <2>1, <2>2, RateTypes, RateTypesNext
    <2>4. /\ switched' \in [all : Nat, unseen : Nat]
          /\ switched'.all = switched.all + 1 /\ switched'.unseen = switched.unseen + 1
          /\ strays' = strays /\ strays <= switched.all
          /\ switched.all \in Nat /\ switched.unseen \in Nat
      BY <1>1, <2>1 DEF Rate!OneStrayBlock
    <2>5. Rate!OneStrayBlock'
      BY <2>4 DEF Rate!OneStrayBlock
    <2>6. ~doubtful' => ~doubtful /\ switched.unseen = 0
      <3>1. ~doubtful' => ~doubtful /\ ~(switched.unseen > 0)
        BY <2>1, Zenon
      <3>2. QED
        BY <2>4, <3>1
    <2>7. ~doubtful' => pipeline' # rateConfirmed'
      BY <1>1, <1>3, <2>1, <2>6 DEF Seen
    <2>8. ~doubtful' => Seen' /\ Unseen'
      BY <2>4, <2>6, <2>7 DEF Seen, Unseen
    <2>9. QED
      BY <1>1, <2>1, <2>3, <2>4, <2>5, <2>8
  <1>4. CASE Rate!Fail
    <2>1. /\ rateSource' \in {rateSource, rateAsked}
          /\ doubtful' = (doubtful \/ rateSource' # rateConfirmed)
          /\ UNCHANGED <<applied, rateConfirmed, switched>>
      BY <1>4 DEF Rate!Fail
    <2>2. doubtful' \in BOOLEAN
      BY <2>1
    <2>3. rateSource' \in Rates
      BY <2>1, RateTypes
    <2>4. Rate!TypeOK'
      BY <1>1, <2>1, <2>2, <2>3, RateTypes, RateTypesNext
    <2>5. ~doubtful' => ~doubtful /\ rateSource' = rateConfirmed
      BY <2>1
    <2>6. QED
      BY <1>1, <2>1, <2>4, <2>5 DEF Rate!OneStrayBlock, Seen, Unseen
  <1>5. QED
    BY <1>1, <1>2, <1>3, <1>4

\* A block delivered is of the rate confirmed.
LEMMA RateDeliverInv == RateInv /\ Rate!Deliver => RateInv'
  <1> SUFFICES ASSUME RateInv, Rate!Deliver PROVE RateInv'
    OBVIOUS
  <1> USE DEF RateInv
  <1>1. /\ UNCHANGED <<rateAsked, applied, rateSource, rateConfirmed, pipeline, taking,
                       switched, strays, doubtful>>
        /\ reading' = FALSE
        /\ rateQueue' \in {rateQueue, Append(rateQueue, rateSource)}
        /\ Len(rateQueue) < Depth
    BY DEF Rate!Deliver, Rate!rate, Rate!history
  <1>2. /\ rateQueue' \in Seq(Rates) /\ Len(rateQueue') <= Depth
        /\ \A i \in 1..Len(rateQueue') :
              rateQueue'[i] = rateSource \/ \E j \in 1..Len(rateQueue) :
                                               rateQueue'[i] = rateQueue[j]
    <2>1. rateQueue \in Seq(Rates) /\ Len(rateQueue) \in Nat /\ rateSource \in Rates
      BY RateTypes, LenProperties
    <2>2. CASE rateQueue' = rateQueue
      BY <1>1, <2>1, <2>2, RateConstants
    <2>3. CASE rateQueue' = Append(rateQueue, rateSource)
      <3>1. /\ rateQueue' \in Seq(Rates) /\ Len(rateQueue') = Len(rateQueue) + 1
            /\ \A i \in 1..Len(rateQueue) : rateQueue'[i] = rateQueue[i]
            /\ rateQueue'[Len(rateQueue) + 1] = rateSource
        BY <2>1, <2>3, AppendProperties
      <3>2. \A i \in 1..(Len(rateQueue) + 1) :
              i = Len(rateQueue) + 1 \/ i \in 1..Len(rateQueue)
        BY <2>1
      <3>3. QED
        BY <1>1, <2>1, <3>1, <3>2, RateConstants
    <2>4. QED
      BY <1>1, <2>2, <2>3
  <1>3. Rate!TypeOK'
    BY <1>1, <1>2, RateTypes, RateTypesNext
  <1>4. ~doubtful => Seen' /\ Unseen'
    BY <1>1, <1>2 DEF Seen, Unseen
  <1>5. QED
    BY <1>1, <1>2, <1>3, <1>4 DEF Rate!OneStrayBlock

\* The DSP thread looks: a new rate drops what was queued at the old one.
LEMMA RateLookInv == RateInv /\ Rate!Look => RateInv'
  <1> SUFFICES ASSUME RateInv, Rate!Look PROVE RateInv'
    OBVIOUS
  <1> USE DEF RateInv
  <1>1. /\ UNCHANGED <<rateAsked, applied, rateSource, rateConfirmed, reading, strays, doubtful>>
        /\ taking' = TRUE /\ switched' = [switched EXCEPT !.unseen = 0]
        /\ IF rateConfirmed = pipeline THEN UNCHANGED <<pipeline, rateQueue>>
           ELSE pipeline' = rateConfirmed /\ rateQueue' = <<>>
    BY DEF Rate!Look, Rate!Rebuild, Rate!rate
  <1>2. /\ switched' \in [all : Nat, unseen : Nat] /\ switched'.unseen = 0
        /\ switched'.all = switched.all
    BY <1>1
  <1>3. /\ rateQueue' \in Seq(Rates) /\ Len(rateQueue') <= Depth
        /\ pipeline' = rateConfirmed
        /\ (rateConfirmed # pipeline => Len(rateQueue') = 0)
    <2>1. CASE rateConfirmed = pipeline
      BY <1>1, <2>1, RateTypes
    <2>2. CASE rateConfirmed # pipeline
      <3>1. pipeline' = rateConfirmed /\ rateQueue' = <<>>
        BY <1>1, <2>2
      <3>2. QED
        BY <3>1, RateConstants
    <2>3. QED
      BY <2>1, <2>2
  <1>4. Rate!TypeOK'
    BY <1>1, <1>3, RateTypes, RateTypesNext
  <1>5. ~doubtful => Seen' /\ Unseen'
    <2>1. SUFFICES ASSUME ~doubtful PROVE Seen'
      BY <1>2 DEF Unseen
    <2>2. CASE rateConfirmed = pipeline
      <3>1. switched.unseen = 0
        BY <2>1, <2>2 DEF Unseen
      <3>2. QED
        BY <1>1, <2>1, <2>2, <3>1 DEF Seen
    <2>3. CASE rateConfirmed # pipeline
      BY <1>1, <1>3, <2>3 DEF Seen
    <2>4. QED
      BY <2>2, <2>3
  <1>6. QED
    BY <1>1, <1>2, <1>3, <1>4, <1>5 DEF Rate!OneStrayBlock

\* The block taken strays only if there is a change not seen, and then the DSP thread
\* looks before it takes another.
LEMMA RateTakeInv == RateInv /\ Rate!Take => RateInv'
  <1> SUFFICES ASSUME RateInv, Rate!Take PROVE RateInv'
    OBVIOUS
  <1> USE DEF RateInv
  <1>1. /\ UNCHANGED <<rateAsked, applied, rateSource, rateConfirmed, reading, pipeline,
                       switched, doubtful>>
        /\ taking = TRUE /\ taking' = FALSE
    BY RateTypes DEF Rate!Take, Rate!rate
  <1>2. CASE rateQueue = <<>> /\ UNCHANGED <<rateQueue, strays>>
    <2>1. Rate!TypeOK'
      BY <1>1, <1>2, RateTypes, RateTypesNext
    <2>2. QED
      BY <1>1, <1>2, <2>1 DEF Rate!OneStrayBlock, Seen, Unseen
  <1>3. CASE /\ rateQueue # <<>> /\ rateQueue' = Tail(rateQueue)
             /\ strays' = strays + (IF Head(rateQueue) = pipeline \/ doubtful THEN 0 ELSE 1)
    <2>1. /\ rateQueue \in Seq(Rates) /\ Len(rateQueue) \in Nat /\ Len(rateQueue) # 0
          /\ Len(rateQueue) <= Depth
      BY <1>3, RateTypes, LenProperties, EmptySeq
    <2>2. /\ rateQueue' \in Seq(Rates) /\ Len(rateQueue') = Len(rateQueue) - 1
          /\ \A i \in 1..Len(rateQueue') : rateQueue'[i] = rateQueue[i + 1]
          /\ Head(rateQueue) = rateQueue[1]
      BY <1>3, <2>1, HeadTailProperties
    <2>3. Rate!TypeOK'
      <3>1. Len(rateQueue') <= Depth
        BY <2>1, <2>2, RateConstants
      <3>2. QED
        BY <1>1, <2>2, <3>1, RateTypes, RateTypesNext
    <2>4. \A i \in 1..Len(rateQueue') : i + 1 \in 1..Len(rateQueue)
      BY <2>1, <2>2
    <2>5. ~doubtful => Seen' /\ Unseen'
      BY <1>1, <2>2, <2>4 DEF Seen, Unseen
    <2>6. strays' \in Nat /\ strays' \in {strays, strays + 1}
      BY <1>3
    <2>7. strays' <= switched.all
      <3>1. strays <= switched.all /\ switched.all \in Nat /\ switched.unseen \in Nat
        BY DEF Rate!OneStrayBlock
      <3>2. CASE doubtful
        BY <1>3, <3>1, <3>2
      <3>3. CASE ~doubtful /\ switched.unseen = 0
        <4>1. rateQueue[1] = pipeline
          BY <2>1, <3>3 DEF Seen
        <4>2. QED
          BY <1>3, <2>2, <3>1, <4>1
      <3>4. CASE ~doubtful /\ switched.unseen # 0
        BY <1>1, <2>6, <3>1, <3>4 DEF Unseen
      <3>5. QED
        BY <3>2, <3>3, <3>4
    <2>8. QED
      BY <1>1, <2>2, <2>3, <2>5, <2>6, <2>7 DEF Rate!OneStrayBlock
  <1>4. QED
    BY <1>2, <1>3 DEF Rate!Take

\* Every step keeps the invariant of the rates.
LEMMA RateNextInv == RateInv /\ Rate!Next => RateInv'
  BY RateAskInv, RateTurnInv, RateDeliverInv, RateLookInv, RateTakeInv DEF Rate!Next

-----------------------------------------------------------------------------
(* The recording: IqRecording.                                              *)

IqBlocks == [number : Nat, rate : IqRates]
Recorders == [rate : IqRates, first : Nat, dropped : Nat]

Ascending(s) == \A i, j \in 1..Len(s) : i < j => s[i].number < s[j].number

\* The blocks captured since the recording began are written, queued or counted as
\* dropped, in their order.
NothingLost ==
    /\ rec.first <= next
    /\ Ascending(file) /\ Ascending(chan)
    /\ \A i \in 1..Len(chan) : chan[i].number < next
    /\ \A i \in 1..Len(file) : file[i].number < next
    /\ \A i \in 1..Len(file), j \in 1..Len(chan) : file[i].number < chan[j].number
    /\ Len(file) + Len(chan) + rec.dropped = next - rec.first

IqInv ==
    /\ Iq!TypeOK /\ Iq!FileWhole
    /\ next \in Nat /\ chan \in Seq(IqBlocks) /\ file \in Seq(IqBlocks)
    /\ rec \in Recorders \cup {None}
    /\ at \in {"joining", "ending"} => rec # None
    /\ rec # None /\ ~broken => NothingLost

\* What is assumed of the constants.
LEMMA IqConstants == Capacity \in Nat
  BY PartsAssumption DEF PartsAssumption

\* What TypeOK says of each variable.
LEMMA IqTypes ==
    ASSUME Iq!TypeOK
    PROVE  /\ iqAsked \in IqRates /\ iqSource \in IqRates
           /\ start \in BOOLEAN /\ iqStop \in BOOLEAN /\ iqShown \in BOOLEAN
           /\ broken \in BOOLEAN /\ Len(chan) <= Capacity
           /\ at \in {"top", "reading", "joining", "ending", "over"}
  BY DEF Iq!TypeOK

\* TypeOK of the next state, from the types of its variables.
LEMMA IqTypesNext ==
    ASSUME iqAsked' \in IqRates, iqSource' \in IqRates,
           start' \in BOOLEAN, iqStop' \in BOOLEAN, iqShown' \in BOOLEAN,
           broken' \in BOOLEAN, Len(chan') <= Capacity,
           at' \in {"top", "reading", "joining", "ending", "over"}
    PROVE  Iq!TypeOK'
  BY DEF Iq!TypeOK

\* The blocks of a file or a queue have numbers.
LEMMA BlockNumbers ==
    ASSUME NEW s \in Seq(IqBlocks), NEW i \in 1..Len(s)
    PROVE  s[i] \in IqBlocks /\ s[i].number \in Nat
  <1>1. s[i] \in IqBlocks
    OBVIOUS
  <1>2. QED
    BY <1>1 DEF IqBlocks

\* Ascending is what InOrder says of neighbours.
LEMMA AscendingInOrder ==
    ASSUME NEW s \in Seq(IqBlocks), Ascending(s)
    PROVE  Iq!InOrder(s)
  <1>1. Len(s) \in Nat
    BY LenProperties
  <1>2. \A i \in 2..Len(s) : i - 1 \in 1..Len(s) /\ i \in 1..Len(s) /\ i - 1 < i
    BY <1>1
  <1>3. QED
    BY <1>2 DEF Ascending, Iq!InOrder

\* A block of a higher number is added at the end.
LEMMA AscendingAppend ==
    ASSUME NEW s \in Seq(IqBlocks), NEW b \in IqBlocks, Ascending(s),
           \A i \in 1..Len(s) : s[i].number < b.number
    PROVE  /\ Append(s, b) \in Seq(IqBlocks) /\ Len(Append(s, b)) = Len(s) + 1
           /\ Ascending(Append(s, b))
           /\ \A i \in 1..Len(Append(s, b)) :
                Append(s, b)[i] = b \/ \E j \in 1..Len(s) : Append(s, b)[i] = s[j]
  <1>1. /\ Append(s, b) \in Seq(IqBlocks) /\ Len(Append(s, b)) = Len(s) + 1
        /\ \A j \in 1..Len(s) : Append(s, b)[j] = s[j]
        /\ Append(s, b)[Len(s) + 1] = b
    BY AppendProperties
  <1>2. Len(s) \in Nat
    BY LenProperties
  <1>3. ASSUME NEW i \in 1..(Len(s) + 1), NEW j \in 1..(Len(s) + 1), i < j
        PROVE  Append(s, b)[i].number < Append(s, b)[j].number
    <2>1. i \in 1..Len(s)
      BY <1>2, <1>3
    <2>2. CASE j = Len(s) + 1
      BY <1>1, <2>1, <2>2
    <2>3. CASE j # Len(s) + 1
      <3>1. j \in 1..Len(s)
        BY <1>2, <2>3
      <3>2. QED
        BY <1>1, <1>3, <2>1, <3>1 DEF Ascending
    <2>4. QED
      BY <2>2, <2>3
  <1>4. \A i \in 1..(Len(s) + 1) : i = Len(s) + 1 \/ i \in 1..Len(s)
    BY <1>2
  <1>5. QED
    BY <1>1, <1>3, <1>4 DEF Ascending

\* The first block is taken away.
LEMMA AscendingTail ==
    ASSUME NEW s \in Seq(IqBlocks), Ascending(s), s # <<>>
    PROVE  /\ Tail(s) \in Seq(IqBlocks) /\ Len(Tail(s)) = Len(s) - 1 /\ Len(s) \in Nat \ {0}
           /\ Ascending(Tail(s)) /\ Head(s) \in IqBlocks /\ Head(s) = s[1]
           /\ \A i \in 1..Len(Tail(s)) : /\ Head(s).number < Tail(s)[i].number
                                         /\ \E j \in 1..Len(s) : Tail(s)[i] = s[j]
  <1>1. /\ Tail(s) \in Seq(IqBlocks) /\ Len(Tail(s)) = Len(s) - 1
        /\ \A i \in 1..Len(Tail(s)) : Tail(s)[i] = s[i + 1]
        /\ Head(s) \in IqBlocks /\ Head(s) = s[1] /\ Len(s) \in Nat \ {0}
    BY HeadTailProperties, EmptySeq
  <1>2. \A i \in 1..(Len(s) - 1) : i + 1 \in 1..Len(s) /\ 1 < i + 1 /\ 1 \in 1..Len(s)
    BY <1>1
  <1>3. \A i, j \in 1..(Len(s) - 1) : i < j => i + 1 < j + 1
    BY <1>1
  <1>4. Ascending(Tail(s))
    BY <1>1, <1>2, <1>3 DEF Ascending
  <1>5. QED
    BY <1>1, <1>2, <1>4 DEF Ascending

\* Nothing is recorded at first.
LEMMA IqInitInv == Iq!Init => IqInv
  <1> SUFFICES ASSUME Iq!Init PROVE IqInv
    OBVIOUS
  <1>1. /\ next = 0 /\ rec = None /\ at = "top" /\ wavs = {}
        /\ start = FALSE /\ iqStop = FALSE /\ iqShown = FALSE /\ broken = FALSE
        /\ iqAsked \in IqRates /\ iqSource = iqAsked /\ chan = <<>> /\ file = <<>>
    BY DEF Iq!Init
  <1>2. chan \in Seq(IqBlocks) /\ file \in Seq(IqBlocks) /\ Len(chan) = 0
    BY <1>1
  <1>3. Len(chan) <= Capacity
    BY <1>2, IqConstants
  <1>4. Iq!TypeOK
    BY <1>1, <1>3 DEF Iq!TypeOK
  <1>5. Iq!FileWhole
    BY <1>1 DEF Iq!FileWhole
  <1>6. QED
    BY <1>1, <1>2, <1>4, <1>5 DEF IqInv

\* The commands, and the end of the thread.
LEMMA IqCommandInv ==
    ASSUME IqInv, Iq!StartRecording \/ Iq!StopRecording \/ Iq!SetRate \/ Iq!End
    PROVE  IqInv'
  <1> USE DEF IqInv
  <1>1. UNCHANGED <<iqSource, next, iqShown, rec, chan, file, broken, wavs>>
    BY DEF Iq!StartRecording, Iq!StopRecording, Iq!SetRate, Iq!End, Iq!radio, Iq!writer
  <1>2. /\ iqAsked' \in IqRates
        /\ at' \in {"top", "reading", "joining", "ending", "over"}
        /\ at' \in {"joining", "ending"} => rec' # None
    BY IqTypes
    DEF Iq!StartRecording, Iq!StopRecording, Iq!SetRate, Iq!End, Iq!radio
  <1>3. start' \in BOOLEAN /\ iqStop' \in BOOLEAN
    BY IqTypes DEF Iq!StartRecording, Iq!StopRecording, Iq!SetRate, Iq!End, Iq!Requested
  <1>4. Iq!TypeOK'
    BY <1>1, <1>2, <1>3, IqTypes, IqTypesNext
  <1>5. Iq!FileWhole'
    BY <1>1 DEF Iq!FileWhole, Iq!InOrder
  <1>6. QED
    BY <1>1, <1>2, <1>4, <1>5 DEF NothingLost, Ascending

\* A recording begins with the next block.
LEMMA IqTurnInv == IqInv /\ Iq!Turn => IqInv'
  <1> SUFFICES ASSUME IqInv, Iq!Turn PROVE IqInv'
    OBVIOUS
  <1> USE DEF IqInv
  <1>1. /\ iqSource' = iqAsked /\ start' = FALSE /\ iqStop' = FALSE
        /\ UNCHANGED <<iqAsked, next, iqShown, wavs>>
        /\ at' \in {"reading", "joining"}
        /\ at' \in {"joining", "ending"} => UNCHANGED rec /\ rec # None
        /\ \/ UNCHANGED <<rec, chan, file, broken>>
           \/ /\ rec' = [rate |-> iqSource', first |-> next, dropped |-> 0]
              /\ chan' = <<>> /\ file' = <<>> /\ broken' = FALSE
    BY DEF Iq!Turn, Iq!Begin, Iq!writer
  <1>2. Iq!FileWhole'
    BY <1>1 DEF Iq!FileWhole, Iq!InOrder
  <1>3. CASE UNCHANGED <<rec, chan, file, broken>>
    <2>1. Iq!TypeOK'
      BY <1>1, <1>3, IqTypes, IqTypesNext
    <2>2. QED
      BY <1>1, <1>2, <1>3, <2>1 DEF NothingLost, Ascending
  <1>4. CASE /\ rec' = [rate |-> iqSource', first |-> next, dropped |-> 0]
             /\ chan' = <<>> /\ file' = <<>> /\ broken' = FALSE
    <2>1. /\ chan' \in Seq(IqBlocks) /\ file' \in Seq(IqBlocks)
          /\ Len(chan') = 0 /\ Len(file') = 0
      BY <1>4
    <2>2. /\ rec' \in Recorders /\ rec'.first = next /\ rec'.dropped = 0
      BY <1>1, <1>4, IqTypes DEF Recorders
    <2>3. Iq!TypeOK'
      <3>1. Len(chan') <= Capacity
        BY <2>1, IqConstants
      <3>2. QED
        BY <1>1, <1>4, <3>1, IqTypes, IqTypesNext
    <2>4. NothingLost'
      BY <1>1, <2>1, <2>2 DEF NothingLost, Ascending
    <2>5. QED
      BY <1>1, <1>2, <2>1, <2>2, <2>3, <2>4
  <1>5. QED
    BY <1>1, <1>3, <1>4

\* A block captured is queued or counted.
LEMMA IqReadInv == IqInv /\ Iq!Read => IqInv'
  <1> SUFFICES ASSUME IqInv, Iq!Read PROVE IqInv'
    OBVIOUS
  <1> USE DEF IqInv
  <1> DEFINE block == [number |-> next, rate |-> iqSource]
  <1>1. /\ UNCHANGED <<iqAsked, iqSource, start, iqStop, file, broken, wavs>> /\ at' = "top"
        /\ \/ UNCHANGED <<next, rec, chan>>
           \/ next' = next + 1 /\ rec = None /\ UNCHANGED <<rec, chan>>
           \/ next' = next + 1 /\ rec # None /\ Iq!Record(block)
    BY DEF Iq!Read
  <1>2. iqShown' \in BOOLEAN
    <2>1. iqShown' \in {iqShown, rec # None}
      BY DEF Iq!Read
    <2>2. QED
      BY <2>1, IqTypes
  <1>3. Iq!FileWhole'
    BY <1>1 DEF Iq!FileWhole, Iq!InOrder
  <1>4. CASE UNCHANGED <<rec, chan>> /\ (next' = next \/ (next' = next + 1 /\ (rec = None \/ broken)))
    <2>1. Iq!TypeOK'
      BY <1>1, <1>2, <1>4, IqTypes, IqTypesNext
    <2>2. next' \in Nat
      BY <1>4
    <2>3. rec' # None /\ ~broken' => NothingLost'
      <3>1. SUFFICES ASSUME rec # None, ~broken PROVE NothingLost'
        BY <1>1, <1>4
      <3>2. UNCHANGED <<rec, chan, file, next>>
        BY <1>1, <1>4, <3>1
      <3>3. QED
        BY <3>1, <3>2 DEF NothingLost, Ascending
    <2>4. QED
      BY <1>1, <1>3, <1>4, <2>1, <2>2, <2>3
  <1>5. CASE /\ next' = next + 1 /\ rec # None /\ ~broken /\ UNCHANGED rec
             /\ Len(chan) < Capacity /\ chan' = Append(chan, block)
    <2>1. block \in IqBlocks /\ block.number = next
      BY IqTypes DEF IqBlocks
    <2>2. NothingLost /\ rec \in Recorders /\ Len(chan) \in Nat /\ Len(file) \in Nat
      BY <1>5, LenProperties
    <2> HIDE DEF block
    <2>3. /\ chan' \in Seq(IqBlocks) /\ Len(chan') = Len(chan) + 1 /\ Ascending(chan')
          /\ \A i \in 1..Len(chan') : chan'[i] = block \/ \E j \in 1..Len(chan) : chan'[i] = chan[j]
      BY <1>5, <2>1, <2>2, AscendingAppend DEF NothingLost
    <2>4. Len(chan') <= Capacity
      BY <1>5, <2>2, <2>3, IqConstants
    <2>5. Iq!TypeOK'
      BY <1>1, <1>2, <2>4, IqTypes, IqTypesNext
    <2>6. /\ \A i \in 1..Len(file) : file[i].number < next /\ file[i].number \in Nat
          /\ \A i \in 1..Len(chan) : chan[i].number < next /\ chan[i].number \in Nat
      BY <2>2, BlockNumbers DEF NothingLost
    <2>7. /\ \A i \in 1..Len(chan') : chan'[i].number < next'
          /\ \A i \in 1..Len(file) : file[i].number < next'
          /\ \A i \in 1..Len(file), j \in 1..Len(chan') : file[i].number < chan'[j].number
      BY <1>5, <2>1, <2>2, <2>3, <2>6 DEF NothingLost
    <2>8. /\ rec.first <= next' /\ Len(file) + Len(chan') + rec.dropped = next' - rec.first
      BY <1>5, <2>2, <2>3 DEF NothingLost, Recorders
    <2>9. NothingLost'
      BY <1>1, <1>5, <2>2, <2>3, <2>7, <2>8 DEF NothingLost, Ascending
    <2>10. QED
      BY <1>1, <1>3, <1>5, <2>3, <2>5, <2>9
  <1>6. CASE /\ next' = next + 1 /\ rec # None /\ ~broken /\ UNCHANGED chan
             /\ rec' = [rec EXCEPT !.dropped = @ + 1]
    <2>1. NothingLost /\ rec \in Recorders /\ Len(chan) \in Nat /\ Len(file) \in Nat
      BY <1>6, LenProperties
    <2>2. rec' \in Recorders /\ rec'.first = rec.first /\ rec'.dropped = rec.dropped + 1
      BY <1>6, <2>1 DEF Recorders
    <2>3. Iq!TypeOK'
      BY <1>1, <1>2, <1>6, IqTypes, IqTypesNext
    <2>4. /\ \A i \in 1..Len(file) : file[i].number < next /\ file[i].number \in Nat
          /\ \A i \in 1..Len(chan) : chan[i].number < next /\ chan[i].number \in Nat
      BY <2>1, BlockNumbers DEF NothingLost
    <2>5. /\ \A i \in 1..Len(chan) : chan[i].number < next'
          /\ \A i \in 1..Len(file) : file[i].number < next'
      BY <1>6, <2>4
    <2>6. /\ rec'.first <= next'
          /\ Len(file) + Len(chan) + rec'.dropped = next' - rec'.first
      BY <1>6, <2>1, <2>2 DEF NothingLost, Recorders
    <2>7. NothingLost'
      BY <1>1, <1>6, <2>1, <2>5, <2>6 DEF NothingLost, Ascending
    <2>8. QED
      BY <1>1, <1>3, <1>6, <2>2, <2>3, <2>7
  <1>7. QED
    BY <1>1, <1>4, <1>5, <1>6 DEF Iq!Record

\* Stopping waits for the queue to be written, so what the file lacks was dropped.
LEMMA IqJoinInv == IqInv /\ Iq!Join => IqInv'
  <1> SUFFICES ASSUME IqInv, Iq!Join PROVE IqInv'
    OBVIOUS
  <1> USE DEF IqInv
  <1>1. /\ at \in {"joining", "ending"} /\ (chan = <<>> \/ broken)
        /\ wavs' = wavs \cup {Iq!Finished} /\ rec' = None /\ at' \in {"over", "reading"}
        /\ UNCHANGED <<iqAsked, iqSource, next, start, iqStop, iqShown, chan, file, broken>>
    BY DEF Iq!Join, Iq!Finalize, Iq!radio, Iq!writer
  <1>2. Iq!TypeOK'
    BY <1>1, IqTypes, IqTypesNext
  <1>3. ~broken => /\ Iq!InOrder(file)
                   /\ Len(file) + rec.dropped = next - rec.first
    <2>1. SUFFICES ASSUME ~broken
                   PROVE  Iq!InOrder(file) /\ Len(file) + rec.dropped = next - rec.first
      OBVIOUS
    <2>2. NothingLost /\ rec \in Recorders /\ Len(chan) = 0 /\ Len(file) \in Nat
      BY <1>1, <2>1, LenProperties
    <2>3. QED
      BY <2>2, AscendingInOrder DEF NothingLost, Recorders
  <1>4. Iq!FileWhole'
    <2>1. SUFFICES ASSUME NEW w \in wavs', ~w.broken
                   PROVE  Iq!InOrder(w.blocks) /\ Len(w.blocks) + w.dropped = w.captured
      BY DEF Iq!FileWhole, Iq!InOrder
    <2>2. CASE w \in wavs
      BY <2>1, <2>2 DEF Iq!FileWhole
    <2>3. CASE w = Iq!Finished
      <3>1. /\ w.blocks = file /\ w.dropped = rec.dropped
            /\ w.captured = next - rec.first /\ w.broken = broken
        BY <2>3 DEF Iq!Finished
      <3>2. QED
        BY <1>3, <2>1, <3>1
    <2>4. QED
      BY <1>1, <2>1, <2>2, <2>3
  <1>5. QED
    BY <1>1, <1>2, <1>4

\* The writer takes blocks in the order they were queued, or gives up.
LEMMA IqWriteInv == IqInv /\ Iq!Write => IqInv'
  <1> SUFFICES ASSUME IqInv, Iq!Write PROVE IqInv'
    OBVIOUS
  <1> USE DEF IqInv
  <1>1. /\ UNCHANGED <<iqAsked, iqSource, next, start, iqStop, iqShown, at, rec, wavs>>
        /\ rec # None /\ ~broken /\ chan # <<>>
        /\ \/ /\ file' = Append(file, Head(chan)) /\ chan' = Tail(chan)
              /\ UNCHANGED broken
           \/ broken' = TRUE /\ chan' = <<>> /\ UNCHANGED file
    BY DEF Iq!Write, Iq!radio
  <1>2. Iq!FileWhole'
    BY <1>1 DEF Iq!FileWhole, Iq!InOrder
  <1>3. NothingLost /\ rec \in Recorders /\ Len(file) \in Nat /\ Len(chan) <= Capacity
    BY <1>1, IqTypes, LenProperties
  <1>4. CASE file' = Append(file, Head(chan)) /\ chan' = Tail(chan) /\ UNCHANGED broken
    <2>1. /\ chan' \in Seq(IqBlocks) /\ Len(chan') = Len(chan) - 1 /\ Len(chan) \in Nat \ {0}
          /\ Ascending(chan') /\ Head(chan) \in IqBlocks /\ Head(chan) = chan[1]
          /\ \A i \in 1..Len(chan') : /\ Head(chan).number < chan'[i].number
                                      /\ \E j \in 1..Len(chan) : chan'[i] = chan[j]
      BY <1>1, <1>3, <1>4, AscendingTail DEF NothingLost
    <2>2. 1 \in 1..Len(chan)
      BY <2>1
    <2>3. \A i \in 1..Len(file) : file[i].number < Head(chan).number
      BY <1>3, <2>1, <2>2 DEF NothingLost
    <2>4. /\ file' \in Seq(IqBlocks) /\ Len(file') = Len(file) + 1 /\ Ascending(file')
          /\ \A i \in 1..Len(file') :
                file'[i] = Head(chan) \/ \E j \in 1..Len(file) : file'[i] = file[j]
      BY <1>3, <1>4, <2>1, <2>3, AscendingAppend DEF NothingLost
    <2>5. Len(chan') <= Capacity
      BY <1>3, <2>1, IqConstants
    <2>6. Iq!TypeOK'
      BY <1>1, <1>4, <2>5, IqTypes, IqTypesNext
    <2>7. /\ \A i \in 1..Len(chan') : chan'[i].number < next
          /\ \A i \in 1..Len(file') : file'[i].number < next
      BY <1>3, <2>1, <2>2, <2>4 DEF NothingLost
    <2>8. \A i \in 1..Len(file'), j \in 1..Len(chan') : file'[i].number < chan'[j].number
      <3>1. SUFFICES ASSUME NEW i \in 1..Len(file'), NEW j \in 1..Len(chan')
                     PROVE  file'[i].number < chan'[j].number
        OBVIOUS
      <3>2. CASE file'[i] = Head(chan)
        BY <2>1, <3>2
      <3>3. CASE \E k \in 1..Len(file) : file'[i] = file[k]
        BY <1>3, <2>1, <3>3 DEF NothingLost
      <3>4. QED
        BY <2>4, <3>2, <3>3
    <2>9. Len(file') + Len(chan') + rec.dropped = next - rec.first
      BY <1>3, <2>1, <2>4 DEF NothingLost, Recorders
    <2>10. NothingLost'
      BY <1>1, <1>3, <2>1, <2>4, <2>7, <2>8, <2>9 DEF NothingLost, Ascending
    <2>11. QED
      BY <1>1, <1>2, <1>4, <2>1, <2>4, <2>6, <2>10
  <1>5. CASE broken' = TRUE /\ chan' = <<>> /\ UNCHANGED file
    <2>1. chan' \in Seq(IqBlocks) /\ Len(chan') = 0
      BY <1>5
    <2>2. Iq!TypeOK'
      BY <1>1, <1>5, <2>1, IqTypes, IqTypesNext, IqConstants
    <2>3. QED
      BY <1>1, <1>2, <1>5, <2>1, <2>2
  <1>6. QED
    BY <1>1, <1>4, <1>5

\* Every step keeps the invariant of the recording.
LEMMA IqNextInv == IqInv /\ Iq!Next => IqInv'
  BY IqCommandInv, IqTurnInv, IqReadInv, IqJoinInv, IqWriteInv DEF Iq!Next

-----------------------------------------------------------------------------
(* The exports of the log: LogExport.                                       *)

\* What is assumed of the constants.
LEMMA ExportConstants == MaxContacts \in Nat
  BY PartsAssumption DEF PartsAssumption

\* Row ids, and what a run reached, are of ids given in the log; a bookmark is too, or a
\* run over another log moved it; and a contact under an id of its own, left out by no
\* run, is written or still to come, also when the bookmark moves to the run just done.
IdsGiven ==
    /\ \A o \in Operators :
         /\ topId[o] <= logged
         /\ bookmark[o] <= topId[o] \/ bookmark[o] <= misfiled[o]
         /\ \A r \in rows[o] : r.id <= topId[o] /\ r.contact <= logged
    /\ summary # None => summary.max <= topId[summary.of]
ToBeWritten(o, r) ==
    /\ r.id > bookmark[o]
    /\ summary # None /\ summary.incremental /\ summary.of = o =>
         r.id > summary.max \/ r.contact \in summary.left
StillToCome ==
    \A o \in Operators : \A r \in rows[o] :
      r.contact \notin reissued /\ r.contact \notin narrowed /\ r.id > misfiled[o] =>
        r.contact \in exported \/ ToBeWritten(o, r)

ExportInv == Export!TypeOK /\ IdsGiven /\ StillToCome

\* The highest of a bounded set of numbers.
LEMMA ExportMax ==
    ASSUME NEW n \in Nat, NEW S, S \subseteq 0..n, S # {}
    PROVE  Export!Max(S) \in S /\ \A k \in S : k <= Export!Max(S)
  <1>1. PICK top \in S : \A k \in S : k <= top
    BY GreatestElement
  <1>2. \A k, m \in S : k <= m <=> m >= k
    OBVIOUS
  <1>3. top \in S /\ \A k \in S : top >= k
    BY <1>1, <1>2
  <1>4. Export!Max(S) \in S /\ \A k \in S : Export!Max(S) >= k
    BY <1>3 DEF Export!Max
  <1>5. QED
    BY <1>2, <1>4

\* Of two numbers.
LEMMA ExportMaxOfTwo ==
    ASSUME NEW a \in 0..MaxContacts, NEW b \in 0..MaxContacts
    PROVE  /\ Export!Max({a, b}) \in {a, b}
           /\ a <= Export!Max({a, b}) /\ b <= Export!Max({a, b})
  <1>1. {a, b} \subseteq 0..MaxContacts /\ {a, b} # {}
    OBVIOUS
  <1>2. QED
    BY <1>1, ExportMax, ExportConstants

\* The highest row id of a table.
LEMMA HighestIdFacts ==
    ASSUME NEW table, NEW top \in 0..MaxContacts,
           \A r \in table : r.id \in Nat /\ r.id <= top
    PROVE  /\ Export!HighestId(table) \in 0..top
           /\ \A r \in table : r.id <= Export!HighestId(table)
  <1> DEFINE ids == {r.id : r \in table} \cup {0}
  <1>1. top \in Nat /\ ids \subseteq 0..top /\ 0 \in ids /\ \A r \in table : r.id \in ids
    BY ExportConstants
  <1> HIDE DEF ids
  <1>2. Export!Max(ids) \in ids /\ \A k \in ids : k <= Export!Max(ids)
    BY <1>1, ExportMax
  <1>3. Export!HighestId(table) = Export!Max(ids)
    BY DEF Export!HighestId, ids
  <1>4. QED
    BY <1>1, <1>2, <1>3

\* What TypeOK says of each variable.
LEMMA ExportTypes ==
    ASSUME Export!TypeOK
    PROVE  /\ operator \in Operators \cup {None}
           /\ rows \in [Operators -> SUBSET Export!Rows] /\ logged \in 0..MaxContacts
           /\ topId \in [Operators -> 0..MaxContacts]
           /\ bookmark \in [Operators -> 0..MaxContacts]
           /\ misfiled \in [Operators -> 0..MaxContacts]
           /\ reissued \subseteq Export!Contacts /\ exported \subseteq Export!Contacts
           /\ narrowed \subseteq Export!Contacts
           /\ job \in Export!Jobs \cup {None} /\ summary \in Export!Summaries \cup {None}
           /\ \A o \in Operators :
                /\ topId[o] \in 0..MaxContacts /\ bookmark[o] \in 0..MaxContacts
                /\ misfiled[o] \in 0..MaxContacts
                /\ \A r \in rows[o] :
                     /\ r.id \in Nat /\ r.contact \in Nat /\ r.band \in ExportBands
                     /\ r.contact \in Export!Contacts /\ r \in Export!Rows
           /\ job # None => /\ job.of \in Operators /\ job.incremental \in BOOLEAN
                            /\ job \in Export!Jobs
           /\ summary # None =>
                /\ summary.of \in Operators /\ summary.max \in 0..MaxContacts
                /\ summary.max \in Nat /\ summary.left \subseteq Export!Contacts
  <1>1. /\ operator \in Operators \cup {None}
        /\ rows \in [Operators -> SUBSET Export!Rows] /\ logged \in 0..MaxContacts
        /\ topId \in [Operators -> 0..MaxContacts]
        /\ bookmark \in [Operators -> 0..MaxContacts]
        /\ misfiled \in [Operators -> 0..MaxContacts]
        /\ reissued \subseteq Export!Contacts /\ exported \subseteq Export!Contacts
        /\ narrowed \subseteq Export!Contacts
        /\ job \in Export!Jobs \cup {None} /\ summary \in Export!Summaries \cup {None}
    BY DEF Export!TypeOK
  <1>2. \A o \in Operators :
           /\ topId[o] \in 0..MaxContacts /\ bookmark[o] \in 0..MaxContacts
           /\ misfiled[o] \in 0..MaxContacts
           /\ rows[o] \subseteq Export!Rows
    BY <1>1
  <1>3. \A r \in Export!Rows : /\ r.id \in Nat /\ r.contact \in Nat /\ r.band \in ExportBands
                               /\ r.contact \in Export!Contacts
    BY DEF Export!Rows, Export!Contacts
  <1>4. job # None => /\ job.of \in Operators /\ job.incremental \in BOOLEAN
                      /\ job \in Export!Jobs
    BY <1>1 DEF Export!Jobs
  <1>5. summary # None =>
          /\ summary.of \in Operators /\ summary.max \in 0..MaxContacts
          /\ summary.max \in Nat /\ summary.left \subseteq Export!Contacts
    BY <1>1 DEF Export!Summaries
  <1>6. QED
    BY <1>1, <1>2, <1>3, <1>4, <1>5

\* TypeOK of the next state, from the types of its variables.
LEMMA ExportTypesNext ==
    ASSUME operator' \in Operators \cup {None},
           rows' \in [Operators -> SUBSET Export!Rows], logged' \in 0..MaxContacts,
           topId' \in [Operators -> 0..MaxContacts],
           bookmark' \in [Operators -> 0..MaxContacts],
           misfiled' \in [Operators -> 0..MaxContacts],
           reissued' \subseteq Export!Contacts, exported' \subseteq Export!Contacts,
           narrowed' \subseteq Export!Contacts,
           job' \in Export!Jobs \cup {None}, summary' \in Export!Summaries \cup {None}
    PROVE  Export!TypeOK'
  BY DEF Export!TypeOK, Export!Rows, Export!Contacts, Export!Jobs, Export!Summaries

\* Empty logs have nothing to skip.
LEMMA ExportInitInv == Export!Init => ExportInv
  <1> SUFFICES ASSUME Export!Init PROVE ExportInv
    OBVIOUS
  <1>1. /\ operator = None /\ logged = 0 /\ reissued = {} /\ exported = {} /\ narrowed = {}
        /\ rows = [o \in Operators |-> {}] /\ topId = [o \in Operators |-> 0]
        /\ bookmark = [o \in Operators |-> 0] /\ misfiled = [o \in Operators |-> 0]
        /\ job = None /\ summary = None
    BY DEF Export!Init
  <1>2. 0 \in 0..MaxContacts
    BY ExportConstants
  <1>3. Export!TypeOK
    BY <1>1, <1>2 DEF Export!TypeOK
  <1>4. IdsGiven /\ StillToCome
    BY <1>1 DEF IdsGiven, StillToCome
  <1>5. QED
    BY <1>3, <1>4 DEF ExportInv

\* A contact gets an id above all given so far in its log, or one that was given before.
LEMMA LogContactInv == ExportInv /\ Export!LogContact => ExportInv'
  <1> SUFFICES ASSUME ExportInv, Export!LogContact PROVE ExportInv'
    OBVIOUS
  <1> USE DEF ExportInv
  <1> DEFINE id == Export!HighestId(rows[operator]) + 1
  <1>1. PICK b \in ExportBands :
          rows' = [rows EXCEPT ![operator] =
                     @ \cup {[id |-> id, contact |-> logged', band |-> b]}]
    BY DEF Export!LogContact
  <1>2. /\ operator \in Operators /\ logged < MaxContacts /\ logged' = logged + 1
        /\ topId' = [topId EXCEPT ![operator] = Export!Max({@, id})]
        /\ reissued' = (IF id <= topId[operator] THEN reissued \cup {logged'} ELSE reissued)
        /\ UNCHANGED <<operator, bookmark, exported, narrowed, misfiled, job, summary>>
    BY ExportTypes DEF Export!LogContact
  <1>3. /\ logged \in Nat /\ MaxContacts \in Nat
        /\ \A o \in Operators :
             /\ topId[o] <= logged /\ topId[o] \in Nat /\ bookmark[o] \in Nat
             /\ misfiled[o] \in Nat
             /\ bookmark[o] <= topId[o] \/ bookmark[o] <= misfiled[o]
             /\ \A r \in rows[o] : /\ r.id <= topId[o] /\ r.contact <= logged
                                   /\ r.id \in Nat /\ r.contact \in Nat
    BY ExportTypes, ExportConstants DEF IdsGiven
  <1>4. id \in 1..(topId[operator] + 1)
    <2>1. topId[operator] \in 0..MaxContacts
      BY <1>2, ExportTypes
    <2>2. Export!HighestId(rows[operator]) \in 0..topId[operator]
      BY <1>2, <1>3, <2>1, HighestIdFacts
    <2>3. QED
      BY <1>2, <1>3, <2>2
  <1> HIDE DEF id
  <1> DEFINE new == [id |-> id, contact |-> logged', band |-> b]
  <1>5. /\ \A o \in Operators : /\ topId'[o] \in 0..MaxContacts /\ topId[o] <= topId'[o]
                                /\ topId'[o] <= logged'
        /\ id <= topId'[operator] /\ topId' \in [Operators -> 0..MaxContacts]
        /\ \A o \in Operators : topId[o] \in Nat /\ topId'[o] \in Nat
    <2>1. id \in 0..MaxContacts /\ topId[operator] \in 0..MaxContacts
      BY <1>2, <1>3, <1>4
    <2>2. LET top == Export!Max({topId[operator], id}) IN
            top \in {topId[operator], id} /\ topId[operator] <= top /\ id <= top
      BY <2>1, ExportMaxOfTwo
    <2>3. \A o \in Operators :
            topId'[o] = IF o = operator THEN Export!Max({topId[operator], id}) ELSE topId[o]
      BY <1>2, ExportTypes
    <2>4. \A o \in Operators : /\ topId'[o] \in 0..MaxContacts /\ topId[o] <= topId'[o]
                               /\ topId'[o] <= logged'
      BY <1>2, <1>3, <1>4, <2>1, <2>2, <2>3
    <2>5. id <= topId'[operator]
      BY <1>2, <2>2, <2>3
    <2>6. topId' \in [Operators -> 0..MaxContacts]
      BY <1>2, <2>4, ExportTypes
    <2>7. \A o \in Operators : topId[o] \in Nat /\ topId'[o] \in Nat
      <3>1. \A n \in 0..MaxContacts : n \in Nat
        BY <1>3
      <3>2. QED
        BY <2>6, <3>1, ExportTypes
    <2>8. QED
      BY <2>4, <2>5, <2>6, <2>7
  <1>6. logged' \in 0..MaxContacts /\ logged' \in Export!Contacts /\ id \in Export!Contacts
    BY <1>2, <1>3, <1>4 DEF Export!Contacts
  <1>7. \A o \in Operators : \A r \in rows'[o] : r \in rows[o] \/ (o = operator /\ r = new)
    BY <1>1, <1>2, ExportTypes
  <1>8. Export!TypeOK'
    <2>1. new \in Export!Rows
      BY <1>6 DEF Export!Rows
    <2>2. rows' \in [Operators -> SUBSET Export!Rows]
      BY <1>1, <1>2, <2>1, ExportTypes
    <2>3. reissued' \subseteq Export!Contacts
      BY <1>2, <1>6, ExportTypes
    <2>4. QED
      BY <1>2, <1>5, <1>6, <2>2, <2>3, ExportTypes, ExportTypesNext
  <1>9. IdsGiven'
    <2>1. ASSUME NEW o \in Operators, NEW r \in rows'[o]
          PROVE  r.id <= topId'[o] /\ r.contact <= logged'
      <3>1. CASE r \in rows[o]
        <4>1. /\ r.id <= topId[o] /\ r.contact <= logged /\ r.id \in Nat
              /\ r.contact \in Nat /\ topId[o] \in Nat
          <5>1. \A s \in rows[o] : /\ s.id <= topId[o] /\ s.contact <= logged
                                    /\ s.id \in Nat /\ s.contact \in Nat
            BY <1>3, <2>1
          <5>2. QED
            BY <1>3, <2>1, <3>1, <5>1
        <4>2. topId[o] <= topId'[o] /\ topId'[o] \in Nat /\ logged' = logged + 1
          BY <1>2, <1>5, <2>1
        <4>3. QED
          BY <1>3, <4>1, <4>2
      <3>2. CASE o = operator /\ r = new
        <4>1. r.id = id /\ r.contact = logged' /\ logged' \in Nat
          BY <1>2, <1>3, <3>2
        <4>2. QED
          BY <1>5, <3>2, <4>1
      <3>3. QED
        BY <1>7, <2>1, <3>1, <3>2
    <2>2. summary' # None => summary'.max <= topId'[summary'.of]
      <3>1. ASSUME summary # None PROVE summary.max <= topId'[summary.of]
        <4>1. /\ summary.of \in Operators /\ summary.max \in Nat
              /\ summary.max <= topId[summary.of]
          BY <3>1, ExportTypes DEF IdsGiven
        <4>2. /\ topId[summary.of] \in Nat /\ topId'[summary.of] \in Nat
              /\ topId[summary.of] <= topId'[summary.of]
          BY <1>3, <1>5, <4>1
        <4>3. QED
          BY <4>1, <4>2
      <3>2. QED
        BY <1>2, <3>1
    <2>3. \A o \in Operators : bookmark'[o] <= topId'[o] \/ bookmark'[o] <= misfiled'[o]
      <3>1. TAKE o \in Operators
      <3>2. topId[o] <= topId'[o] /\ topId[o] \in Nat /\ topId'[o] \in Nat
        BY <1>5
      <3>3. /\ bookmark[o] <= topId[o] \/ bookmark[o] <= misfiled[o]
            /\ bookmark[o] \in Nat /\ bookmark' = bookmark /\ misfiled' = misfiled
        BY <1>2, <1>3
      <3>4. QED
        BY <3>2, <3>3
    <2>4. QED
      BY <1>5, <2>1, <2>2, <2>3 DEF IdsGiven
  <1>10. StillToCome'
    <2>1. SUFFICES ASSUME NEW o \in Operators, NEW r \in rows'[o], r.contact \notin reissued',
                          r.contact \notin narrowed, r.id > misfiled[o]
                   PROVE  r.contact \in exported \/ ToBeWritten(o, r)
      BY <1>2 DEF StillToCome, ToBeWritten
    <2>2. CASE r \in rows[o]
      BY <1>2, <2>1, <2>2 DEF StillToCome
    <2>3. CASE o = operator /\ r = new
      <3>1. ~(id <= topId[o])
        BY <1>2, <2>1, <2>3
      <3>2. r.id > bookmark[o]
        BY <1>2, <1>3, <1>4, <2>1, <2>3, <3>1
      <3>3. summary # None => summary.max \in Nat /\ summary.max <= topId[summary.of]
        BY ExportTypes DEF IdsGiven
      <3>4. summary # None /\ summary.of = o => r.id > summary.max
        BY <1>2, <1>3, <1>4, <2>3, <3>1, <3>3
      <3>5. QED
        BY <3>2, <3>4 DEF ToBeWritten
    <2>4. QED
      BY <1>7, <2>1, <2>2, <2>3
  <1>11. QED
    BY <1>8, <1>9, <1>10

\* What leaves the ids and contacts of every log among those it had keeps the invariant.
LEMMA ExportKept ==
    ASSUME ExportInv, UNCHANGED <<logged, topId, bookmark, reissued, exported, narrowed, misfiled>>,
           operator' \in Operators \cup {None}, rows' \in [Operators -> SUBSET Export!Rows],
           \A o \in Operators : \A r \in rows'[o] :
             \E s \in rows[o] : s.id = r.id /\ s.contact = r.contact,
           job' \in Export!Jobs \cup {None}, summary' \in {summary, None}
    PROVE  ExportInv'
  <1> USE DEF ExportInv
  <1>1. Export!TypeOK'
    BY ExportTypes, ExportTypesNext
  <1>2. IdsGiven'
    <2>1. summary' # None => summary' = summary
      OBVIOUS
    <2>2. \A o \in Operators : \A r \in rows'[o] : r.id <= topId[o] /\ r.contact <= logged
      BY DEF IdsGiven
    <2>3. QED
      BY <2>1, <2>2 DEF IdsGiven
  <1>3. StillToCome'
    <2>1. SUFFICES ASSUME NEW o \in Operators, NEW r \in rows'[o], r.contact \notin reissued,
                          r.contact \notin narrowed, r.id > misfiled[o]
                   PROVE  r.contact \in exported \/ ToBeWritten(o, r)'
      BY DEF StillToCome
    <2>2. PICK s \in rows[o] : s.id = r.id /\ s.contact = r.contact
      BY <2>1
    <2>3. s.contact \in exported \/ ToBeWritten(o, s)
      BY <2>1, <2>2 DEF StillToCome
    <2>4. QED
      BY <2>2, <2>3 DEF ToBeWritten
  <1>4. QED
    BY <1>1, <1>2, <1>3

\* A switch, an edit, a deletion, the start of an export; a failed one, and a restart.
LEMMA ExportOthersInv ==
    ASSUME ExportInv,
           \/ Export!SwitchOperator \/ Export!EditContact \/ Export!DeleteContact
           \/ Export!StartExport \/ Export!WriteFails \/ Export!Restart
    PROVE  ExportInv'
  <1> USE DEF ExportInv, Export!histories
  <1>1. /\ rows \in [Operators -> SUBSET Export!Rows] /\ operator \in Operators \cup {None}
        /\ job \in Export!Jobs \cup {None}
    BY ExportTypes
  <1>2. CASE Export!SwitchOperator
    BY <1>1, <1>2, ExportKept DEF Export!SwitchOperator
  <1>3. CASE Export!EditContact
    <2>1. /\ operator \in Operators
          /\ UNCHANGED <<operator, logged, topId, bookmark, Export!histories, job, summary>>
      BY <1>1, <1>3 DEF Export!EditContact
    <2>2. PICK r \in rows[operator], b \in ExportBands :
            rows' = [rows EXCEPT ![operator] = (@ \ {r}) \cup {[r EXCEPT !.band = b]}]
      BY <1>3 DEF Export!EditContact
    <2>3. r \in Export!Rows
      BY <1>1, <2>1
    <2>4. /\ [r EXCEPT !.band = b] \in Export!Rows
          /\ [r EXCEPT !.band = b].id = r.id /\ [r EXCEPT !.band = b].contact = r.contact
      BY <2>3 DEF Export!Rows
    <2>5. rows' \in [Operators -> SUBSET Export!Rows]
      BY <1>1, <2>1, <2>2, <2>4
    <2>6. \A o \in Operators : \A n \in rows'[o] :
            n \in rows[o] \/ (o = operator /\ n = [r EXCEPT !.band = b])
      BY <1>1, <2>1, <2>2
    <2>7. \A o \in Operators : \A n \in rows'[o] :
            \E s \in rows[o] : s.id = n.id /\ s.contact = n.contact
      BY <2>1, <2>4, <2>6
    <2>8. QED
      BY <1>1, <2>1, <2>5, <2>7, ExportKept
  <1>4. CASE Export!DeleteContact
    <2>1. /\ operator \in Operators
          /\ UNCHANGED <<operator, logged, topId, bookmark, Export!histories, job, summary>>
      BY <1>1, <1>4 DEF Export!DeleteContact
    <2>2. PICK r \in rows[operator] : rows' = [rows EXCEPT ![operator] = @ \ {r}]
      BY <1>4 DEF Export!DeleteContact
    <2>3. /\ rows' \in [Operators -> SUBSET Export!Rows]
          /\ \A o \in Operators : rows'[o] \subseteq rows[o]
      BY <1>1, <2>1, <2>2
    <2>4. QED
      BY <1>1, <2>1, <2>3, ExportKept
  <1>5. CASE Export!StartExport
    <2>1. /\ operator \in Operators
          /\ UNCHANGED <<operator, rows, logged, topId, bookmark, Export!histories, summary>>
          /\ job' \in [of : {operator}, incremental : BOOLEAN, bands : SUBSET ExportBands]
      BY <1>1, <1>5 DEF Export!StartExport
    <2>2. job' \in Export!Jobs
      BY <2>1 DEF Export!Jobs
    <2>3. QED
      BY <1>1, <2>1, <2>2, ExportKept
  <1>6. CASE Export!WriteFails
    BY <1>1, <1>6, ExportKept DEF Export!WriteFails
  <1>7. CASE Export!Restart
    BY <1>1, <1>7, ExportKept DEF Export!Restart
  <1>8. QED
    BY <1>2, <1>3, <1>4, <1>5, <1>6, <1>7

\* The bookmark of the open log moves to the highest id an incremental run wrote; past
\* it are then what the run left out, or what a run over another log moved it past.
LEMMA ExportDoneInv == ExportInv /\ Export!ExportDone => ExportInv'
  <1> SUFFICES ASSUME ExportInv, Export!ExportDone PROVE ExportInv'
    OBVIOUS
  <1> USE DEF ExportInv
  <1>1. /\ summary # None /\ summary' = None
        /\ UNCHANGED <<operator, rows, logged, topId, reissued, exported, job>>
    BY DEF Export!ExportDone
  <1>2. CASE UNCHANGED <<bookmark, narrowed, misfiled>>
    <2>1. \A o \in Operators : \A r \in rows'[o] :
            \E s \in rows[o] : s.id = r.id /\ s.contact = r.contact
      BY <1>1
    <2>2. QED
      BY <1>1, <1>2, <2>1, ExportTypes, ExportKept
  <1>3. CASE /\ operator # None
             /\ bookmark' = [bookmark EXCEPT ![operator] = Export!Advanced(summary, @)]
             /\ narrowed' = (IF operator = summary.of /\ summary.incremental
                             THEN narrowed \cup summary.left ELSE narrowed)
             /\ misfiled' = (IF operator # summary.of /\ summary.incremental
                             THEN [misfiled EXCEPT ![operator] = Export!Max({@, summary.max})]
                             ELSE misfiled)
    <2>1. /\ operator \in Operators
          /\ summary.max \in 0..MaxContacts /\ bookmark[operator] \in 0..MaxContacts
          /\ misfiled[operator] \in 0..MaxContacts
          /\ summary.of \in Operators /\ summary.max <= topId[summary.of]
          /\ summary.left \subseteq Export!Contacts /\ MaxContacts \in Nat
      BY <1>1, <1>3, ExportTypes, ExportConstants DEF IdsGiven
    <2> DEFINE mark == Export!Max({bookmark[operator], summary.max})
               far == Export!Max({misfiled[operator], summary.max})
    <2>2. /\ mark \in {bookmark[operator], summary.max}
          /\ far \in {misfiled[operator], summary.max}
          /\ misfiled[operator] <= far /\ summary.max <= far
      BY <2>1, ExportMaxOfTwo
    <2>3. /\ mark \in 0..MaxContacts /\ far \in 0..MaxContacts
          /\ bookmark' = (IF summary.incremental
                          THEN [bookmark EXCEPT ![operator] = mark] ELSE bookmark)
          /\ misfiled' = (IF operator # summary.of /\ summary.incremental
                          THEN [misfiled EXCEPT ![operator] = far] ELSE misfiled)
      <3>1. Export!Advanced(summary, bookmark[operator]) =
              IF summary.incremental THEN mark ELSE bookmark[operator]
        BY DEF Export!Advanced
      <3>2. QED
        BY <1>3, <2>1, <2>2, <3>1, ExportTypes
    <2> HIDE DEF mark, far
    <2>4. /\ bookmark' \in [Operators -> 0..MaxContacts]
          /\ misfiled' \in [Operators -> 0..MaxContacts]
          /\ \A o \in Operators :
               /\ bookmark'[o] = IF summary.incremental /\ o = operator THEN mark ELSE bookmark[o]
               /\ misfiled'[o] = IF operator # summary.of /\ summary.incremental /\ o = operator
                                 THEN far ELSE misfiled[o]
      BY <2>1, <2>3, ExportTypes
    <2>5. Export!TypeOK'
      <3>1. narrowed' \subseteq Export!Contacts
        BY <1>3, <2>1, ExportTypes
      <3>2. QED
        BY <1>1, <2>4, <3>1, ExportTypes, ExportTypesNext
    <2>6. IdsGiven'
      <3>1. \A o \in Operators : bookmark'[o] <= topId[o] \/ bookmark'[o] <= misfiled'[o]
        <4>1. TAKE o \in Operators
        <4>2. /\ topId[o] \in Nat /\ bookmark[o] \in Nat /\ misfiled[o] \in Nat
              /\ bookmark[o] <= topId[o] \/ bookmark[o] <= misfiled[o]
          BY ExportTypes, ExportConstants DEF IdsGiven
        <4>3. QED
          BY <2>1, <2>2, <2>4, <4>2
      <3>2. QED
        BY <1>1, <3>1 DEF IdsGiven
    <2>7. StillToCome'
      <3>1. SUFFICES ASSUME NEW o \in Operators, NEW r \in rows[o], r.contact \notin reissued,
                            r.contact \notin narrowed', r.id > misfiled'[o],
                            r.contact \notin exported
                     PROVE  r.id > bookmark'[o]
        BY <1>1 DEF StillToCome, ToBeWritten
      <3>2. r.contact \notin narrowed
        BY <1>3, <3>1
      <3>3. /\ r.id \in Nat /\ misfiled[o] \in Nat /\ bookmark[o] \in Nat /\ summary.max \in Nat
            /\ r.id > misfiled[o]
        BY <2>1, <2>2, <2>4, <3>1, ExportTypes, ExportConstants
      <3>4. ToBeWritten(o, r)
        BY <3>1, <3>2, <3>3 DEF StillToCome
      <3>5. CASE summary.incremental /\ o = operator /\ operator = summary.of
        <4>1. r.contact \notin summary.left
          BY <1>3, <3>1, <3>5
        <4>2. QED
          BY <1>1, <2>2, <2>4, <3>4, <3>5, <4>1 DEF ToBeWritten
      <3>6. CASE summary.incremental /\ o = operator /\ operator # summary.of
        BY <2>1, <2>2, <2>4, <3>1, <3>3, <3>4, <3>6 DEF ToBeWritten
      <3>7. CASE ~(summary.incremental /\ o = operator)
        BY <2>4, <3>4, <3>7 DEF ToBeWritten
      <3>8. QED
        BY <3>5, <3>6, <3>7
    <2>8. QED
      BY <2>5, <2>6, <2>7
  <1>4. QED
    BY <1>2, <1>3 DEF Export!ExportDone

\* An incremental run writes every contact above the bookmark, or remembers it as left
\* out if it has one above it written.
LEMMA ExportWriteInv == ExportInv /\ Export!Write => ExportInv'
  <1> SUFFICES ASSUME ExportInv, Export!Write PROVE ExportInv'
    OBVIOUS
  <1> USE DEF ExportInv
  <1> DEFINE considered == Export!New(job)
             written == Export!Matching(job)
             highest == Export!HighestId(written)
             passed == {n \in considered \ written : n.id <= highest}
  <1>1. /\ job # None /\ job' = None
        /\ summary' = [of |-> job.of, incremental |-> job.incremental, max |-> highest,
                       left |-> {r.contact : r \in passed}]
        /\ exported' = (IF job.incremental THEN exported \cup {r.contact : r \in written}
                        ELSE exported)
        /\ UNCHANGED <<operator, rows, logged, topId, bookmark, reissued, narrowed, misfiled>>
    BY DEF Export!Write
  <1>2. job.of \in Operators /\ job.incremental \in BOOLEAN
    BY <1>1, ExportTypes
  <1>3. /\ considered = {r \in rows[job.of] : job.incremental => r.id > bookmark[job.of]}
        /\ written = {r \in considered : r.band \in job.bands}
    BY DEF Export!Matching, Export!New
  <1> HIDE DEF considered, written
  <1>4. highest \in 0..topId[job.of]
    <2>1. /\ topId[job.of] \in 0..MaxContacts
          /\ \A r \in written : r.id \in Nat /\ r.id <= topId[job.of]
      BY <1>2, <1>3, ExportTypes DEF IdsGiven
    <2>2. QED
      BY <2>1, HighestIdFacts
  <1> HIDE DEF highest
  <1>5. highest \in 0..MaxContacts /\ highest <= topId[job.of] /\ highest \in Nat
    BY <1>2, <1>4, ExportTypes, ExportConstants
  <1>6. Export!TypeOK'
    <2>1. summary' \in Export!Summaries
      <3>1. {r.contact : r \in passed} \subseteq Export!Contacts
        BY <1>2, <1>3, ExportTypes
      <3>2. QED
        BY <1>1, <1>2, <1>5, <3>1 DEF Export!Summaries
    <2>2. exported' \subseteq Export!Contacts
      BY <1>1, <1>2, <1>3, ExportTypes
    <2>3. QED
      BY <1>1, <2>1, <2>2, ExportTypes, ExportTypesNext
  <1>7. IdsGiven'
    BY <1>1, <1>5 DEF IdsGiven
  <1>8. StillToCome'
    <2>1. SUFFICES ASSUME NEW o \in Operators, NEW r \in rows[o], r.contact \notin reissued,
                          r.contact \notin narrowed, r.id > misfiled[o],
                          r.contact \notin exported'
                   PROVE  /\ r.id > bookmark[o]
                          /\ job.incremental /\ job.of = o =>
                               r.id > highest \/ r \in passed
      BY <1>1 DEF StillToCome, ToBeWritten
    <2>2. r.contact \notin exported
      BY <1>1, <2>1
    <2>3. r.id > bookmark[o]
      BY <2>1, <2>2 DEF StillToCome, ToBeWritten
    <2>4. ASSUME job.incremental, job.of = o
          PROVE  r.id > highest \/ r \in passed
      <3>1. r \in considered
        BY <1>3, <2>3, <2>4
      <3>2. r \notin written
        BY <1>1, <2>1, <2>4
      <3>3. r.id \in Nat
        BY <2>1, ExportTypes
      <3>4. QED
        BY <1>5, <3>1, <3>2, <3>3
    <2>5. QED
      BY <2>3, <2>4
  <1>9. QED
    BY <1>6, <1>7, <1>8

\* Every step keeps the invariant of the exports, and it skips nothing.
LEMMA ExportNextInv == ExportInv /\ Export!Next => ExportInv'
  BY LogContactInv, ExportOthersInv, ExportDoneInv, ExportWriteInv DEF Export!Next

\* The invariant of the exports says that nothing is skipped.
LEMMA ExportInvSkipsNothing == ExportInv => Export!NothingSkipped
  BY DEF ExportInv, StillToCome, ToBeWritten, Export!NothingSkipped, Export!ToCome,
         Export!Fresh, Export!Unfiltered, Export!OwnMark

-----------------------------------------------------------------------------
(* The waterfall: WaterfallRows.                                            *)

\* A bin of a row was sent.
IsSent(row, o) ==
    \/ row.sender < sent.sender
    \/ row.sender = sent.sender /\ row.number * Chunks + o < sent.chunks

\* The chunks the reassembler took were of one row.
OneRow(r) == \A x, y \in r.from : x = y

\* The offsets that have their bins but may get them again from a chunk in flight.
Again(r, chunks) ==
    {o \in Waterfall!Offsets :
       r.buf[o] # None /\ \E c \in chunks : c.row \in r.from /\ c.offset = o}

\* Chunks in flight are among those sent, and no two are of one place.
SentOnce ==
    /\ \A c \in net : IsSent(c.row, c.offset)
    /\ \A c, d \in net : c.row = d.row /\ c.offset = d.offset => c = d

\* The bins in the buffer are of chunks sent and taken, and those of rows that have the
\* row_seq at hand; the row is emitted when as many chunks were counted as it has.
OfItsRows(r) ==
    /\ \A o \in Waterfall!Offsets :
         r.buf[o] # None => r.buf[o] \in r.from /\ IsSent(r.buf[o], o)
    /\ \A x \in r.from : Waterfall!RowSeq(x) = r.seq
    /\ ~r.done => r.filled < Chunks

\* While they are of one row, each chunk counted filled a hole, or came again: while some
\* are in flight that would.
HolesCounted(r, chunks, k) ==
    OneRow(r) => Cardinality(Waterfall!Holes(r.buf)) + r.filled + Cardinality(Again(r, chunks))
                   <= Chunks + k

RowsInv == /\ Waterfall!TypeOK /\ Waterfall!RowsWhole
           /\ sent.before + sent.chunks <= SentRows * Chunks
           /\ SentOnce /\ OfItsRows(reasm) /\ HolesCounted(reasm, net, repeats)

\* Cardinality, by the name it has in the instance.
LEMMA WaterfallCardinality ==
    \A S : Waterfall!Cardinality(S) = Cardinality(S)
  BY Zenon DEF Waterfall!Cardinality, Cardinality

\* What is assumed of the constants.
LEMMA RowsConstants ==
    /\ SentRows \in Nat /\ MaxRepeats \in Nat /\ RowIds \in Nat \ {0} /\ Chunks \in Nat \ {0}
    /\ Senders \in Nat \ {0} /\ None \notin Waterfall!RowNumbers /\ SentRows * Chunks \in Nat
  BY PartsAssumption DEF PartsAssumption, Waterfall!RowIdsAssumption

\* What TypeOK says of each variable.
LEMMA RowsTypes ==
    ASSUME Waterfall!TypeOK
    PROVE  /\ sent \in [sender : 1 .. Senders, chunks : 0 .. SentRows * Chunks,
                        before : 0 .. SentRows * Chunks]
           /\ sent.sender \in Nat /\ sent.chunks \in Nat /\ sent.before \in Nat
           /\ net \subseteq Waterfall!Chunk
           /\ reasm \in Waterfall!Reassembly /\ shown \in Waterfall!Reassembly \union {None}
           /\ repeats \in 0 .. MaxRepeats
  <1>1. sent \in [sender : 1 .. Senders, chunks : 0 .. SentRows * Chunks,
                  before : 0 .. SentRows * Chunks]
    BY DEF Waterfall!TypeOK
  <1>2. sent.sender \in Nat /\ sent.chunks \in Nat /\ sent.before \in Nat
    BY <1>1, RowsConstants
  <1>3. QED
    BY <1>1, <1>2 DEF Waterfall!TypeOK

\* TypeOK of the next state, from the types of its variables.
LEMMA RowsTypesNext ==
    ASSUME sent' \in [sender : 1 .. Senders, chunks : 0 .. SentRows * Chunks,
                      before : 0 .. SentRows * Chunks],
           net' \subseteq Waterfall!Chunk, reasm' \in Waterfall!Reassembly,
           shown' \in Waterfall!Reassembly \union {None}, repeats' \in 0 .. MaxRepeats
    PROVE  Waterfall!TypeOK'
  BY DEF Waterfall!TypeOK

\* A row's id is one, and the row is not None.
LEMMA RowSeqType ==
    ASSUME NEW row \in Waterfall!RowNumbers
    PROVE  /\ Waterfall!RowSeq(row) \in 0 .. RowIds - 1 /\ row # None
           /\ row.number \in Nat /\ row.sender \in Nat
  <1>1. row.number \in Nat /\ row.sender \in Nat /\ row # None
    BY RowsConstants DEF Waterfall!RowNumbers
  <1>2. row.number % RowIds \in 0 .. RowIds - 1
    BY <1>1, RowsConstants, DivisionFacts
  <1>3. QED
    BY <1>1, <1>2 DEF Waterfall!RowSeq

\* Two rows that have one id are one row, or the ids came round in between, or the
\* senders are two.
LEMMA RowSeqTellsApart ==
    ASSUME NEW x \in Waterfall!RowNumbers, NEW y \in Waterfall!RowNumbers,
           Waterfall!RowSeq(x) = Waterfall!RowSeq(y)
    PROVE  x = y \/ Waterfall!Far(x, y)
  <1>1. SUFFICES ASSUME x.sender = y.sender, x.number - y.number < RowIds,
                        y.number - x.number < RowIds
                 PROVE  x = y
    BY RowSeqType, RowsConstants DEF Waterfall!Far
  <1>2. x.number \in Nat /\ y.number \in Nat
    BY RowSeqType
  <1> DEFINE p == x.number \div RowIds
             q == y.number \div RowIds
             a == x.number % RowIds
             b == y.number % RowIds
  <1>3. /\ p \in Nat /\ RowIds * p + a = x.number /\ a \in 0 .. RowIds - 1
        /\ q \in Nat /\ RowIds * q + b = y.number /\ b \in 0 .. RowIds - 1
    BY <1>2, RowsConstants, DivisionFacts
  <1>4. a = b
    BY DEF Waterfall!RowSeq
  <1> HIDE DEF p, q, a, b
  <1>5. ASSUME NEW m \in Nat, NEW n \in Nat, m < n
        PROVE  RowIds * m + RowIds <= RowIds * n
    <2>1. m + 1 <= n
      BY <1>5
    <2>2. RowIds * (m + 1) <= RowIds * n
      BY <2>1, RowsConstants
    <2>3. QED
      BY <2>2, RowsConstants
  <1>6. RowIds * p \in Nat /\ RowIds * q \in Nat /\ RowIds \in Nat
    BY <1>3, RowsConstants
  <1>7. ~(p < q)
    <2>1. SUFFICES ASSUME p < q PROVE FALSE
      OBVIOUS
    <2>2. RowIds * p + RowIds <= RowIds * q
      BY <1>3, <1>5, <2>1
    <2>3. QED
      BY <1>1, <1>2, <1>3, <1>4, <1>6, <2>2
  <1>8. ~(q < p)
    <2>1. SUFFICES ASSUME q < p PROVE FALSE
      OBVIOUS
    <2>2. RowIds * q + RowIds <= RowIds * p
      BY <1>3, <1>5, <2>1
    <2>3. QED
      BY <1>1, <1>2, <1>3, <1>4, <1>6, <2>2
  <1>9. x.number = y.number
    BY <1>3, <1>4, <1>7, <1>8
  <1>10. QED
    BY <1>1, <1>9 DEF Waterfall!RowNumbers

\* There are finitely many offsets.
LEMMA OffsetsFinite ==
    /\ IsFiniteSet(Waterfall!Offsets) /\ Cardinality(Waterfall!Offsets) = Chunks
    /\ \A S \in SUBSET Waterfall!Offsets : IsFiniteSet(S) /\ Cardinality(S) \in Nat
  <1>1. IsFiniteSet(0 .. Chunks - 1) /\ Cardinality(0 .. Chunks - 1) = Chunks
    BY RowsConstants, FS_Interval
  <1>2. IsFiniteSet(Waterfall!Offsets) /\ Cardinality(Waterfall!Offsets) = Chunks
    BY <1>1 DEF Waterfall!Offsets
  <1>3. ASSUME NEW S \in SUBSET Waterfall!Offsets
        PROVE  IsFiniteSet(S) /\ Cardinality(S) \in Nat
    BY <1>2, FS_Subset, FS_CardinalityType
  <1>4. QED
    BY <1>2, <1>3

\* A row begun has every hole and nothing else.
LEMMA BlankCounted ==
    ASSUME NEW r \in Waterfall!Reassembly, r.buf = Waterfall!Blank, r.filled = 0,
           r.from = {}, NEW chunks, NEW k \in Nat
    PROVE  OfItsRows(r) /\ HolesCounted(r, chunks, k)
  <1>1. \A o \in Waterfall!Offsets : r.buf[o] = None
    BY DEF Waterfall!Blank
  <1>2. Waterfall!Holes(r.buf) = Waterfall!Offsets /\ Again(r, chunks) = {}
    BY <1>1 DEF Waterfall!Holes, Again
  <1>3. Cardinality(Waterfall!Holes(r.buf)) = Chunks /\ Cardinality(Again(r, chunks)) = 0
    BY <1>2, OffsetsFinite, FS_EmptySet
  <1>4. QED
    BY <1>1, <1>3, RowsConstants DEF OfItsRows, HolesCounted

\* Before the first chunk.
LEMMA RowsInitInv == Waterfall!Init => RowsInv
  <1> SUFFICES ASSUME Waterfall!Init PROVE RowsInv
    OBVIOUS
  <1>1. /\ sent = [sender |-> 1, chunks |-> 0, before |-> 0] /\ net = {} /\ shown = None
        /\ repeats = 0
        /\ reasm = [seq |-> None, buf |-> Waterfall!Blank, filled |-> 0, done |-> FALSE,
                    from |-> {}]
    BY DEF Waterfall!Init
  <1>2. /\ sent \in [sender : 1 .. Senders, chunks : 0 .. SentRows * Chunks,
                     before : 0 .. SentRows * Chunks]
        /\ repeats \in 0 .. MaxRepeats /\ sent.before + sent.chunks <= SentRows * Chunks
    BY <1>1, RowsConstants
  <1>3. Waterfall!Blank \in Waterfall!Image
    BY DEF Waterfall!Blank, Waterfall!Image
  <1>4. reasm \in Waterfall!Reassembly
    BY <1>1, <1>3, RowsConstants DEF Waterfall!Reassembly
  <1>5. Waterfall!TypeOK
    BY <1>1, <1>2, <1>4 DEF Waterfall!TypeOK
  <1>6. OfItsRows(reasm) /\ HolesCounted(reasm, net, repeats)
    BY <1>1, <1>4, BlankCounted
  <1>7. SentOnce /\ Waterfall!RowsWhole
    BY <1>1
    DEF SentOnce, Waterfall!RowsWhole, Waterfall!NotMixed, Waterfall!HolesRepeated
  <1>8. QED
    BY <1>2, <1>5, <1>6, <1>7 DEF RowsInv

\* What was sent stays sent, and the next bin was not.
LEMMA SentStaysSent ==
    ASSUME RowsInv, Waterfall!SendChunk \/ Waterfall!NextSender,
           NEW row \in Waterfall!RowNumbers, NEW o \in Waterfall!Offsets, IsSent(row, o)
    PROVE  IsSent(row, o)'
  <1>1. /\ sent.sender \in Nat /\ sent.chunks \in Nat /\ row.sender \in Nat
        /\ row.number * Chunks + o \in Nat
    <2>1. row.number \in Nat /\ row.sender \in Nat /\ o \in Nat
      BY RowSeqType, RowsConstants DEF Waterfall!Offsets
    <2>2. row.number * Chunks \in Nat
      BY <2>1, RowsConstants
    <2>3. QED
      BY <2>1, <2>2, RowsTypes DEF RowsInv
  <1>2. CASE Waterfall!SendChunk
    <2>1. sent'.sender = sent.sender /\ sent'.chunks = sent.chunks + 1
      BY <1>2, RowsTypes DEF RowsInv, Waterfall!SendChunk
    <2>2. QED
      BY <1>1, <2>1 DEF IsSent
  <1>3. CASE Waterfall!NextSender
    <2>1. sent'.sender = sent.sender + 1
      BY <1>3 DEF Waterfall!NextSender
    <2>2. QED
      BY <1>1, <2>1 DEF IsSent
  <1>4. QED
    BY <1>2, <1>3

\* So the bins in the buffer stay those of chunks sent.
LEMMA StaysOfItsRows ==
    ASSUME RowsInv, Waterfall!SendChunk \/ Waterfall!NextSender
    PROVE  OfItsRows(reasm)'
  <1>1. reasm' = reasm /\ reasm \in Waterfall!Reassembly
    BY RowsTypes DEF RowsInv, Waterfall!SendChunk, Waterfall!NextSender
  <1>2. ASSUME NEW o \in Waterfall!Offsets, reasm.buf[o] # None
        PROVE  reasm.buf[o] \in reasm.from /\ IsSent(reasm.buf[o], o)'
    <2>1. reasm.buf[o] \in reasm.from /\ IsSent(reasm.buf[o], o)
      BY <1>2 DEF RowsInv, OfItsRows
    <2>2. reasm.buf[o] \in Waterfall!RowNumbers
      BY <1>1, <1>2 DEF Waterfall!Reassembly, Waterfall!Image
    <2>3. \A row \in Waterfall!RowNumbers : IsSent(row, o) => IsSent(row, o)'
      BY SentStaysSent
    <2>4. QED
      BY <2>1, <2>2, <2>3, <1>1 DEF IsSent
  <1>3. /\ \A x \in reasm.from : Waterfall!RowSeq(x) = reasm.seq
        /\ ~reasm.done => reasm.filled < Chunks
    BY DEF RowsInv, OfItsRows
  <1>4. QED
    BY <1>1, <1>2, <1>3 DEF OfItsRows, IsSent

\* A chunk sent is a new one.
LEMMA SendChunkInv == RowsInv /\ Waterfall!SendChunk => RowsInv'
  <1> SUFFICES ASSUME RowsInv, Waterfall!SendChunk PROVE RowsInv'
    OBVIOUS
  <1>2. /\ sent.before + sent.chunks < SentRows * Chunks
        /\ sent' = [sent EXCEPT !.chunks = @ + 1]
        /\ UNCHANGED <<reasm, shown, repeats>>
    BY DEF Waterfall!SendChunk
  <1>3. /\ sent \in [sender : 1 .. Senders, chunks : 0 .. SentRows * Chunks,
                     before : 0 .. SentRows * Chunks]
        /\ sent.chunks \in Nat /\ sent.before \in Nat /\ sent.sender \in 1 .. Senders
        /\ net \subseteq Waterfall!Chunk /\ reasm \in Waterfall!Reassembly
        /\ shown \in Waterfall!Reassembly \union {None} /\ repeats \in 0 .. MaxRepeats
    BY RowsTypes DEF RowsInv
  <1>4. PICK row \in Waterfall!RowNumbers, offset \in Waterfall!Offsets, finite \in BOOLEAN :
          /\ net' = net \union {[row |-> row, offset |-> offset, finite |-> finite]}
          /\ row.sender = sent.sender /\ row.number \in Nat
          /\ row.number * Chunks + offset = sent.chunks
    <2> DEFINE number == sent.chunks \div Chunks
               offset == sent.chunks % Chunks
    <2>1. PICK finite \in BOOLEAN :
            net' = net \union {[row |-> [sender |-> sent.sender, number |-> number],
                               offset |-> offset, finite |-> finite]}
      BY DEF Waterfall!SendChunk
    <2>2. number \in Nat /\ offset \in 0 .. Chunks - 1 /\ Chunks * number + offset = sent.chunks
      BY <1>3, RowsConstants, DivisionFacts
    <2>3. sent.chunks < SentRows * Chunks
      BY <1>2, <1>3, RowsConstants
    <2>4. number < SentRows
      BY <1>3, <2>3, RowsConstants, DivisionBound
    <2> HIDE DEF number, offset
    <2>5. number * Chunks + offset = sent.chunks
      BY <2>2, RowsConstants
    <2> DEFINE row == [sender |-> sent.sender, number |-> number]
    <2>6. /\ row \in Waterfall!RowNumbers /\ row.sender = sent.sender /\ row.number = number
          /\ offset \in Waterfall!Offsets
      BY <1>3, <2>2, <2>4, RowsConstants DEF Waterfall!RowNumbers, Waterfall!Offsets
    <2>7. net' = net \union {[row |-> row, offset |-> offset, finite |-> finite]}
      BY <2>1
    <2> HIDE DEF row
    <2>8. QED
      BY <2>1, <2>2, <2>5, <2>6, <2>7
  <1> DEFINE new == [row |-> row, offset |-> offset, finite |-> finite]
  <1>6. new \in Waterfall!Chunk /\ new.row = row /\ new.offset = offset
    BY <1>4 DEF Waterfall!Chunk
  <1>7. net' = net \union {new}
    BY <1>4
  <1> HIDE DEF new
  <1>8. ~IsSent(row, offset) /\ IsSent(row, offset)'
    <2>1. sent'.sender = sent.sender /\ sent'.chunks = sent.chunks + 1
      BY <1>2, <1>3
    <2>2. ~IsSent(row, offset)
      BY <1>3, <1>4 DEF IsSent
    <2>3. row.sender = sent'.sender /\ row.number * Chunks + offset < sent'.chunks
      BY <1>3, <1>4, <2>1
    <2>4. QED
      BY <2>2, <2>3 DEF IsSent
  <1>9. Waterfall!TypeOK' /\ (sent.before + sent.chunks <= SentRows * Chunks)'
    <2>1. sent' \in [sender : 1 .. Senders, chunks : 0 .. SentRows * Chunks,
                     before : 0 .. SentRows * Chunks]
      BY <1>2, <1>3, RowsConstants
    <2>2. sent'.before + sent'.chunks <= SentRows * Chunks
      BY <1>2, <1>3, RowsConstants
    <2>3. QED
      BY <1>2, <1>3, <1>6, <1>7, <2>1, <2>2, RowsTypesNext
  <1>10. \A c \in net : IsSent(c.row, c.offset) /\ IsSent(c.row, c.offset)'
    <2>1. SUFFICES ASSUME NEW c \in net
                   PROVE  IsSent(c.row, c.offset) /\ IsSent(c.row, c.offset)'
      OBVIOUS
    <2>2. IsSent(c.row, c.offset)
      BY DEF RowsInv, SentOnce
    <2>3. c.row \in Waterfall!RowNumbers /\ c.offset \in Waterfall!Offsets
      BY <1>3 DEF Waterfall!Chunk
    <2>4. \A x \in Waterfall!RowNumbers, o \in Waterfall!Offsets :
            IsSent(x, o) => IsSent(x, o)'
      BY SentStaysSent
    <2>5. QED
      BY <2>2, <2>3, <2>4 DEF IsSent
  <1>11. SentOnce'
    <2>1. ASSUME NEW c \in net'
          PROVE  IsSent(c.row, c.offset)'
      <3>1. CASE c \in net
        BY <1>10, <3>1
      <3>2. CASE c = new
        BY <1>6, <1>8, <3>2 DEF IsSent
      <3>3. QED
        BY <1>7, <3>1, <3>2
    <2>2. ASSUME NEW c \in net', NEW d \in net', c.row = d.row, c.offset = d.offset
          PROVE  c = d
      <3>1. \A e \in net : ~(e.row = row /\ e.offset = offset)
        BY <1>8, <1>10
      <3>2. CASE c \in net /\ d \in net
        BY <2>2, <3>2 DEF RowsInv, SentOnce
      <3>3. CASE c = new /\ d \in net
        BY <1>6, <2>2, <3>1, <3>3
      <3>4. CASE c \in net /\ d = new
        BY <1>6, <2>2, <3>1, <3>4
      <3>5. QED
        BY <1>7, <3>2, <3>3, <3>4
    <2>3. QED
      BY <2>1, <2>2 DEF SentOnce, IsSent
  <1>12. OfItsRows(reasm)'
    BY StaysOfItsRows
  <1>13. OneRow(reasm) => Again(reasm, net') = Again(reasm, net)
    <2>1. ASSUME OneRow(reasm), NEW o \in Waterfall!Offsets, reasm.buf[o] # None
          PROVE  ~(new.row \in reasm.from /\ new.offset = o)
      <3>1. reasm.buf[o] \in reasm.from /\ IsSent(reasm.buf[o], o)
        BY <2>1 DEF RowsInv, OfItsRows
      <3>2. QED
        BY <1>6, <1>8, <2>1, <3>1 DEF OneRow
    <2>2. QED
      BY <1>7, <2>1 DEF Again
  <1>14. HolesCounted(reasm, net, repeats)'
    <2>1. HolesCounted(reasm, net', repeats)
      BY <1>13 DEF RowsInv, HolesCounted
    <2>2. QED
      BY <1>2, <2>1 DEF HolesCounted, OneRow, Again, Waterfall!Holes
  <1>15. Waterfall!RowsWhole'
    BY <1>2
    DEF RowsInv, Waterfall!RowsWhole, Waterfall!NotMixed, Waterfall!HolesRepeated
  <1>16. QED
    BY <1>9, <1>11, <1>12, <1>14, <1>15 DEF RowsInv

\* The sender of the next worker has sent nothing yet.
LEMMA NextSenderInv == RowsInv /\ Waterfall!NextSender => RowsInv'
  <1> SUFFICES ASSUME RowsInv, Waterfall!NextSender PROVE RowsInv'
    OBVIOUS
  <1>1. /\ sent.sender < Senders /\ UNCHANGED <<net, reasm, shown, repeats>>
        /\ sent' = [sender |-> sent.sender + 1, chunks |-> 0,
                    before |-> sent.before + sent.chunks]
    BY DEF Waterfall!NextSender
  <1>2. /\ sent \in [sender : 1 .. Senders, chunks : 0 .. SentRows * Chunks,
                     before : 0 .. SentRows * Chunks]
        /\ sent.chunks \in Nat /\ sent.before \in Nat /\ sent.sender \in 1 .. Senders
        /\ net \subseteq Waterfall!Chunk /\ reasm \in Waterfall!Reassembly
        /\ shown \in Waterfall!Reassembly \union {None} /\ repeats \in 0 .. MaxRepeats
        /\ sent.before + sent.chunks <= SentRows * Chunks
    BY RowsTypes DEF RowsInv
  <1>3. Waterfall!TypeOK' /\ (sent.before + sent.chunks <= SentRows * Chunks)'
    <2>1. sent.sender + 1 \in 1 .. Senders /\ sent.before + sent.chunks \in 0 .. SentRows * Chunks
          /\ 0 \in 0 .. SentRows * Chunks
      BY <1>1, <1>2, RowsConstants
    <2>2. sent' \in [sender : 1 .. Senders, chunks : 0 .. SentRows * Chunks,
                     before : 0 .. SentRows * Chunks]
      BY <1>1, <2>1
    <2>3. sent'.before + sent'.chunks <= SentRows * Chunks
      BY <1>1, <1>2, RowsConstants
    <2>4. QED
      BY <1>1, <1>2, <2>2, <2>3, RowsTypesNext
  <1>4. SentOnce'
    <2>1. ASSUME NEW c \in net PROVE IsSent(c.row, c.offset)'
      <3>1. IsSent(c.row, c.offset)
        BY DEF RowsInv, SentOnce
      <3>2. c.row \in Waterfall!RowNumbers /\ c.offset \in Waterfall!Offsets
        BY <1>2 DEF Waterfall!Chunk
      <3>3. \A x \in Waterfall!RowNumbers, o \in Waterfall!Offsets :
              IsSent(x, o) => IsSent(x, o)'
        BY SentStaysSent
      <3>4. QED
        BY <3>1, <3>2, <3>3 DEF IsSent
    <2>2. \A c, d \in net : c.row = d.row /\ c.offset = d.offset => c = d
      BY DEF RowsInv, SentOnce
    <2>3. QED
      BY <1>1, <2>1, <2>2 DEF SentOnce, IsSent
  <1>5. OfItsRows(reasm)'
    BY StaysOfItsRows
  <1>6. HolesCounted(reasm, net, repeats)'
    BY <1>1 DEF RowsInv, HolesCounted, OneRow, Again, Waterfall!Holes
  <1>7. Waterfall!RowsWhole'
    BY <1>1
    DEF RowsInv, Waterfall!RowsWhole, Waterfall!NotMixed, Waterfall!HolesRepeated
  <1>8. QED
    BY <1>3, <1>4, <1>5, <1>6, <1>7 DEF RowsInv

\* What push_chunk does with a chunk of the row at hand.
Written(r, c) ==
    LET written == [r EXCEPT !.buf[c.offset] = c.row, !.from = @ \union {c.row}]
    IN IF c.finite THEN [written EXCEPT !.filled = @ + 1, !.done = (r.filled + 1 >= Chunks)]
       ELSE written

\* A chunk of the row at hand is written, and counted if it is whole: it fills a hole, or
\* was in flight again, or is now.
LEMMA ChunkWritten ==
    ASSUME NEW r \in Waterfall!Reassembly, NEW chunks, chunks \subseteq Waterfall!Chunk,
           NEW c \in chunks, NEW again \in BOOLEAN, NEW k \in Nat,
           \A d, e \in chunks : d.row = e.row /\ d.offset = e.offset => d = e,
           IsSent(c.row, c.offset), r.seq = Waterfall!RowSeq(c.row), ~r.done,
           OfItsRows(r), HolesCounted(r, chunks, k)
    PROVE  /\ Written(r, c) \in Waterfall!Reassembly /\ Written(r, c).seq = r.seq
           /\ OfItsRows(Written(r, c))
           /\ HolesCounted(Written(r, c), IF again THEN chunks ELSE chunks \ {c},
                           IF again THEN k + 1 ELSE k)
           /\ Written(r, c).done => Written(r, c).filled >= Chunks
  <1> DEFINE left == IF again THEN chunks ELSE chunks \ {c}
             m == IF again THEN k + 1 ELSE k
             s == Written(r, c)
  <1>1. /\ c.row \in Waterfall!RowNumbers /\ c.offset \in Waterfall!Offsets
        /\ c.finite \in BOOLEAN
    BY DEF Waterfall!Chunk
  <1>2. /\ r.buf \in Waterfall!Image /\ r.filled \in 0 .. Chunks /\ r.filled < Chunks
        /\ r.seq \in 0 .. RowIds - 1 \union {None} /\ r.done \in BOOLEAN
        /\ r.from \subseteq Waterfall!RowNumbers
    BY DEF Waterfall!Reassembly, OfItsRows
  <1>3. /\ s.seq = r.seq /\ s.buf = [r.buf EXCEPT ![c.offset] = c.row]
        /\ s.filled = (IF c.finite THEN r.filled + 1 ELSE r.filled)
        /\ s.done = (IF c.finite THEN r.filled + 1 >= Chunks ELSE r.done)
        /\ s.from = r.from \union {c.row}
        /\ s = [seq |-> s.seq, buf |-> s.buf, filled |-> s.filled, done |-> s.done,
                from |-> s.from]
    <2>1. CASE c.finite
      BY <2>1 DEF Waterfall!Reassembly, Written
    <2>2. CASE ~c.finite
      BY <2>2 DEF Waterfall!Reassembly, Written
    <2>3. QED
      BY <2>1, <2>2
  <1> HIDE DEF s
  <1>4. s.buf \in Waterfall!Image
    BY <1>1, <1>2, <1>3 DEF Waterfall!Image
  <1>5. s.filled \in 0 .. Chunks /\ s.done \in BOOLEAN
    <2>1. s.filled \in 0 .. Chunks
      <3>1. s.filled = r.filled \/ s.filled = r.filled + 1
        BY <1>3
      <3>2. QED
        BY <1>2, <3>1, RowsConstants
    <2>2. s.done \in BOOLEAN
      <3>1. CASE c.finite
        <4>1. s.done = (r.filled + 1 >= Chunks)
          BY <1>3, <3>1
        <4>2. (r.filled + 1 >= Chunks) \in BOOLEAN
          OBVIOUS
        <4>3. QED
          BY <4>1, <4>2
      <3>2. CASE ~c.finite
        BY <1>2, <1>3, <3>2
      <3>3. QED
        BY <3>1, <3>2
    <2>3. QED
      BY <2>1, <2>2
  <1>6. s \in Waterfall!Reassembly
    BY <1>1, <1>2, <1>3, <1>4, <1>5 DEF Waterfall!Reassembly
  <1>7. /\ s.buf[c.offset] = c.row /\ c.row # None
        /\ \A o \in Waterfall!Offsets : o # c.offset => s.buf[o] = r.buf[o]
    BY <1>1, <1>2, <1>3, RowsConstants DEF Waterfall!Image
  <1>8. (s.done => s.filled >= Chunks) /\ (~s.done => s.filled < Chunks)
    <2>1. CASE c.finite
      <3>1. s.filled = r.filled + 1 /\ (s.done <=> r.filled + 1 >= Chunks)
        BY <1>3, <2>1
      <3>2. QED
        BY <1>2, <3>1, RowsConstants
    <2>2. CASE ~c.finite
      <3>1. s.filled = r.filled /\ ~s.done
        BY <1>3, <2>2
      <3>2. QED
        BY <1>2, <3>1
    <2>3. QED
      BY <2>1, <2>2
  <1>9. OfItsRows(s)
    <2>1. ASSUME NEW o \in Waterfall!Offsets, s.buf[o] # None
          PROVE  s.buf[o] \in s.from /\ IsSent(s.buf[o], o)
      <3>1. CASE o = c.offset
        BY <1>3, <1>7, <3>1
      <3>2. CASE o # c.offset
        <4>1. s.buf[o] = r.buf[o] /\ r.buf[o] # None
          BY <1>7, <2>1, <3>2
        <4>2. r.buf[o] \in r.from /\ IsSent(r.buf[o], o)
          BY <4>1 DEF OfItsRows
        <4>3. QED
          BY <1>3, <4>1, <4>2
      <3>3. QED
        BY <3>1, <3>2
    <2>2. \A x \in s.from : Waterfall!RowSeq(x) = s.seq
      BY <1>3 DEF OfItsRows
    <2>3. QED
      BY <1>8, <2>1, <2>2 DEF OfItsRows
  <1>19. SUFFICES ASSUME OneRow(s)
                  PROVE  Cardinality(Waterfall!Holes(s.buf)) + s.filled
                           + Cardinality(Again(s, left)) <= Chunks + m
    BY <1>3, <1>6, <1>8, <1>9 DEF HolesCounted, left, m, s
  <1>20. s.from = {c.row} /\ OneRow(r)
    BY <1>3, <1>19 DEF OneRow
  <1>21. \A o \in Waterfall!Offsets : r.buf[o] # None => r.from = {c.row}
    <2>1. \A o \in Waterfall!Offsets : r.buf[o] # None => r.buf[o] \in r.from
      BY DEF OfItsRows
    <2>2. QED
      BY <1>3, <1>20, <2>1
  <1> HIDE DEF left, m
  <1>10. /\ Waterfall!Holes(s.buf) = Waterfall!Holes(r.buf) \ {c.offset}
         /\ Waterfall!Holes(r.buf) \in SUBSET Waterfall!Offsets
         /\ Again(r, chunks) \in SUBSET Waterfall!Offsets
         /\ Again(s, left) \in SUBSET Waterfall!Offsets
    BY <1>1, <1>7 DEF Waterfall!Holes, Again
  <1>11. /\ IsFiniteSet(Waterfall!Holes(r.buf)) /\ Cardinality(Waterfall!Holes(r.buf)) \in Nat
         /\ IsFiniteSet(Again(r, chunks)) /\ Cardinality(Again(r, chunks)) \in Nat
         /\ IsFiniteSet(Again(s, left)) /\ Cardinality(Again(s, left)) \in Nat
    BY <1>10, OffsetsFinite
  <1>12. Cardinality(Waterfall!Holes(r.buf)) + r.filled + Cardinality(Again(r, chunks)) <= Chunks + k
    BY <1>20 DEF HolesCounted
  <1>13. s.filled \in {r.filled, r.filled + 1}
    BY <1>3
  <1>14. again => left = chunks /\ m = k + 1
    BY DEF left, m
  <1>15. ~again => left = chunks \ {c} /\ m = k
    BY DEF left, m
  <1>16. CASE r.buf[c.offset] = None
    <2>1. c.offset \in Waterfall!Holes(r.buf)
      BY <1>1, <1>16 DEF Waterfall!Holes
    <2>2. Cardinality(Waterfall!Holes(s.buf)) = Cardinality(Waterfall!Holes(r.buf)) - 1
      BY <1>10, <1>11, <2>1, CardinalityMinus
    <2>3. c.offset \notin Again(r, chunks)
      BY <1>16 DEF Again
    <2>4. CASE again
      <3>1. Again(s, left) = Again(r, chunks) \cup {c.offset}
        BY <1>1, <1>3, <1>7, <1>14, <1>16, <1>20, <1>21, <2>4 DEF Again
      <3>2. Cardinality(Again(s, left)) \in
              {Cardinality(Again(r, chunks)), Cardinality(Again(r, chunks)) + 1}
        BY <1>11, <3>1, CardinalityPlus
      <3>3. QED
        BY <1>2, <1>11, <1>12, <1>13, <1>14, <2>2, <2>4, <3>2, RowsConstants
    <2>5. CASE ~again
      <3>1. Again(s, left) \subseteq Again(r, chunks)
        <4>1. SUFFICES ASSUME NEW o \in Again(s, left)
                       PROVE  o \in Again(r, chunks)
          OBVIOUS
        <4>2. PICK d \in left : d.row = c.row /\ d.offset = o
          BY <1>20, <4>1 DEF Again
        <4>3. d \in chunks /\ d # c /\ o \in Waterfall!Offsets /\ s.buf[o] # None
          BY <1>15, <2>5, <4>1 DEF Again
        <4>4. o # c.offset
          BY <1>3, <4>2, <4>3
        <4>5. QED
          BY <1>7, <1>21, <4>2, <4>3, <4>4 DEF Again
      <3>2. Cardinality(Again(s, left)) <= Cardinality(Again(r, chunks))
        BY <1>11, <3>1, FS_Subset
      <3>3. QED
        BY <1>2, <1>11, <1>12, <1>13, <1>15, <2>2, <2>5, <3>2, RowsConstants
    <2>6. QED
      BY <2>4, <2>5
  <1>17. CASE r.buf[c.offset] # None
    <2>1. Waterfall!Holes(s.buf) = Waterfall!Holes(r.buf)
      BY <1>10, <1>17 DEF Waterfall!Holes
    <2>2. c.offset \in Again(r, chunks)
      BY <1>1, <1>17, <1>21 DEF Again
    <2>3. CASE again
      <3>1. Again(s, left) = Again(r, chunks)
        BY <1>1, <1>3, <1>7, <1>14, <1>17, <1>20, <1>21, <2>3 DEF Again
      <3>2. QED
        BY <1>2, <1>11, <1>12, <1>13, <1>14, <2>1, <2>3, <3>1, RowsConstants
    <2>4. CASE ~again
      <3>1. Again(s, left) \subseteq Again(r, chunks) \ {c.offset}
        <4>1. SUFFICES ASSUME NEW o \in Again(s, left)
                       PROVE  o \in Again(r, chunks) /\ o # c.offset
          OBVIOUS
        <4>2. PICK d \in left : d.row = c.row /\ d.offset = o
          BY <1>20, <4>1 DEF Again
        <4>3. d \in chunks /\ d # c /\ o \in Waterfall!Offsets /\ s.buf[o] # None
          BY <1>15, <2>4, <4>1 DEF Again
        <4>4. o # c.offset
          BY <1>3, <4>2, <4>3
        <4>5. QED
          BY <1>7, <1>21, <4>2, <4>3, <4>4 DEF Again
      <3>2. /\ Cardinality(Again(r, chunks) \ {c.offset}) = Cardinality(Again(r, chunks)) - 1
            /\ IsFiniteSet(Again(r, chunks) \ {c.offset})
        BY <1>11, <2>2, CardinalityMinus
      <3>3. Cardinality(Again(s, left)) <= Cardinality(Again(r, chunks)) - 1
        BY <3>1, <3>2, FS_Subset
      <3>4. QED
        BY <1>2, <1>11, <1>12, <1>13, <1>15, <2>1, <2>4, <3>3, RowsConstants
    <2>5. QED
      BY <2>3, <2>4
  <1>18. QED
    BY <1>16, <1>17

\* A row emitted was not mixed from rows the ids tell apart, and one of one row has no
\* more holes than there were repeats.
LEMMA EmittedWhole ==
    ASSUME NEW s \in Waterfall!Reassembly, OfItsRows(s), NEW chunks, NEW k \in Nat,
           HolesCounted(s, chunks, k), s.filled >= Chunks
    PROVE  /\ \A x, y \in s.from : x = y \/ Waterfall!Far(x, y)
           /\ OneRow(s) => Cardinality(Waterfall!Holes(s.buf)) <= k
  <1>1. ASSUME NEW x \in s.from, NEW y \in s.from
        PROVE  x = y \/ Waterfall!Far(x, y)
    <2>1. x \in Waterfall!RowNumbers /\ y \in Waterfall!RowNumbers
      BY DEF Waterfall!Reassembly
    <2>2. Waterfall!RowSeq(x) = Waterfall!RowSeq(y)
      BY DEF OfItsRows
    <2>3. QED
      BY <2>1, <2>2, RowSeqTellsApart
  <1>2. /\ Waterfall!Holes(s.buf) \in SUBSET Waterfall!Offsets
        /\ Again(s, chunks) \in SUBSET Waterfall!Offsets
    BY DEF Waterfall!Holes, Again
  <1>3. Cardinality(Waterfall!Holes(s.buf)) \in Nat /\ Cardinality(Again(s, chunks)) \in Nat
    BY <1>2, OffsetsFinite
  <1>4. s.filled \in Nat
    BY RowsConstants DEF Waterfall!Reassembly
  <1>5. OneRow(s) => Cardinality(Waterfall!Holes(s.buf)) <= k
    BY <1>3, <1>4, RowsConstants DEF HolesCounted
  <1>6. QED
    BY <1>1, <1>5

\* A chunk delivered: of the row at hand, of another, or too late.
LEMMA DeliverInv == RowsInv /\ Waterfall!Deliver => RowsInv'
  <1> SUFFICES ASSUME RowsInv, Waterfall!Deliver PROVE RowsInv'
    OBVIOUS
  <1>1. PICK c \in net, again \in BOOLEAN :
          /\ again => repeats < MaxRepeats
          /\ repeats' = (IF again THEN repeats + 1 ELSE repeats)
          /\ net' = (IF again THEN net ELSE net \ {c})
          /\ reasm' = Waterfall!Taken(reasm, c)
          /\ shown' = (IF reasm'.done /\ ~(reasm.done /\ reasm.seq = reasm'.seq)
                       THEN reasm' ELSE shown)
          /\ sent' = sent
    BY DEF Waterfall!Deliver
  <1> DEFINE r == Waterfall!ForRowOf(reasm, c)
             s == Written(r, c)
  <1>2. reasm' = IF r.done THEN r ELSE s
    BY <1>1 DEF Waterfall!Taken, Written
  <1>3. /\ c \in Waterfall!Chunk /\ c.row \in Waterfall!RowNumbers
        /\ net \subseteq Waterfall!Chunk /\ reasm \in Waterfall!Reassembly
        /\ repeats \in 0 .. MaxRepeats /\ repeats \in Nat
        /\ shown \in Waterfall!Reassembly \union {None}
        /\ OfItsRows(reasm) /\ HolesCounted(reasm, net, repeats) /\ SentOnce
    <2>1. /\ net \subseteq Waterfall!Chunk /\ reasm \in Waterfall!Reassembly
          /\ repeats \in 0 .. MaxRepeats /\ shown \in Waterfall!Reassembly \union {None}
      BY RowsTypes DEF RowsInv
    <2>2. QED
      BY <1>1, <2>1, RowsConstants DEF RowsInv, Waterfall!Chunk
  <1>4. /\ r \in Waterfall!Reassembly /\ r.seq = Waterfall!RowSeq(c.row)
        /\ OfItsRows(r) /\ HolesCounted(r, net, repeats)
        /\ r.done => r = reasm
    <2>1. Waterfall!RowSeq(c.row) \in 0 .. RowIds - 1
      BY <1>3, RowSeqType
    <2>2. CASE reasm.seq = Waterfall!RowSeq(c.row)
      <3>1. r = reasm
        BY <2>2 DEF Waterfall!ForRowOf
      <3>2. QED
        BY <1>3, <2>2, <3>1
    <2>3. CASE reasm.seq # Waterfall!RowSeq(c.row)
      <3>1. r = [seq |-> Waterfall!RowSeq(c.row), buf |-> Waterfall!Blank, filled |-> 0,
                 done |-> FALSE, from |-> {}]
        BY <2>3 DEF Waterfall!ForRowOf, Waterfall!Fresh
      <3>2. Waterfall!Blank \in Waterfall!Image
        BY DEF Waterfall!Blank, Waterfall!Image
      <3>3. r \in Waterfall!Reassembly
        BY <2>1, <3>1, <3>2, RowsConstants DEF Waterfall!Reassembly
      <3>4. OfItsRows(r) /\ HolesCounted(r, net, repeats)
        BY <1>3, <3>1, <3>3, BlankCounted
      <3>5. QED
        BY <3>1, <3>3, <3>4
    <2>4. QED
      BY <2>2, <2>3
  <1> HIDE DEF r
  <1>5. SentOnce'
    BY <1>1, <1>3 DEF SentOnce, IsSent
  <1>6. repeats' \in 0 .. MaxRepeats /\ repeats' \in Nat
        /\ repeats' = (IF again THEN repeats + 1 ELSE repeats)
    BY <1>1, <1>3, RowsConstants
  <1>7. /\ reasm' \in Waterfall!Reassembly /\ OfItsRows(reasm') /\ HolesCounted(reasm', net', repeats')
        /\ reasm'.done /\ ~(reasm.done /\ reasm.seq = reasm'.seq)
             => reasm'.filled >= Chunks
    <2>1. CASE r.done
      <3>1. reasm' = r /\ r = reasm
        BY <1>2, <1>4, <2>1
      <3>2. HolesCounted(r, net', repeats')
        <4>1. /\ Waterfall!Holes(r.buf) \in SUBSET Waterfall!Offsets
              /\ Again(r, net) \in SUBSET Waterfall!Offsets
              /\ Again(r, net') \subseteq Again(r, net)
          BY <1>1 DEF Waterfall!Holes, Again
        <4>2. /\ Cardinality(Again(r, net')) <= Cardinality(Again(r, net))
              /\ Cardinality(Waterfall!Holes(r.buf)) \in Nat /\ Cardinality(Again(r, net)) \in Nat
              /\ Cardinality(Again(r, net')) \in Nat
          BY <4>1, OffsetsFinite, FS_Subset
        <4>3. r.filled \in Nat
          BY <1>4, RowsConstants DEF Waterfall!Reassembly
        <4>4. repeats <= repeats'
          BY <1>3, <1>6
        <4>5. QED
          BY <1>3, <1>4, <1>6, <4>2, <4>3, <4>4, RowsConstants DEF HolesCounted
      <3>3. QED
        BY <1>4, <2>1, <3>1, <3>2
    <2>2. CASE ~r.done
      <3>1. reasm' = s
        BY <1>2, <2>2
      <3>2. IsSent(c.row, c.offset)
        BY <1>1, <1>3 DEF SentOnce
      <3>3. \A d, e \in net : d.row = e.row /\ d.offset = e.offset => d = e
        BY <1>3 DEF SentOnce
      <3>4. /\ s \in Waterfall!Reassembly /\ s.seq = r.seq /\ OfItsRows(s)
            /\ HolesCounted(s, IF again THEN net ELSE net \ {c},
                            IF again THEN repeats + 1 ELSE repeats)
            /\ s.done => s.filled >= Chunks
        BY <1>1, <1>3, <1>4, <2>2, <3>2, <3>3, ChunkWritten
      <3>5. QED
        BY <1>1, <1>6, <3>1, <3>4
    <2>3. QED
      BY <2>1, <2>2
  <1>8. shown' \in Waterfall!Reassembly \union {None}
    BY <1>1, <1>3, <1>7
  <1>9. Waterfall!TypeOK' /\ (sent.before + sent.chunks <= SentRows * Chunks)'
    <2>1. net' \subseteq Waterfall!Chunk
      BY <1>1, <1>3
    <2>2. /\ sent' \in [sender : 1 .. Senders, chunks : 0 .. SentRows * Chunks,
                        before : 0 .. SentRows * Chunks]
          /\ sent'.before + sent'.chunks <= SentRows * Chunks
      BY <1>1, RowsTypes DEF RowsInv
    <2>3. QED
      BY <1>6, <1>7, <1>8, <2>1, <2>2, RowsTypesNext
  <1>10. OfItsRows(reasm)'
    BY <1>1, <1>7 DEF OfItsRows, IsSent
  <1>11. HolesCounted(reasm, net, repeats)'
    BY <1>7 DEF HolesCounted, OneRow, Waterfall!Holes, Again
  <1>12. Waterfall!RowsWhole'
    <2>1. SUFFICES ASSUME shown' # None
                   PROVE  /\ \A x, y \in shown'.from : x = y \/ Waterfall!Far(x, y)
                          /\ OneRow(shown') => Cardinality(Waterfall!Holes(shown'.buf)) <= repeats'
      BY Zenon, WaterfallCardinality
      DEF Waterfall!RowsWhole, Waterfall!NotMixed, Waterfall!HolesRepeated, OneRow
    <2>2. CASE reasm'.done /\ ~(reasm.done /\ reasm.seq = reasm'.seq)
      <3>1. /\ \A x, y \in reasm'.from : x = y \/ Waterfall!Far(x, y)
            /\ OneRow(reasm') => Cardinality(Waterfall!Holes(reasm'.buf)) <= repeats'
        BY <1>6, <1>7, <2>2, EmittedWhole
      <3>2. shown' = reasm'
        BY <1>1, <2>2
      <3>3. QED
        BY <3>1, <3>2
    <2>3. CASE ~(reasm'.done /\ ~(reasm.done /\ reasm.seq = reasm'.seq))
      <3>1. shown' = shown /\ repeats <= repeats' /\ shown # None
        BY <1>1, <1>3, <1>6, <2>1, <2>3
      <3>2. Waterfall!Holes(shown.buf) \in SUBSET Waterfall!Offsets
        BY DEF Waterfall!Holes
      <3>3. Cardinality(Waterfall!Holes(shown.buf)) \in Nat
        BY <3>2, OffsetsFinite
      <3>4. Waterfall!RowsWhole
        BY DEF RowsInv
      <3>5. /\ \A x, y \in shown.from : x = y \/ Waterfall!Far(x, y)
            /\ OneRow(shown) => Cardinality(Waterfall!Holes(shown.buf)) <= repeats
        BY <3>1, <3>4, Zenon, WaterfallCardinality
        DEF Waterfall!RowsWhole, Waterfall!NotMixed, Waterfall!HolesRepeated, OneRow
      <3>6. OneRow(shown) => Cardinality(Waterfall!Holes(shown.buf)) <= repeats'
        BY <1>3, <1>6, <3>1, <3>3, <3>5
      <3>7. QED
        BY <3>1, <3>5, <3>6
    <2>4. QED
      BY <2>2, <2>3
  <1>13. QED
    BY <1>5, <1>9, <1>10, <1>11, <1>12 DEF RowsInv

\* Every step keeps the invariant of the rows.
LEMMA RowsNextInv == RowsInv /\ Waterfall!Next => RowsInv'
  BY SendChunkInv, NextSenderInv, DeliverInv DEF Waterfall!Next

-----------------------------------------------------------------------------
(* Receive audio: RxAudio.                                                  *)

\* A jitter buffer with nothing behind the playout position.
Ahead(b) == b.started => \A q \in b.pending : q >= b.next

Sound(b) == b \in Audio!Buffer /\ Ahead(b)

\* Besides, no more events were heard than sessions began and ended.
AudioInv ==
    /\ Audio!TypeOK /\ Audio!NoPacketBehind
    /\ IF worker.on THEN audioEvents + gen + 1 <= 2 * worker.session
       ELSE audioEvents + gen <= 2 * worker.session

\* What is assumed of the constants.
LEMMA AudioConstants ==
    /\ PacketSamples \in Nat \ {0} /\ TargetSamples \in Nat /\ TargetSamples >= PacketSamples
    /\ MaxSamples \in Nat /\ TrimSamples \in Nat /\ PopSizes \subseteq Nat
    /\ Sessions \in Nat /\ Packets \in Nat
  BY PartsAssumption DEF PartsAssumption, Audio!JitterAssumption

\* Sequence numbers are numbers.
LEMMA SequencesAreNumbers == Audio!Sequences \subseteq Nat
  BY AudioConstants DEF Audio!Sequences

\* Cardinality, by the name it has in the instance.
LEMMA AudioCardinality ==
    \A S : Audio!Cardinality(S) = Cardinality(S)
  BY Zenon DEF Audio!Cardinality, Cardinality

\* The packet that is first in the buffer.
LEMMA FirstPending ==
    ASSUME NEW P \in SUBSET Audio!Sequences, P # {}
    PROVE  Audio!Min(P) \in P /\ Audio!Min(P) \in Nat /\ \A q \in P : Audio!Min(P) <= q
  <1>1. P \subseteq Nat
    BY SequencesAreNumbers
  <1>2. \E x \in P : \A y \in P : x <= y
    BY <1>1, LeastElement
  <1>3. Audio!Min(P) \in P /\ \A q \in P : Audio!Min(P) <= q
    BY <1>2, Zenon DEF Audio!Min
  <1>4. QED
    BY <1>1, <1>3

\* A turn of fill_playout keeps a buffer sound.
LEMMA TurnSound ==
    ASSUME NEW b, Sound(b), b.started
    PROVE  Sound(Audio!FillTurn(b)) /\ Audio!FillTurn(b).started
  <1>1. /\ b \in Audio!Buffer /\ b.next \in Nat /\ b.playout \in Nat /\ b.conceals \in 0 .. 2
        /\ b.pending \in SUBSET Audio!Sequences
        /\ \A q \in b.pending : q \in Nat /\ q >= b.next
    BY SequencesAreNumbers DEF Sound, Ahead, Audio!Buffer
  <1>2. CASE b.next \in b.pending
    <2> DEFINE played == [b EXCEPT !.pending = @ \ {b.next}, !.playout = @ + PacketSamples,
                                   !.next = @ + 1, !.conceals = 0]
    <2>1. Audio!FillTurn(b) = played
      BY <1>2 DEF Audio!FillTurn
    <2>2. /\ played.started = b.started /\ played.next = b.next + 1
          /\ played.pending = b.pending \ {b.next}
      BY <1>1 DEF Audio!Buffer
    <2>3. b.playout + PacketSamples \in Nat /\ b.next + 1 \in Nat /\ 0 \in 0 .. 2
      BY <1>1, AudioConstants
    <2>4. played \in Audio!Buffer
      BY <1>1, <2>3 DEF Audio!Buffer
    <2>5. \A q \in b.pending \ {b.next} : q >= b.next + 1
      BY <1>1
    <2>6. QED
      BY <2>1, <2>2, <2>4, <2>5 DEF Sound, Ahead
  <1>3. CASE b.next \notin b.pending /\ b.pending # {} /\ Audio!Min(b.pending) > b.next
    <2> DEFINE first == Audio!Min(b.pending)
               moved == [b EXCEPT !.playout = @ + PacketSamples, !.next = @ + 1,
                                  !.conceals = @ + 1]
               after == IF moved.conceals >= 3
                        THEN [moved EXCEPT !.next = first, !.conceals = 0]
                        ELSE moved
    <2>1. Audio!FillTurn(b) = after
      BY <1>3 DEF Audio!FillTurn, Audio!Conceal
    <2>2. first \in Nat /\ first > b.next /\ \A q \in b.pending : first <= q
      BY <1>1, <1>3, FirstPending
    <2> HIDE DEF first
    <2>3. b.playout + PacketSamples \in Nat /\ b.next + 1 \in Nat /\ 0 \in 0 .. 2
      BY <1>1, AudioConstants
    <2>4. CASE b.conceals + 1 >= 3
      <3>1. after = [b EXCEPT !.playout = b.playout + PacketSamples, !.next = first,
                              !.conceals = 0]
        BY <1>1, <2>4 DEF Audio!Buffer
      <3>2. after.started = b.started /\ after.next = first /\ after.pending = b.pending
        BY <1>1, <3>1 DEF Audio!Buffer
      <3>3. after \in Audio!Buffer
        BY <1>1, <2>2, <2>3, <3>1 DEF Audio!Buffer
      <3>4. QED
        BY <2>1, <2>2, <3>2, <3>3, <1>1 DEF Sound, Ahead
    <2>5. CASE ~(b.conceals + 1 >= 3)
      <3>1. after = moved /\ b.conceals + 1 \in 0 .. 2
        BY <1>1, <2>5 DEF Audio!Buffer
      <3>2. moved.started = b.started /\ moved.next = b.next + 1 /\ moved.pending = b.pending
        BY <1>1 DEF Audio!Buffer
      <3>3. moved \in Audio!Buffer
        BY <1>1, <2>3, <3>1 DEF Audio!Buffer
      <3>4. \A q \in b.pending : q >= b.next + 1
        BY <1>1, <2>2
      <3>5. QED
        BY <2>1, <3>1, <3>2, <3>3, <3>4 DEF Sound, Ahead
    <2>6. QED
      BY <2>4, <2>5
  <1>4. CASE b.next \notin b.pending /\ ~(b.pending # {} /\ Audio!Min(b.pending) > b.next)
    <2>1. Audio!FillTurn(b) = b
      BY <1>4 DEF Audio!FillTurn
    <2>2. QED
      BY <2>1
  <1>5. QED
    BY <1>2, <1>3, <1>4

\* The loop of fill_playout: the buffers it may stand at after each turn.
Turned(s) == IF s.playout < TargetSamples THEN Audio!FillTurn(s) ELSE s
TurnsFrom(b, f, k) ==
    f = [n \in 0 .. k |-> IF n = 0 THEN {b} ELSE {Turned(s) : s \in f[n - 1]}]

\* There is such a function for every number of turns.
LEMMA TurnsExist ==
    ASSUME NEW b, NEW k \in Nat
    PROVE  \E f : TurnsFrom(b, f, k)
  <1> DEFINE Missing == {n \in Nat : ~ \E f : TurnsFrom(b, f, n)}
  <1>1. SUFFICES ASSUME k \in Missing PROVE FALSE
    OBVIOUS
  <1>2. PICK least \in Missing : \A n \in Missing : least <= n
    <2>1. Missing \subseteq Nat /\ Missing # {}
      BY <1>1
    <2> HIDE DEF Missing
    <2>2. QED
      BY <2>1, LeastElement
  <1>3. CASE least = 0
    <2> DEFINE f == [n \in 0 .. 0 |-> {b}]
    <2>1. TurnsFrom(b, f, 0)
      BY DEF TurnsFrom
    <2>2. QED
      BY <1>2, <1>3, <2>1
  <1>4. CASE least # 0
    <2>1. least - 1 \in Nat /\ least - 1 \notin Missing
      BY <1>2, <1>4
    <2>2. PICK f : TurnsFrom(b, f, least - 1)
      BY <2>1
    <2> DEFINE g == [n \in 0 .. least |-> IF n = least THEN {Turned(s) : s \in f[n - 1]}
                                          ELSE f[n]]
    <2>3. least \in Nat
      OBVIOUS
    <2>4. ASSUME NEW n \in 0 .. least
          PROVE  g[n] = IF n = 0 THEN {b} ELSE {Turned(s) : s \in g[n - 1]}
      <3>1. CASE n = 0
        <4>1. g[n] = f[n] /\ n \in 0 .. least - 1
          BY <1>4, <2>3, <3>1
        <4>2. f[n] = {b}
          BY <2>2, <3>1, <4>1 DEF TurnsFrom
        <4>3. QED
          BY <3>1, <4>1, <4>2
      <3>2. CASE n # 0 /\ n # least
        <4>1. n - 1 \in 0 .. least /\ n - 1 # least /\ n \in 0 .. least - 1
          BY <2>3, <3>2
        <4>2. g[n] = f[n] /\ g[n - 1] = f[n - 1]
          BY <3>2, <4>1
        <4>3. f[n] = {Turned(s) : s \in f[n - 1]}
          BY <2>2, <3>2, <4>1 DEF TurnsFrom
        <4>4. QED
          BY <3>2, <4>2, <4>3
      <3>3. CASE n = least
        <4>1. n - 1 \in 0 .. least /\ n - 1 # least /\ n # 0
          BY <1>4, <2>3, <3>3
        <4>2. g[n] = {Turned(s) : s \in f[n - 1]} /\ g[n - 1] = f[n - 1]
          BY <3>3, <4>1
        <4>3. QED
          BY <4>1, <4>2
      <3>4. QED
        BY <3>1, <3>2, <3>3
    <2>5. TurnsFrom(b, g, least)
      <3>1. g = [n \in 0 .. least |-> g[n]]
        OBVIOUS
      <3> HIDE DEF g
      <3>2. QED
        BY <2>4, <3>1 DEF TurnsFrom
    <2>6. QED
      BY <1>2, <2>5
  <1>5. QED
    BY <1>3, <1>4

\* All its buffers are sound, and there is one.
LEMMA TurnsSound ==
    ASSUME NEW b, Sound(b), b.started, NEW k \in Nat, NEW f, TurnsFrom(b, f, k)
    PROVE  f[k] # {} /\ \A s \in f[k] : Sound(s) /\ s.started
  <1> DEFINE Good(n) == f[n] # {} /\ \A s \in f[n] : Sound(s) /\ s.started
             Bad == {n \in 0 .. k : ~Good(n)}
  <1>1. SUFFICES ASSUME Bad # {} PROVE FALSE
    OBVIOUS
  <1>2. PICK least \in Bad : \A n \in Bad : least <= n
    <2>1. Bad \subseteq Nat
      OBVIOUS
    <2> HIDE DEF Bad
    <2>2. QED
      BY <1>1, <2>1, LeastElement
  <1>3. f[least] = IF least = 0 THEN {b} ELSE {Turned(s) : s \in f[least - 1]}
    <2>1. least \in 0 .. k
      OBVIOUS
    <2> HIDE DEF Bad
    <2>2. QED
      BY <2>1 DEF TurnsFrom
  <1>4. CASE least = 0
    <2>1. Good(least)
      BY <1>3, <1>4
    <2>2. QED
      BY <2>1
  <1>5. CASE least # 0
    <2>1. least - 1 \in 0 .. k /\ least - 1 \notin Bad
      BY <1>2, <1>5
    <2>2. Good(least - 1)
      BY <2>1
    <2>3. \A s \in f[least - 1] : Sound(Turned(s)) /\ Turned(s).started
      BY <2>2, TurnSound DEF Turned
    <2>4. Good(least)
      BY <1>3, <1>5, <2>2, <2>3
    <2>5. QED
      BY <2>4
  <1>6. QED
    BY <1>4, <1>5

\* fill_playout keeps a buffer sound.
LEMMA FilledSound ==
    ASSUME NEW b, Sound(b)
    PROVE  Sound(Audio!Filled(b)) /\ Audio!Filled(b).started = b.started
  <1> DEFINE after[n \in 0 .. Audio!Turns] ==
               IF n = 0 THEN {b}
               ELSE {IF s.playout < TargetSamples THEN Audio!FillTurn(s) ELSE s
                       : s \in after[n - 1]}
  <1>1. Audio!Filled(b) = IF b.started THEN CHOOSE s \in after[Audio!Turns] : TRUE ELSE b
    BY DEF Audio!Filled
  <1>2. Audio!Turns \in Nat
    BY AudioConstants DEF Audio!Turns
  <1>3. TurnsFrom(b, after, Audio!Turns)
    <2>1. \E f : TurnsFrom(b, f, Audio!Turns)
      BY <1>2, TurnsExist
    <2>2. QED
      BY <2>1, Zenon DEF TurnsFrom, Turned
  <1> HIDE DEF after
  <1>4. CASE b.started
    <2>1. /\ after[Audio!Turns] # {}
          /\ \A s \in after[Audio!Turns] : Sound(s) /\ s.started
      BY <1>2, <1>3, <1>4, TurnsSound
    <2>2. Audio!Filled(b) \in after[Audio!Turns]
      BY <1>1, <1>4, <2>1
    <2>3. QED
      BY <1>4, <2>1, <2>2 DEF Sound, Audio!Buffer
  <1>5. CASE ~b.started
    BY <1>1, <1>5
  <1>6. QED
    BY <1>4, <1>5
\* A packet pushed, played or dropped, keeps a buffer sound.
LEMMA PushedSound ==
    ASSUME NEW b, Sound(b), NEW q \in Audio!Sequences
    PROVE  Sound(Audio!Pushed(b, q))
  <1> DEFINE with == [b EXCEPT !.pending = @ \union {q}]
  <1>1. /\ b \in Audio!Buffer /\ b.next \in Nat /\ q \in Nat
        /\ b.pending \in SUBSET Audio!Sequences
        /\ b.started => \A p \in b.pending : p >= b.next
    BY SequencesAreNumbers DEF Sound, Ahead, Audio!Buffer
  <1>2. CASE Audio!TooLate(b, q) \/ Audio!Buffered(b) >= MaxSamples
    BY <1>2 DEF Audio!Pushed
  <1>3. CASE ~(Audio!TooLate(b, q) \/ Audio!Buffered(b) >= MaxSamples)
    <2>1. /\ with \in Audio!Buffer /\ with.started = b.started /\ with.next = b.next
          /\ with.pending = b.pending \union {q}
      BY <1>1 DEF Audio!Buffer
    <2>2. b.started => q >= b.next
      BY <1>1, <1>3 DEF Audio!TooLate
    <2>3. Sound(with)
      BY <1>1, <2>1, <2>2 DEF Sound, Ahead
    <2> HIDE DEF with
    <2>4. Sound(Audio!Started(with))
      <3>1. CASE ~with.started /\ Audio!CanStart(with)
        <4> DEFINE begun == [with EXCEPT !.started = TRUE, !.next = Audio!Min(with.pending)]
        <4>1. with.pending # {} /\ with.pending \in SUBSET Audio!Sequences
          BY <1>1, <2>1
        <4>2. /\ Audio!Min(with.pending) \in Nat
              /\ \A p \in with.pending : p \in Nat /\ Audio!Min(with.pending) <= p
          BY <4>1, FirstPending, SequencesAreNumbers
        <4>3. /\ begun \in Audio!Buffer /\ begun.next = Audio!Min(with.pending)
              /\ begun.pending = with.pending
          BY <2>1, <4>2 DEF Audio!Buffer
        <4>4. Audio!Started(with) = begun
          BY <3>1 DEF Audio!Started
        <4>5. \A p \in begun.pending : p >= begun.next
          BY <4>2, <4>3
        <4>6. QED
          BY <4>3, <4>4, <4>5 DEF Sound, Ahead
      <3>2. CASE ~(~with.started /\ Audio!CanStart(with))
        BY <2>3, <3>2 DEF Audio!Started
      <3>3. QED
        BY <3>1, <3>2
    <2>5. Audio!Pushed(b, q) = Audio!Filled(Audio!Started(with))
      BY <1>3 DEF Audio!Pushed, with
    <2>6. QED
      BY <2>4, <2>5, FilledSound
  <1>4. QED
    BY <1>2, <1>3

\* What is left is never less than nothing.
LEMMA LessIsNumber ==
    ASSUME NEW m \in Nat, NEW n \in Nat
    PROVE  Audio!Less(m, n) \in Nat
  BY DEF Audio!Less

\* The drift correction trims a number of samples.
LEMMA TrimIsNumber ==
    ASSUME NEW len \in Nat
    PROVE  Audio!Trim(len) \in Nat
  <1>1. /\ PacketSamples \div 4 \in Nat /\ PacketSamples \div 2 \in Nat
        /\ TargetSamples + PacketSamples \div 2 \in Nat /\ TrimSamples \in Nat
        /\ TargetSamples \in Nat
    BY AudioConstants
  <1>2. Audio!Less(len, TargetSamples + PacketSamples \div 2) \in Nat
    BY <1>1, LessIsNumber
  <1>3. CASE len <= TargetSamples
    BY <1>1, <1>2, <1>3 DEF Audio!Trim
  <1>4. CASE ~(len <= TargetSamples)
    BY <1>1, <1>2, <1>4, AudioConstants DEF Audio!Trim
  <1>5. QED
    BY <1>3, <1>4

\* What the audio callback takes leaves it sound.
LEMMA PoppedSound ==
    ASSUME NEW b, Sound(b), NEW n \in Nat
    PROVE  Sound(Audio!Popped(b, n))
  <1> DEFINE full == Audio!Filled(b)
             left == Audio!Less(Audio!Less(full.playout, Audio!Trim(full.playout)), n)
  <1>1. Sound(full)
    BY FilledSound
  <1> HIDE DEF full
  <1>2. full \in Audio!Buffer /\ full.playout \in Nat
    BY <1>1 DEF Sound, Audio!Buffer
  <1>3. left \in Nat
    BY <1>2, TrimIsNumber, LessIsNumber
  <1>4. Audio!Popped(b, n) = IF ~b.started THEN b ELSE [full EXCEPT !.playout = left]
    BY DEF Audio!Popped, full
  <1> HIDE DEF left
  <1>5. Sound([full EXCEPT !.playout = left])
    <2>1. [full EXCEPT !.playout = left] \in Audio!Buffer
      BY <1>2, <1>3 DEF Audio!Buffer
    <2>2. /\ [full EXCEPT !.playout = left].started = full.started
          /\ [full EXCEPT !.playout = left].next = full.next
          /\ [full EXCEPT !.playout = left].pending = full.pending
      BY <1>2 DEF Audio!Buffer
    <2>3. QED
      BY <1>1, <2>1, <2>2 DEF Sound, Ahead
  <1>6. QED
    BY <1>4, <1>5

\* The server's state, of its types.
Worker == [session : 0 .. Sessions, on : BOOLEAN, next : 0 .. Packets]

\* What TypeOK and NoPacketBehind ask for.
LEMMA AudioTypes ==
    ASSUME Audio!TypeOK, Audio!NoPacketBehind
    PROVE  /\ worker \in Worker /\ audioNet \subseteq Audio!Datagram
           /\ audioEvents \in 0 .. 2 * Sessions /\ gen \in 0 .. 2 * Sessions
           /\ seen \in 0 .. gen /\ audioPhase \in {"check", "recv"} /\ Sound(jb)
  BY DEF Audio!TypeOK, Audio!NoPacketBehind, Worker, Sound, Ahead

\* They hold of the next state when its variables have their types.
LEMMA AudioTypesNext ==
    ASSUME worker' \in Worker, audioNet' \subseteq Audio!Datagram,
           audioEvents' \in 0 .. 2 * Sessions, gen' \in 0 .. 2 * Sessions,
           seen' \in 0 .. gen', audioPhase' \in {"check", "recv"}, Sound(jb')
    PROVE  Audio!TypeOK' /\ Audio!NoPacketBehind'
  BY DEF Audio!TypeOK, Audio!NoPacketBehind, Worker, Sound, Ahead

\* Both sides start with nothing.
LEMMA AudioInitInv == Audio!Init => AudioInv
  <1> SUFFICES ASSUME Audio!Init PROVE AudioInv
    OBVIOUS
  <1>1. /\ worker = [session |-> 0, on |-> FALSE, next |-> 0] /\ audioNet = {}
        /\ audioEvents = 0 /\ gen = 0 /\ seen = 0 /\ audioPhase = "check"
        /\ jb = Audio!EmptyBuffer
    BY DEF Audio!Init
  <1>2. jb \in Audio!Buffer /\ ~jb.started
    BY <1>1 DEF Audio!EmptyBuffer, Audio!Buffer
  <1>3. 0 \in 0 .. Sessions /\ 0 \in 0 .. 2 * Sessions /\ 0 \in 0 .. Packets /\ 0 \in 0 .. 0
    BY AudioConstants
  <1>4. Audio!TypeOK
    BY <1>1, <1>2, <1>3 DEF Audio!TypeOK
  <1>5. QED
    BY <1>1, <1>2, <1>4 DEF AudioInv, Audio!NoPacketBehind

\* Every step keeps the invariant of the receive audio.
LEMMA AudioNextInv == AudioInv /\ Audio!Next => AudioInv'
  <1> SUFFICES ASSUME AudioInv, Audio!Next PROVE AudioInv'
    OBVIOUS
  <1>1. /\ worker \in Worker /\ audioNet \subseteq Audio!Datagram
        /\ audioEvents \in 0 .. 2 * Sessions /\ gen \in 0 .. 2 * Sessions
        /\ seen \in 0 .. gen /\ audioPhase \in {"check", "recv"} /\ Sound(jb)
    BY AudioTypes DEF AudioInv
  <1>2. /\ worker.session \in 0 .. Sessions /\ worker.on \in BOOLEAN
        /\ worker.next \in 0 .. Packets /\ Sessions \in Nat /\ Packets \in Nat
    BY <1>1, AudioConstants DEF Worker
  <1>3. /\ worker.on => audioEvents + gen + 1 <= 2 * worker.session
        /\ ~worker.on => audioEvents + gen <= 2 * worker.session
    BY DEF AudioInv
  <1> DEFINE Heard == /\ worker'.on => audioEvents' + gen' + 1 <= 2 * worker'.session
                      /\ ~worker'.on => audioEvents' + gen' <= 2 * worker'.session
             Typed == /\ worker' \in Worker /\ audioNet' \subseteq Audio!Datagram
                      /\ audioEvents' \in 0 .. 2 * Sessions /\ gen' \in 0 .. 2 * Sessions
                      /\ seen' \in 0 .. gen' /\ audioPhase' \in {"check", "recv"}
                      /\ Sound(jb')
  <1>4. SUFFICES Heard /\ Typed
    <2>1. Audio!TypeOK' /\ Audio!NoPacketBehind'
      BY AudioTypesNext
    <2>2. QED
      BY <2>1, <1>4 DEF AudioInv
  <1>5. CASE Audio!Acquire
    <2>1. /\ ~worker.on /\ worker.session < Sessions /\ audioEvents' = audioEvents + 1
          /\ worker' = [session |-> worker.session + 1, on |-> TRUE, next |-> 0]
          /\ UNCHANGED <<audioNet, gen, seen, audioPhase, jb>>
      BY <1>5 DEF Audio!Acquire
    <2>2. worker.session + 1 \in 0 .. Sessions /\ 0 \in 0 .. Packets
      BY <1>2, <2>1
    <2>3. worker' \in Worker /\ worker'.on /\ worker'.session = worker.session + 1
      BY <2>1, <2>2 DEF Worker
    <2>4. audioEvents' + gen' + 1 <= 2 * worker'.session /\ audioEvents' \in 0 .. 2 * Sessions
      BY <1>1, <1>2, <1>3, <2>1, <2>3
    <2>5. QED
      BY <1>1, <2>1, <2>3, <2>4
  <1>6. CASE Audio!Release
    <2>1. /\ worker.on /\ audioEvents' = audioEvents + 1
          /\ worker' = [worker EXCEPT !.on = FALSE]
          /\ UNCHANGED <<audioNet, gen, seen, audioPhase, jb>>
      BY <1>6 DEF Audio!Release
    <2>2. worker' \in Worker /\ ~worker'.on /\ worker'.session = worker.session
      BY <1>1, <2>1 DEF Worker
    <2>3. audioEvents' + gen' <= 2 * worker'.session /\ audioEvents' \in 0 .. 2 * Sessions
      BY <1>1, <1>2, <1>3, <2>1, <2>2
    <2>4. QED
      BY <1>1, <2>1, <2>2, <2>3
  <1>7. CASE Audio!SendPacket
    <2>1. /\ worker.on /\ worker.next < Packets
          /\ audioNet' = audioNet \union {[session |-> worker.session,
                                           sequence |-> worker.next]}
          /\ worker' = [worker EXCEPT !.next = @ + 1]
          /\ UNCHANGED <<audioEvents, gen, seen, audioPhase, jb>>
      BY <1>7 DEF Audio!SendPacket
    <2>2. worker.next + 1 \in 0 .. Packets /\ worker.next \in 0 .. Packets - 1
      BY <1>2, <2>1
    <2>3. /\ worker' \in Worker /\ worker'.on = worker.on
          /\ worker'.session = worker.session
      BY <1>1, <2>1, <2>2 DEF Worker
    <2>4. worker.session \in 1 .. Sessions
      BY <1>1, <1>2, <1>3, <2>1
    <2>5. [session |-> worker.session, sequence |-> worker.next] \in Audio!Datagram
      BY <2>2, <2>4 DEF Audio!Datagram, Audio!Sequences
    <2>6. QED
      BY <1>1, <1>3, <2>1, <2>3, <2>5
  <1>8. CASE Audio!HearEvent
    <2>1. /\ audioEvents > 0 /\ audioEvents' = audioEvents - 1 /\ gen' = gen + 1
          /\ UNCHANGED <<worker, audioNet, seen, audioPhase, jb>>
      BY <1>8 DEF Audio!HearEvent
    <2>2. audioEvents' \in 0 .. 2 * Sessions /\ gen' \in 0 .. 2 * Sessions /\ seen' \in 0 .. gen'
      BY <1>1, <1>2, <1>3, <2>1
    <2>3. Heard
      BY <1>1, <1>3, <2>1
    <2>4. QED
      BY <1>1, <2>1, <2>2, <2>3
  <1>9. CASE Audio!CheckSession
    <2>1. /\ audioPhase' = "recv" /\ seen' = gen
          /\ jb' = (IF gen # seen THEN Audio!EmptyBuffer ELSE jb)
          /\ UNCHANGED <<worker, audioNet, audioEvents, gen>>
      BY <1>9 DEF Audio!CheckSession
    <2>2. Sound(Audio!EmptyBuffer)
      BY DEF Sound, Ahead, Audio!EmptyBuffer, Audio!Buffer
    <2>3. seen' \in 0 .. gen'
      BY <1>1, <2>1
    <2>4. QED
      BY <1>1, <1>3, <2>1, <2>2, <2>3
  <1>10. CASE Audio!Receive
    <2>1. PICK p \in audioNet, again \in BOOLEAN :
            /\ audioNet' = (IF again THEN audioNet ELSE audioNet \ {p})
            /\ jb' = Audio!Pushed(jb, p.sequence)
            /\ audioPhase' = "check"
            /\ UNCHANGED <<worker, audioEvents, gen, seen>>
      BY <1>10 DEF Audio!Receive
    <2>2. p.sequence \in Audio!Sequences
      BY <1>1 DEF Audio!Datagram
    <2>3. Sound(jb')
      BY <1>1, <2>1, <2>2, PushedSound
    <2>4. QED
      BY <1>1, <1>3, <2>1, <2>3
  <1>11. CASE Audio!RecvTimeout
    <2>1. audioPhase' = "check" /\ UNCHANGED <<worker, audioNet, audioEvents, gen, seen, jb>>
      BY <1>11 DEF Audio!RecvTimeout
    <2>2. QED
      BY <1>1, <1>3, <2>1
  <1>12. CASE Audio!Pop
    <2>1. PICK n \in PopSizes :
            /\ jb' = Audio!Popped(jb, n)
            /\ UNCHANGED <<worker, audioNet, audioEvents, gen, seen, audioPhase>>
      BY <1>12 DEF Audio!Pop
    <2>2. Sound(jb')
      BY <1>1, <2>1, AudioConstants, PoppedSound
    <2>3. QED
      BY <1>1, <1>3, <2>1, <2>2
  <1>13. QED
    BY <1>5, <1>6, <1>7, <1>8, <1>9, <1>10, <1>11, <1>12 DEF Audio!Next
-----------------------------------------------------------------------------
(* The contact log: OperatorLog.                                            *)

\* What is assumed of the constants.
LEMMA LogConstants ==
    /\ MaxRows \in Nat \ {0} /\ MaxClicks \in Nat
    /\ IsFiniteSet(Keys) /\ Keys # {} /\ FileKeys \subseteq Keys
  BY PartsAssumption DEF PartsAssumption

\* Cardinality, by the name it has in the instance.
LEMMA LogCardinality ==
    \A S : Log!Cardinality(S) = Cardinality(S)
  BY Zenon DEF Log!Cardinality, Cardinality

\* There are finitely many rows.
LEMMA LogRowsFinite == IsFiniteSet(Log!Rows)
  <1> DEFINE f == [p \in Log!Ids \X Keys |-> [id |-> p[1], key |-> p[2]]]
  <1>1. IsFiniteSet(Log!Ids) /\ IsFiniteSet(Keys)
    BY LogConstants, FS_Interval DEF Log!Ids
  <1>2. IsFiniteSet(Log!Ids \X Keys)
    BY <1>1, FS_Product
  <1>3. f \in Surjection(Log!Ids \X Keys, Log!Rows)
    <2>1. f \in [Log!Ids \X Keys -> Log!Rows]
      BY DEF Log!Rows
    <2>2. ASSUME NEW r \in Log!Rows
          PROVE  \E p \in Log!Ids \X Keys : f[p] = r
      <3>1. <<r.id, r.key>> \in Log!Ids \X Keys
        BY DEF Log!Rows
      <3>2. f[<<r.id, r.key>>] = [id |-> r.id, key |-> r.key]
        BY <3>1
      <3>3. r = [id |-> r.id, key |-> r.key]
        BY DEF Log!Rows
      <3>4. QED
        BY <3>1, <3>2, <3>3
    <2>3. QED
      BY <2>1, <2>2 DEF Surjection
  <1>4. QED
    BY <1>2, <1>3, FS_Surjection

\* A new id is greater than those there are.
LEMMA NextIdIsNew ==
    ASSUME NEW table \in SUBSET Log!Rows
    PROVE  Log!NextId(table) \in Nat \ {0} /\ \A r \in table : r.id < Log!NextId(table)
  <1> DEFINE ids == {r.id : r \in table} \cup {0}
  <1>1. ids \subseteq 0 .. MaxRows /\ 0 \in ids
    BY LogConstants DEF Log!Rows, Log!Ids
  <1> HIDE DEF ids
  <1>2. \E m \in ids : \A n \in ids : n <= m
    BY <1>1, LogConstants, GreatestElement
  <1>3. \E m \in ids : \A n \in ids : m >= n
    BY <1>1, <1>2, LogConstants
  <1>4. Log!Max(ids) \in ids /\ \A n \in ids : Log!Max(ids) >= n
    BY <1>3, Zenon DEF Log!Max
  <1>5. Log!NextId(table) = Log!Max(ids) + 1
    BY DEF Log!NextId, ids
  <1>6. \A r \in table : r.id \in ids
    BY DEF ids
  <1>7. Log!Max(ids) \in Nat /\ \A r \in table : r.id \in Nat /\ Log!Max(ids) >= r.id
    <2>1. MaxRows \in Nat
      BY LogConstants
    <2>2. Log!Max(ids) \in ids
      BY <1>4
    <2>3. ids \subseteq 0 .. MaxRows
      BY <1>1
    <2>4. ids \subseteq Nat
      BY <2>1, <2>3
    <2>5. Log!Max(ids) \in Nat
      BY <2>2, <2>4
    <2>6. \A r \in table : r.id \in Nat /\ Log!Max(ids) >= r.id
      BY <1>4, <1>6, <2>4
    <2>7. QED
      BY <2>5, <2>6
  <1>8. QED
    BY <1>5, <1>7

\* The rows inserted: the table has them, under their keys.
LEMMA InsertedRows ==
    ASSUME NEW table \in SUBSET Log!Rows, NEW keys \in SUBSET Keys, Log!Fits(table, keys)
    PROVE  /\ Log!Inserted(table, keys) \in SUBSET Log!Rows
           /\ Log!KeysOf(Log!Inserted(table, keys)) = Log!KeysOf(table) \cup keys
  <1> DEFINE n == Cardinality(keys)
             first == Log!NextId(table)
  <1>1. IsFiniteSet(keys) /\ IsFiniteSet(table)
    BY LogConstants, LogRowsFinite, FS_Subset
  <1>2. n \in Nat /\ ExistsBijection(1..n, keys)
    BY <1>1, FS_CardinalityType
  <1>3. first \in Nat \ {0} /\ \A r \in table : r.id \in Nat /\ r.id < first
    BY NextIdIsNew DEF Log!Rows, Log!Ids
  <1>4. first + n - 1 <= MaxRows
    BY LogCardinality DEF Log!Fits
  <1> HIDE DEF n, first
  <1>5. PICK f : f \in Bijection(1..n, keys)
    BY <1>2 DEF ExistsBijection
  <1>6. /\ f \in [1..n -> keys] /\ \A k \in keys : \E i \in 1..n : f[i] = k
    BY <1>5 DEF Bijection, Injection, Surjection
  <1> DEFINE row(i) == [id |-> first + i - 1, key |-> f[i]]
             new == {row(i) : i \in 1..n}
             g == [i \in 1..n |-> row(i)]
  <1>7. \A i \in 1..n : /\ row(i) \in Log!Rows
                        /\ row(i).id = first + i - 1 /\ row(i).key = f[i]
    <2>1. \A i \in 1..n : f[i] \in Keys /\ first + i - 1 \in Log!Ids
      BY <1>2, <1>3, <1>4, <1>6, LogConstants DEF Log!Ids
    <2>2. QED
      BY <2>1 DEF Log!Rows
  <1> HIDE DEF row
  <1>8. g \in Bijection(1..n, new)
    <2>1. g \in [1..n -> new] /\ \A r \in new : \E i \in 1..n : g[i] = r
      OBVIOUS
    <2>2. ASSUME NEW i \in 1..n, NEW j \in 1..n, g[i] = g[j]
          PROVE  i = j
      <3>1. row(i).id = row(j).id
        BY <2>2
      <3>2. first + i - 1 = first + j - 1
        BY <1>7, <3>1
      <3>3. QED
        BY <1>2, <1>3, <3>2
    <2>3. QED
      BY <2>1, <2>2 DEF Bijection, Injection, Surjection, IsInjective
  <1>9. IsFiniteSet(new) /\ Cardinality(new) = n
    <2>1. IsFiniteSet(1..n) /\ Cardinality(1..n) = n
      BY <1>2, FS_Interval
    <2>2. ExistsBijection(1..n, new)
      BY <1>8 DEF ExistsBijection
    <2>3. QED
      BY <2>1, <2>2, FS_Bijection
  <1>10. new \subseteq Log!Rows /\ table \cap new = {}
    <2>1. \A i \in 1..n : row(i) \notin table
      BY <1>2, <1>3, <1>7
    <2>2. QED
      BY <1>7, <2>1
  <1>11. {r.key : r \in new} = keys
    BY <1>6, <1>7
  <1>12. {r.id : r \in new} = first .. (first + n - 1)
    <2>1. ASSUME NEW m \in first .. (first + n - 1) PROVE m \in {r.id : r \in new}
      <3>1. m - first + 1 \in 1..n /\ first + (m - first + 1) - 1 = m
        BY <1>2, <1>3
      <3>2. row(m - first + 1).id = m
        BY <1>7, <3>1
      <3>3. QED
        BY <3>1, <3>2
    <2>2. ASSUME NEW i \in 1..n PROVE row(i).id \in first .. (first + n - 1)
      BY <1>2, <1>3, <1>7
    <2>3. QED
      BY <2>1, <2>2
  <1> DEFINE whole == table \cup new
  <1>13. /\ whole \in SUBSET Log!Rows /\ table \subseteq whole /\ whole \ table = new
         /\ Cardinality(whole) = Cardinality(table) + n
    <2>1. whole \in SUBSET Log!Rows /\ table \subseteq whole /\ whole \ table = new
      BY <1>10
    <2>2. Cardinality(whole) = Cardinality(table) + Cardinality(new) - Cardinality(table \cap new)
      BY <1>1, <1>9, FS_Union
    <2>3. Cardinality(table \cap new) = 0 /\ Cardinality(table) \in Nat
      BY <1>1, <1>10, FS_EmptySet, FS_CardinalityType
    <2>4. QED
      BY <1>2, <1>9, <2>1, <2>2, <2>3
  <1> HIDE DEF whole, new, g
  <1>14. \E t \in SUBSET Log!Rows :
           /\ table \subseteq t /\ Cardinality(t) = Cardinality(table) + n
           /\ {r.key : r \in t \ table} = keys
           /\ {r.id : r \in t \ table} = first .. (first + n - 1)
    BY <1>11, <1>12, <1>13
  <1> DEFINE t == Log!Inserted(table, keys)
  <1>15. t \in SUBSET Log!Rows /\ table \subseteq t /\ {r.key : r \in t \ table} = keys
    BY <1>14, LogCardinality, Zenon DEF Log!Inserted, n, first
  <1> HIDE DEF t
  <1>16. Log!KeysOf(t) = Log!KeysOf(table) \cup keys
    BY <1>15 DEF Log!KeysOf
  <1>17. QED
    BY <1>15, <1>16 DEF t
\* While the frame that saw the operator change still has to open the new log.
Leaving == phase \in {"click", "end"} /\ snap # openFor

\* Queries are numbered in the order they are queued.
NumberedInOrder ==
    /\ \A i, j \in 1..Len(jobs) :
         i < j /\ jobs[i].kind = "query" /\ jobs[j].kind = "query" => jobs[i].seq < jobs[j].seq
    /\ \A i \in 1..Len(jobs) : jobs[i].kind = "query" => jobs[i].seq <= querySeq
    /\ \A i \in 1..Len(events) : events[i].kind = "contacts" => events[i].seq <= querySeq

\* The last query, queued or answered.
Queued(i) == jobs[i].kind = "query" /\ jobs[i].seq = querySeq
Answered(i) == events[i].kind = "contacts" /\ events[i].seq = querySeq

\* While the list is not to be read again, the last query is of the open log, or of the
\* one about to be opened, which has the list read again; its answer has all the rows;
\* and if it is neither queued nor answered the list has them.
ListCurrent ==
    dirty = FALSE =>
      /\ \A i \in 1..Len(jobs) :
           Queued(i) => jobs[i].log = openFor \/ (Leaving /\ jobs[i].log = snap)
      /\ \A i \in 1..Len(events) :
           Answered(i) => events[i].rows = logs[openFor] \/ Leaving
      /\ \/ cache = logs[openFor]
         \/ \E i \in 1..Len(jobs) : Queued(i)
         \/ \E i \in 1..Len(events) : Answered(i)

ListInv == NumberedInOrder /\ ListCurrent

LogInv == Log!TypeOK /\ Log!WorkedIsLog /\ ListInv

\* Once nothing is queued or answered, what ListCurrent says is that the list is the log.
LEMMA ListInvSettles == LogInv => Log!ViewIsLog
  <1> SUFFICES ASSUME LogInv, Log!ListSettled PROVE cache = logs[openFor]
    BY DEF Log!ViewIsLog
  <1>1. /\ \A i \in 1..Len(jobs) : jobs[i].kind # "query"
        /\ \A i \in 1..Len(events) : events[i].kind # "contacts"
    BY DEF Log!ListSettled
  <1>2. dirty = FALSE
    BY Zenon DEF Log!ListSettled, LogInv, Log!TypeOK
  <1>3. QED
    BY <1>1, <1>2 DEF LogInv, ListInv, ListCurrent, Queued, Answered

\* What TypeOK says of the variables, in four groups.
FrameTypes ==
    /\ op \in Operators /\ snap \in Operators /\ openFor \in Operators
    /\ phase \in {"start", "drain", "click", "end"}
StoreTypes ==
    /\ logs \in [Operators -> SUBSET Log!Rows] /\ worked \subseteq Keys
    /\ uploaded \in [Operators -> SUBSET Log!Ids]
    /\ confirmed \in [Operators -> SUBSET Log!Ids]
QueueTypes ==
    /\ jobs \in Seq(Log!Jobs) /\ events \in Seq(Log!Events) /\ querySeq \in Nat
    /\ cache \subseteq Log!Rows /\ dirty \in BOOLEAN
ScreenTypes ==
    /\ view \in BOOLEAN /\ busy \in BOOLEAN /\ clicks \in 0..MaxClicks
    /\ selection \subseteq [id : Log!Ids, log : Operators]
    /\ dialogs \subseteq [kind : {"edit", "delete"}, id : Log!Ids, log : Operators]
    /\ plan \in [log : Operators, keys : SUBSET FileKeys] \cup {None}
    /\ misplaced \subseteq {"delete", "edit", "import", "upload", "download"}

\* TypeOK is the four of them.
LEMMA LogTypes ==
    Log!TypeOK <=> FrameTypes /\ StoreTypes /\ QueueTypes /\ ScreenTypes
  BY DEF Log!TypeOK, FrameTypes, StoreTypes, QueueTypes, ScreenTypes

\* And of the next state.
LEMMA LogTypesNext ==
    Log!TypeOK' <=> FrameTypes' /\ StoreTypes' /\ QueueTypes' /\ ScreenTypes'
  BY DEF Log!TypeOK, FrameTypes, StoreTypes, QueueTypes, ScreenTypes

\* What changes the list of neither side, or has it read again, keeps ListInv.
LEMMA ListKept ==
    ASSUME ListInv, UNCHANGED <<jobs, events, querySeq>>,
           \/ dirty' = TRUE
           \/ /\ UNCHANGED <<logs, openFor, cache, snap>> /\ dirty' = dirty
              /\ phase' \in {phase, "click", "end"}
    PROVE  ListInv'
  <1>1. NumberedInOrder'
    BY DEF ListInv, NumberedInOrder
  <1>2. ListCurrent'
    <2>1. CASE dirty' = TRUE
      BY <2>1 DEF ListCurrent
    <2>2. CASE /\ UNCHANGED <<logs, openFor, cache, snap>> /\ dirty' = dirty
               /\ phase' \in {phase, "click", "end"}
      <3>1. SUFFICES ASSUME dirty' = FALSE PROVE ListCurrent'
        BY DEF ListCurrent
      <3>2. Leaving => Leaving'
        BY <2>2 DEF Leaving
      <3>3. \A i : (Queued(i)' <=> Queued(i)) /\ (Answered(i)' <=> Answered(i))
        BY DEF Queued, Answered
      <3>4. QED
        BY <2>2, <3>1, <3>2, <3>3 DEF ListInv, ListCurrent
    <2>3. QED
      BY <2>1, <2>2
  <1>3. QED
    BY <1>1, <1>2 DEF ListInv

\* So does a job that is not a query.
LEMMA ListKeptByJob ==
    ASSUME ListInv, NEW j \in Log!Jobs, j.kind # "query", jobs \in Seq(Log!Jobs),
           jobs' = Append(jobs, j), dirty' = dirty,
           UNCHANGED <<events, querySeq, logs, openFor, cache, snap>>,
           phase' \in {phase, "click", "end"}
    PROVE  ListInv'
  <1>1. /\ Len(jobs') = Len(jobs) + 1 /\ Len(jobs) \in Nat
        /\ \A i \in 1..Len(jobs) : jobs'[i] = jobs[i]
        /\ jobs'[Len(jobs) + 1] = j
    BY AppendProperties
  <1>2. \A i \in 1..Len(jobs') :
          jobs'[i].kind = "query" => i \in 1..Len(jobs) /\ jobs'[i] = jobs[i]
    BY <1>1
  <1>3. NumberedInOrder'
    BY <1>2 DEF ListInv, NumberedInOrder
  <1>4. ListCurrent'
    <2>1. SUFFICES ASSUME dirty' = FALSE PROVE ListCurrent'
      BY DEF ListCurrent
    <2>2. Leaving => Leaving'
      BY DEF Leaving
    <2>3. \A i \in 1..Len(jobs') : Queued(i)' => i \in 1..Len(jobs) /\ Queued(i) /\ jobs'[i] = jobs[i]
      BY <1>2 DEF Queued
    <2>4. \A i \in 1..Len(jobs) : Queued(i) => i \in 1..Len(jobs') /\ Queued(i)'
      BY <1>1 DEF Queued
    <2>5. \A i : Answered(i)' <=> Answered(i)
      BY DEF Answered
    <2>6. QED
      BY <2>1, <2>2, <2>3, <2>4, <2>5 DEF ListInv, ListCurrent
  <1>5. QED
    BY <1>3, <1>4 DEF ListInv

\* An event that is taken, with the list taken from it when it answers the last query.
LEMMA ListKeptByEvent ==
    ASSUME ListInv, events \in Seq(Log!Events), events # <<>>, events' = Tail(events),
           UNCHANGED <<jobs, querySeq>>, phase = "drain",
           dirty' = TRUE \/ /\ dirty' = dirty /\ UNCHANGED <<logs, openFor, snap, phase>>
                            /\ cache' = IF /\ Head(events).kind = "contacts"
                                           /\ Head(events).seq = querySeq
                                        THEN Head(events).rows ELSE cache
    PROVE  ListInv'
  <1>1. /\ Len(events') = Len(events) - 1 /\ Len(events) \in Nat \ {0}
        /\ \A i \in 1..Len(events') : events'[i] = events[i + 1]
        /\ Head(events) = events[1]
    BY HeadTailProperties, EmptySeq
  <1>2. \A i \in 1..Len(events') : i + 1 \in 1..Len(events) /\ events'[i] = events[i + 1]
    BY <1>1
  <1>3. NumberedInOrder'
    BY <1>2 DEF ListInv, NumberedInOrder
  <1>4. ListCurrent'
    <2>1. SUFFICES ASSUME dirty' = FALSE PROVE ListCurrent'
      BY DEF ListCurrent
    <2>2. ~Leaving /\ dirty = FALSE /\ logs' = logs /\ openFor' = openFor /\ snap' = snap
      BY <2>1 DEF Leaving
    <2>3. \A i : Queued(i)' <=> Queued(i)
      BY DEF Queued
    <2>4. \A i \in 1..Len(events') : Answered(i)' => i + 1 \in 1..Len(events)
                                       /\ Answered(i + 1) /\ events'[i] = events[i + 1]
      BY <1>2 DEF Answered
    <2>5. /\ \A i \in 1..Len(jobs) : Queued(i) => jobs[i].log = openFor
          /\ \A i \in 1..Len(events) : Answered(i) => events[i].rows = logs[openFor]
          /\ \/ cache = logs[openFor]
             \/ \E i \in 1..Len(jobs) : Queued(i)
             \/ \E i \in 1..Len(events) : Answered(i)
      BY <2>2 DEF ListInv, ListCurrent
    <2>6. \/ cache' = logs[openFor]
          \/ \E i \in 1..Len(jobs) : Queued(i)
          \/ \E i \in 1..Len(events') : Answered(i)'
      <3>1. CASE Answered(1)
        <4>1. cache' = Head(events).rows
          BY <1>1, <2>1, <3>1 DEF Answered
        <4>2. QED
          BY <1>1, <2>5, <3>1, <4>1
      <3>2. CASE ~Answered(1)
        <4>1. cache' = cache
          BY <1>1, <2>1, <3>2 DEF Answered
        <4>2. ASSUME NEW i \in 1..Len(events), Answered(i)
              PROVE  i - 1 \in 1..Len(events') /\ Answered(i - 1)'
          <5>1. i # 1 /\ i - 1 \in 1..Len(events')
            BY <1>1, <3>2, <4>2
          <5>2. events'[i - 1] = events[i]
            BY <1>1, <5>1
          <5>3. QED
            BY <4>2, <5>1, <5>2 DEF Answered
        <4>3. QED
          BY <2>5, <4>1, <4>2
      <3>3. QED
        BY <3>1, <3>2
    <2>7. QED
      BY <2>2, <2>3, <2>4, <2>5, <2>6 DEF ListCurrent
  <1>5. QED
    BY <1>3, <1>4 DEF ListInv
\* A change of the open log: its new table is in the index, and the list is read again.
LEMMA LogChanged ==
    ASSUME LogInv, UNCHANGED <<jobs, events, querySeq, openFor, cache>>,
           NEW table \in SUBSET Log!Rows, Log!Change(table)
    PROVE  /\ logs' \in [Operators -> SUBSET Log!Rows] /\ worked' \subseteq Keys
           /\ dirty' = TRUE /\ Log!WorkedIsLog' /\ ListInv' /\ QueueTypes'
  <1>1. FrameTypes /\ StoreTypes /\ QueueTypes
    BY LogTypes DEF LogInv
  <1>2. /\ logs' = [logs EXCEPT ![openFor] = table] /\ worked' = Log!KeysOf(table)
        /\ dirty' = TRUE
    BY DEF Log!Change, Log!WorkedIn
  <1>3. logs' \in [Operators -> SUBSET Log!Rows] /\ logs'[openFor'] = table
    BY <1>1, <1>2 DEF FrameTypes, StoreTypes
  <1>4. worked' \subseteq Keys
    BY <1>2 DEF Log!KeysOf, Log!Rows
  <1>5. Log!WorkedIsLog'
    BY <1>2, <1>3 DEF Log!WorkedIsLog
  <1>6. ListInv'
    BY <1>2, ListKept DEF LogInv
  <1>7. QueueTypes'
    BY <1>1, <1>2 DEF QueueTypes
  <1>8. QED
    BY <1>2, <1>3, <1>4, <1>5, <1>6, <1>7

\* A contact logged: inserted, and noted in the index.
LEMMA ContactLogged ==
    ASSUME LogInv, UNCHANGED <<jobs, events, querySeq, openFor, cache>>,
           NEW k \in Keys, Log!LogContact(k)
    PROVE  /\ logs' \in [Operators -> SUBSET Log!Rows] /\ worked' \subseteq Keys
           /\ dirty' = TRUE /\ Log!WorkedIsLog' /\ ListInv' /\ QueueTypes'
  <1>1. FrameTypes /\ StoreTypes /\ QueueTypes
    BY LogTypes DEF LogInv
  <1> DEFINE table == Log!Inserted(logs[openFor], {k})
  <1>2. /\ Log!Fits(logs[openFor], {k}) /\ logs' = [logs EXCEPT ![openFor] = table]
        /\ worked' = worked \cup {k} /\ dirty' = TRUE
    BY DEF Log!LogContact
  <1>3. logs[openFor] \in SUBSET Log!Rows
    BY <1>1 DEF FrameTypes, StoreTypes
  <1>4. table \in SUBSET Log!Rows /\ Log!KeysOf(table) = Log!KeysOf(logs[openFor]) \cup {k}
    BY <1>2, <1>3, InsertedRows
  <1> HIDE DEF table
  <1>5. logs' \in [Operators -> SUBSET Log!Rows] /\ logs'[openFor'] = table
    BY <1>1, <1>2, <1>4 DEF FrameTypes, StoreTypes
  <1>6. Log!WorkedIsLog'
    BY <1>2, <1>4, <1>5 DEF LogInv, Log!WorkedIsLog
  <1>7. worked' \subseteq Keys
    BY <1>1, <1>2 DEF StoreTypes
  <1>8. ListInv'
    BY <1>2, ListKept DEF LogInv
  <1>9. QueueTypes'
    BY <1>1, <1>2 DEF QueueTypes
  <1>10. QED
    BY <1>2, <1>5, <1>6, <1>7, <1>8, <1>9

\* What Note writes down.
LEMMA Noted ==
    ASSUME ScreenTypes, NEW what \in {"delete", "edit", "import", "upload", "download"},
           NEW of, Log!Note(what, of)
    PROVE  misplaced' \subseteq {"delete", "edit", "import", "upload", "download"}
  BY DEF ScreenTypes, Log!Note

\* What a click leaves.
LEMMA ClickTypes ==
    ASSUME LogInv, Log!Click
    PROVE  /\ phase = "click" /\ phase' = "end" /\ clicks' \in 0..MaxClicks
           /\ UNCHANGED <<snap, openFor, events, querySeq, cache>>
           /\ op' \in Operators => FrameTypes'
  <1>1. FrameTypes /\ ScreenTypes /\ clicks < MaxClicks /\ clicks' = clicks + 1
    BY LogTypes DEF LogInv, Log!Click
  <1>2. /\ phase = "click" /\ phase' = "end"
        /\ UNCHANGED <<snap, openFor, events, querySeq, cache>>
    BY DEF Log!Click
  <1>3. clicks' \in 0..MaxClicks
    BY <1>1, LogConstants DEF ScreenTypes
  <1>4. QED
    BY <1>1, <1>2, <1>3 DEF FrameTypes

\* A click that leaves the logs and the list alone.
LEMMA QuietClick ==
    ASSUME LogInv, Log!Click, UNCHANGED <<logs, uploaded, confirmed, worked, jobs, dirty>>, op' \in Operators,
           ScreenTypes'
    PROVE  LogInv'
  <1>1. StoreTypes /\ QueueTypes /\ Log!WorkedIsLog /\ ListInv
    BY LogTypes DEF LogInv
  <1>2. /\ phase' = "end" /\ UNCHANGED <<snap, openFor, events, querySeq, cache>>
        /\ FrameTypes'
    BY ClickTypes
  <1>3. StoreTypes' /\ QueueTypes'
    BY <1>1, <1>2 DEF StoreTypes, QueueTypes
  <1>4. Log!WorkedIsLog'
    BY <1>1, <1>2 DEF Log!WorkedIsLog
  <1>5. ListInv'
    BY <1>1, <1>2, ListKept
  <1>6. QED
    BY <1>2, <1>3, <1>4, <1>5, LogTypesNext DEF LogInv

\* One that queues a job for the worker, not a query.
LEMMA JobClick ==
    ASSUME LogInv, Log!Click, UNCHANGED <<logs, uploaded, confirmed, worked, dirty>>,
           op' = op, ScreenTypes', NEW j \in Log!Jobs, j.kind # "query",
           jobs' = Append(jobs, j)
    PROVE  LogInv'
  <1>1. FrameTypes /\ StoreTypes /\ QueueTypes /\ Log!WorkedIsLog /\ ListInv
    BY LogTypes DEF LogInv
  <1>2. /\ phase' = "end" /\ UNCHANGED <<snap, openFor, events, querySeq, cache>>
        /\ FrameTypes'
    BY <1>1, ClickTypes DEF FrameTypes
  <1>3. jobs \in Seq(Log!Jobs) /\ jobs' \in Seq(Log!Jobs)
    BY <1>1, AppendProperties DEF QueueTypes
  <1>4. StoreTypes' /\ QueueTypes'
    BY <1>1, <1>2, <1>3 DEF StoreTypes, QueueTypes
  <1>5. Log!WorkedIsLog'
    BY <1>1, <1>2 DEF Log!WorkedIsLog
  <1>6. ListInv'
    BY <1>1, <1>2, <1>3, ListKeptByJob
  <1>7. QED
    BY <1>2, <1>4, <1>5, <1>6, LogTypesNext DEF LogInv

\* One that changes the open log.
LEMMA ChangeClick ==
    ASSUME LogInv, Log!Click, op' = op, jobs' = jobs, ScreenTypes',
           uploaded' \in [Operators -> SUBSET Log!Ids],
           confirmed' \in [Operators -> SUBSET Log!Ids],
           NEW table \in SUBSET Log!Rows, Log!Change(table)
    PROVE  LogInv'
  <1>1. FrameTypes
    BY LogTypes DEF LogInv
  <1>2. UNCHANGED <<openFor, events, querySeq, cache>> /\ FrameTypes'
    BY <1>1, ClickTypes DEF FrameTypes
  <1>3. /\ logs' \in [Operators -> SUBSET Log!Rows] /\ worked' \subseteq Keys
        /\ Log!WorkedIsLog' /\ ListInv' /\ QueueTypes'
    BY <1>2, LogChanged
  <1>4. StoreTypes'
    BY <1>3 DEF StoreTypes
  <1>5. QED
    BY <1>2, <1>3, <1>4, LogTypesNext DEF LogInv

\* The rows a delete leaves, and their marks.
LEMMA WithoutTypes ==
    ASSUME FrameTypes, StoreTypes, NEW ids, Log!Without(ids)
    PROVE  /\ Log!Change({r \in logs[openFor] : r.id \notin ids})
           /\ {r \in logs[openFor] : r.id \notin ids} \in SUBSET Log!Rows
           /\ uploaded' \in [Operators -> SUBSET Log!Ids]
           /\ confirmed' \in [Operators -> SUBSET Log!Ids]
  BY DEF Log!Without, FrameTypes, StoreTypes
\* The operator's log is open, and nothing listed yet.
LEMMA LogInitInv == Log!Init => LogInv
  <1> SUFFICES ASSUME Log!Init PROVE LogInv
    OBVIOUS
  <1> DEFINE row == [id |-> 1, key |-> CHOOSE k \in Keys : TRUE]
  <1>1. row \in Log!Rows
    BY LogConstants DEF Log!Rows, Log!Ids
  <1>2. /\ op \in Operators /\ snap = op /\ openFor = op /\ phase = "start"
        /\ logs \in [Operators -> {{}, {row}}]
        /\ uploaded = [o \in Operators |-> {}] /\ confirmed = uploaded
        /\ worked = {r.key : r \in logs[op]}
        /\ jobs = <<>> /\ events = <<>> /\ querySeq = 0 /\ cache = {}
        /\ dirty = TRUE /\ view \in BOOLEAN /\ selection = {} /\ dialogs = {}
        /\ plan = None /\ busy = FALSE /\ misplaced = {} /\ clicks = 0
    BY DEF Log!Init
  <1> HIDE DEF row
  <1>3. logs \in [Operators -> SUBSET Log!Rows] /\ logs[op] \in SUBSET Log!Rows
    BY <1>1, <1>2
  <1>4. StoreTypes /\ Log!WorkedIsLog
    <2>1. worked \subseteq Keys
      BY <1>2, <1>3 DEF Log!Rows
    <2>2. QED
      BY <1>2, <1>3, <2>1 DEF StoreTypes, Log!WorkedIsLog, Log!KeysOf
  <1>5. FrameTypes
    BY <1>2 DEF FrameTypes
  <1>6. QueueTypes
    BY <1>2 DEF QueueTypes
  <1>7. ScreenTypes
    <2>1. clicks \in 0..MaxClicks
      BY <1>2, LogConstants
    <2>2. view \in BOOLEAN /\ busy \in BOOLEAN
      BY <1>2
    <2>3. /\ selection = {} /\ dialogs = {} /\ plan = None /\ misplaced = {}
      BY <1>2
    <2>4. QED
      BY <2>1, <2>2, <2>3 DEF ScreenTypes
  <1>8. ListInv
    <2>1. Len(jobs) = 0 /\ Len(events) = 0
      BY <1>2
    <2>2. QED
      BY <1>2, <2>1 DEF ListInv, NumberedInOrder, ListCurrent
  <1>9. QED
    BY <1>4, <1>5, <1>6, <1>7, <1>8, LogTypes DEF LogInv

\* A frame begins: what the operator is now counts in it.
LEMMA BeginFrameInv == LogInv /\ Log!BeginFrame => LogInv'
  <1> SUFFICES ASSUME LogInv, Log!BeginFrame PROVE LogInv'
    OBVIOUS
  <1>1. FrameTypes /\ StoreTypes /\ QueueTypes /\ ScreenTypes
    BY LogTypes DEF LogInv
  <1>2. /\ phase = "start" /\ phase' = "drain" /\ snap' = op
        /\ UNCHANGED <<op, openFor, logs, uploaded, confirmed, worked, jobs, events,
                       querySeq, cache, dirty, view, selection, dialogs, plan, busy,
                       misplaced, clicks>>
    BY DEF Log!BeginFrame, Log!log, Log!marks, Log!ui, Log!picked
  <1>3. FrameTypes' /\ StoreTypes' /\ QueueTypes' /\ ScreenTypes'
    BY <1>1, <1>2 DEF FrameTypes, StoreTypes, QueueTypes, ScreenTypes
  <1>4. Log!WorkedIsLog'
    BY <1>2 DEF LogInv, Log!WorkedIsLog
  <1>5. ListInv'
    <2>1. ~Leaving
      BY <1>2 DEF Leaving
    <2>2. /\ \A i : Queued(i)' <=> Queued(i)
          /\ \A i : Answered(i)' <=> Answered(i)
      BY <1>2 DEF Queued, Answered
    <2>3. NumberedInOrder'
      BY <1>2 DEF LogInv, ListInv, NumberedInOrder
    <2>4. ListCurrent'
      BY <1>2, <2>1, <2>2 DEF LogInv, ListInv, ListCurrent
    <2>5. QED
      BY <2>3, <2>4 DEF ListInv
  <1>6. QED
    BY <1>3, <1>4, <1>5, LogTypesNext DEF LogInv

\* A contact from WSJT-X.
LEMMA WsjtxContactInv == LogInv /\ Log!WsjtxContact => LogInv'
  <1> SUFFICES ASSUME LogInv, Log!WsjtxContact PROVE LogInv'
    OBVIOUS
  <1>1. FrameTypes /\ StoreTypes /\ QueueTypes /\ ScreenTypes
    BY LogTypes DEF LogInv
  <1>2. PICK k \in Keys : Log!LogContact(k)
    BY DEF Log!WsjtxContact
  <1>3. UNCHANGED <<op, phase, snap, openFor, uploaded, confirmed, jobs, events, querySeq,
                    cache, view, selection, dialogs, plan, busy, misplaced, clicks>>
    BY DEF Log!WsjtxContact, Log!frame, Log!marks, Log!picked
  <1>4. /\ logs' \in [Operators -> SUBSET Log!Rows] /\ worked' \subseteq Keys
        /\ Log!WorkedIsLog' /\ ListInv' /\ QueueTypes'
    BY <1>2, <1>3, ContactLogged
  <1>5. FrameTypes' /\ StoreTypes' /\ ScreenTypes'
    BY <1>1, <1>3, <1>4 DEF FrameTypes, StoreTypes, ScreenTypes
  <1>6. QED
    BY <1>4, <1>5, LogTypesNext DEF LogInv

\* A reply of the worker taken.
LEMMA DrainEventInv == LogInv /\ Log!DrainEvent => LogInv'
  <1> SUFFICES ASSUME LogInv, Log!DrainEvent PROVE LogInv'
    OBVIOUS
  <1>1. FrameTypes /\ StoreTypes /\ QueueTypes /\ ScreenTypes /\ ListInv
    BY LogTypes DEF LogInv
  <1> DEFINE e == Head(events)
  <1>2. /\ phase = "drain" /\ events # <<>> /\ events' = Tail(events)
        /\ Log!ListContacts(e) \/ Log!KeepPlan(e) \/ Log!ApplySync(e)
        /\ UNCHANGED <<op, phase, snap, openFor, logs, jobs, querySeq, view, selection,
                       dialogs, clicks>>
    BY DEF Log!DrainEvent, Log!frame, Log!picked
  <1>3. e \in Log!Events /\ events' \in Seq(Log!Events)
    BY <1>1, <1>2, HeadTailProperties DEF QueueTypes
  <1> HIDE DEF e
  <1>4. FrameTypes'
    BY <1>1, <1>2 DEF FrameTypes
  <1>5. SUFFICES /\ StoreTypes' /\ Log!WorkedIsLog' /\ ScreenTypes'
                 /\ cache' \subseteq Log!Rows /\ dirty' \in BOOLEAN
                 /\ \/ dirty' = TRUE
                    \/ /\ dirty' = dirty
                       /\ cache' = IF e.kind = "contacts" /\ e.seq = querySeq
                                   THEN e.rows ELSE cache
    <2>1. QueueTypes'
      BY <1>1, <1>2, <1>3, <1>5 DEF QueueTypes
    <2>2. ListInv'
      <3>1. events \in Seq(Log!Events)
        BY <1>1 DEF QueueTypes
      <3>2. QED
        BY <1>1, <1>2, <1>5, <3>1, ListKeptByEvent DEF e
    <2>3. QED
      BY <1>4, <1>5, <2>1, <2>2, LogTypesNext DEF LogInv
  <1>6. CASE Log!ListContacts(e)
    <2>1. /\ e.kind = "contacts" /\ cache' = (IF e.seq = querySeq THEN e.rows ELSE cache)
          /\ UNCHANGED <<uploaded, confirmed, worked, dirty, plan, busy, misplaced>>
      BY <1>6 DEF Log!ListContacts, Log!marks
    <2>2. e.rows \subseteq Log!Rows
      BY <1>3, <2>1 DEF Log!Events, Log!Replies
    <2>3. StoreTypes' /\ ScreenTypes'
      BY <1>1, <1>2, <2>1 DEF StoreTypes, ScreenTypes
    <2>4. Log!WorkedIsLog'
      BY <1>2, <2>1 DEF LogInv, Log!WorkedIsLog
    <2>5. dirty \in BOOLEAN /\ cache' \subseteq Log!Rows
      BY <1>1, <2>1, <2>2 DEF QueueTypes
    <2>6. QED
      BY <2>1, <2>3, <2>4, <2>5
  <1>7. CASE Log!KeepPlan(e)
    <2>1. /\ e.kind = "planned" /\ plan' = [log |-> e.log, keys |-> e.keys]
          /\ UNCHANGED <<uploaded, confirmed, worked, cache, dirty, busy, misplaced>>
      BY <1>7 DEF Log!KeepPlan, Log!marks
    <2>2. e.log \in Operators /\ e.keys \in SUBSET FileKeys
      BY <1>3, <2>1 DEF Log!Events, Log!Replies
    <2>3. plan' \in [log : Operators, keys : SUBSET FileKeys]
      BY <2>1, <2>2
    <2>4. StoreTypes' /\ ScreenTypes'
      BY <1>1, <1>2, <2>1, <2>3 DEF StoreTypes, ScreenTypes
    <2>5. Log!WorkedIsLog'
      BY <1>2, <2>1 DEF LogInv, Log!WorkedIsLog
    <2>6. dirty \in BOOLEAN /\ cache' \subseteq Log!Rows
      BY <1>1, <2>1 DEF QueueTypes
    <2>7. QED
      BY <2>1, <2>4, <2>5, <2>6
  <1>8. CASE Log!ApplySync(e)
    <2>1. /\ e.kind \in Log!Replies /\ busy' = FALSE /\ UNCHANGED <<cache, plan>>
          /\ \/ /\ Log!ApplyUpload(e) \/ Log!ApplyDownload(e)
                /\ dirty' = TRUE
                /\ IF e.ids = {} THEN UNCHANGED misplaced
                   ELSE Log!Note(IF e.kind = "uploaded" THEN "upload" ELSE "download", e.log)
             \/ UNCHANGED <<uploaded, confirmed, worked, dirty, misplaced>>
      BY <1>8 DEF Log!ApplySync, Log!marks
    <2>2. e.ids \in SUBSET Log!Ids /\ e.kind # "contacts"
      BY <1>3, <2>1 DEF Log!Events, Log!Replies
    <2>3. misplaced' \subseteq {"delete", "edit", "import", "upload", "download"}
      <3>1. \A of : Log!Note(IF e.kind = "uploaded" THEN "upload" ELSE "download", of) =>
                      misplaced' \subseteq {"delete", "edit", "import", "upload", "download"}
        BY <1>1, Noted
      <3>2. QED
        BY <1>1, <2>1, <3>1 DEF ScreenTypes
    <2>4. ScreenTypes'
      BY <1>1, <1>2, <2>1, <2>3 DEF ScreenTypes
    <2>5. StoreTypes' /\ Log!WorkedIsLog'
      <3>1. CASE Log!ApplyUpload(e)
        <4>1. /\ uploaded' = [uploaded EXCEPT ![openFor] = @ \cup e.ids]
              /\ UNCHANGED <<confirmed, worked>>
          BY <3>1 DEF Log!ApplyUpload
        <4>2. QED
          BY <1>1, <1>2, <2>2, <4>1 DEF StoreTypes, FrameTypes, LogInv, Log!WorkedIsLog
      <3>2. CASE Log!ApplyDownload(e)
        <4>1. /\ confirmed' = [confirmed EXCEPT ![openFor] = @ \cup e.ids]
              /\ worked' = Log!KeysOf(logs[openFor]) /\ UNCHANGED uploaded
          BY <3>2 DEF Log!ApplyDownload, Log!WorkedIn
        <4>2. worked' = worked
          BY <4>1 DEF LogInv, Log!WorkedIsLog
        <4>3. QED
          BY <1>1, <1>2, <2>2, <4>1, <4>2 DEF StoreTypes, FrameTypes, LogInv, Log!WorkedIsLog
      <3>3. CASE UNCHANGED <<uploaded, confirmed, worked>>
        BY <1>1, <1>2, <3>3 DEF StoreTypes, LogInv, Log!WorkedIsLog
      <3>4. QED
        BY <2>1, <3>1, <3>2, <3>3
    <2>6. cache' \subseteq Log!Rows /\ cache' = cache /\ dirty \in BOOLEAN
      BY <1>1, <2>1 DEF QueueTypes
    <2>7. dirty' = TRUE \/ dirty' = dirty
      BY <2>1
    <2>8. dirty' \in BOOLEAN
      BY <2>6, <2>7
    <2>9. QED
      BY <2>2, <2>4, <2>5, <2>6, <2>7, <2>8
  <1>9. QED
    BY <1>2, <1>6, <1>7, <1>8

\* The contact view drawn: the list is read again when something changed.
LEMMA DrawInv == LogInv /\ Log!Draw => LogInv'
  <1> SUFFICES ASSUME LogInv, Log!Draw PROVE LogInv'
    OBVIOUS
  <1>1. FrameTypes /\ StoreTypes /\ QueueTypes /\ ScreenTypes /\ ListInv
    BY LogTypes DEF LogInv
  <1> DEFINE query == [kind |-> "query", log |-> snap, seq |-> querySeq']
  <1>2. /\ phase = "drain" /\ phase' = "click"
        /\ UNCHANGED <<op, snap, openFor, logs, uploaded, confirmed, worked, events, cache,
                       view, selection, dialogs, plan, busy, misplaced, clicks>>
    BY DEF Log!Draw, Log!log, Log!marks, Log!picked
  <1>3. \/ dirty' = FALSE /\ querySeq' = querySeq + 1 /\ jobs' = Append(jobs, query)
        \/ UNCHANGED <<dirty, querySeq, jobs>>
    BY DEF Log!Draw
  <1>4. FrameTypes' /\ StoreTypes' /\ ScreenTypes'
    BY <1>1, <1>2 DEF FrameTypes, StoreTypes, ScreenTypes
  <1>5. Log!WorkedIsLog'
    BY <1>2 DEF LogInv, Log!WorkedIsLog
  <1>6. CASE dirty' = FALSE /\ querySeq' = querySeq + 1 /\ jobs' = Append(jobs, query)
    <2>1. querySeq \in Nat /\ querySeq' \in Nat /\ snap \in Operators
      BY <1>1, <1>6 DEF QueueTypes, FrameTypes
    <2>2. query \in Log!Jobs /\ query.kind = "query" /\ query.seq = querySeq + 1
          /\ query.log = snap
      BY <1>6, <2>1 DEF Log!Jobs
    <2> HIDE DEF query
    <2>3. /\ jobs' \in Seq(Log!Jobs) /\ Len(jobs') = Len(jobs) + 1 /\ Len(jobs) \in Nat
          /\ \A i \in 1..Len(jobs) : jobs'[i] = jobs[i]
          /\ jobs'[Len(jobs) + 1] = query
      BY <1>1, <1>6, <2>2, AppendProperties DEF QueueTypes
    <2>4. QueueTypes'
      BY <1>1, <1>2, <1>6, <2>1, <2>3 DEF QueueTypes
    <2>5. \A i \in 1..Len(jobs') : \/ i \in 1..Len(jobs) /\ jobs'[i] = jobs[i]
                                   \/ i = Len(jobs) + 1 /\ jobs'[i] = query
      BY <2>3
    <2>6. \A i \in 1..Len(jobs) : jobs[i].kind = "query" => jobs[i].seq \in Nat
      BY <1>1 DEF QueueTypes, Log!Jobs
    <2>7. \A i \in 1..Len(events) : events[i].kind = "contacts" => events[i].seq \in Nat
      BY <1>1 DEF QueueTypes, Log!Events, Log!Replies
    <2>8. /\ \A i \in 1..Len(jobs) : jobs[i].kind = "query" => jobs[i].seq < querySeq + 1
          /\ \A i \in 1..Len(events) : events[i].kind = "contacts" => events[i].seq < querySeq + 1
      BY <1>1, <2>1, <2>6, <2>7 DEF ListInv, NumberedInOrder
    <2>9. NumberedInOrder'
      <3>1. ASSUME NEW i \in 1..Len(jobs'), NEW j \in 1..Len(jobs'), i < j,
                   jobs'[i].kind = "query", jobs'[j].kind = "query"
            PROVE  jobs'[i].seq < jobs'[j].seq
        <4>1. i \in 1..Len(jobs) /\ jobs'[i] = jobs[i]
          BY <2>3, <3>1
        <4>2. CASE j \in 1..Len(jobs) /\ jobs'[j] = jobs[j]
          BY <1>1, <3>1, <4>1, <4>2 DEF ListInv, NumberedInOrder
        <4>3. CASE jobs'[j] = query
          BY <2>2, <2>8, <3>1, <4>1, <4>3
        <4>4. QED
          BY <2>5, <4>2, <4>3
      <3>2. ASSUME NEW i \in 1..Len(jobs'), jobs'[i].kind = "query"
            PROVE  jobs'[i].seq <= querySeq'
        <4>1. CASE i \in 1..Len(jobs) /\ jobs'[i] = jobs[i]
          BY <1>6, <2>1, <2>6, <2>8, <3>2, <4>1
        <4>2. CASE jobs'[i] = query
          BY <1>6, <2>1, <2>2, <4>2
        <4>3. QED
          BY <2>5, <4>1, <4>2
      <3>3. ASSUME NEW i \in 1..Len(events'), events'[i].kind = "contacts"
            PROVE  events'[i].seq <= querySeq'
        BY <1>2, <1>6, <2>1, <2>7, <2>8, <3>3
      <3>4. QED
        BY <3>1, <3>2, <3>3 DEF NumberedInOrder
    <2>10. ListCurrent'
      <3>1. \A i \in 1..Len(jobs') : Queued(i)' => jobs'[i] = query
        <4>1. \A i \in 1..Len(jobs) : jobs[i].kind = "query" => jobs[i].seq # querySeq'
          BY <1>6, <2>1, <2>6, <2>8
        <4>2. QED
          BY <2>5, <4>1 DEF Queued
      <3>2. \E i \in 1..Len(jobs') : Queued(i)'
        <4>1. PICK i \in 1..Len(jobs') : i = Len(jobs) + 1
          BY <2>3
        <4>2. Queued(i)'
          BY <1>6, <2>2, <2>3, <4>1 DEF Queued
        <4>3. QED
          BY <4>2
      <3>3. \A i \in 1..Len(events') : ~Answered(i)'
        BY <1>2, <1>6, <2>1, <2>7, <2>8 DEF Answered
      <3>4. snap' = openFor' \/ Leaving'
        BY <1>2 DEF Leaving
      <3>5. query.log = snap'
        BY <1>2, <2>2
      <3>6. QED
        BY <3>1, <3>2, <3>3, <3>4, <3>5 DEF ListCurrent
    <2>11. QED
      BY <1>4, <1>5, <2>4, <2>9, <2>10, LogTypesNext DEF LogInv, ListInv
  <1>7. CASE UNCHANGED <<dirty, querySeq, jobs>>
    <2>1. QueueTypes'
      BY <1>1, <1>2, <1>7 DEF QueueTypes
    <2>2. ListInv'
      BY <1>1, <1>2, <1>7, ListKept
    <2>3. QED
      BY <1>4, <1>5, <2>1, <2>2, LogTypesNext DEF LogInv
  <1>8. QED
    BY <1>3, <1>6, <1>7

\* The log of the operator in the frame is opened.
LEMMA SyncLogInv == LogInv /\ Log!SyncLog => LogInv'
  <1> SUFFICES ASSUME LogInv, Log!SyncLog PROVE LogInv'
    OBVIOUS
  <1>1. FrameTypes /\ StoreTypes /\ QueueTypes /\ ScreenTypes /\ ListInv
    BY LogTypes DEF LogInv
  <1>2. /\ phase = "end" /\ phase' = "start" /\ openFor' = snap
        /\ UNCHANGED <<op, snap, logs, uploaded, confirmed, jobs, events, querySeq, view,
                       selection, dialogs, plan, busy, misplaced, clicks>>
    BY DEF Log!SyncLog, Log!marks, Log!picked
  <1>3. FrameTypes' /\ ScreenTypes'
    BY <1>1, <1>2 DEF FrameTypes, ScreenTypes
  <1>4. CASE snap = openFor
    <2>1. UNCHANGED <<cache, dirty, worked, openFor>>
      BY <1>2, <1>4 DEF Log!SyncLog
    <2>2. StoreTypes' /\ QueueTypes'
      BY <1>1, <1>2, <2>1 DEF StoreTypes, QueueTypes
    <2>3. Log!WorkedIsLog'
      BY <1>2, <2>1 DEF LogInv, Log!WorkedIsLog
    <2>4. ListInv'
      <3>1. ~Leaving
        BY <1>4 DEF Leaving
      <3>2. /\ \A i : Queued(i)' <=> Queued(i)
            /\ \A i : Answered(i)' <=> Answered(i)
        BY <1>2 DEF Queued, Answered
      <3>3. NumberedInOrder'
        BY <1>1, <1>2 DEF ListInv, NumberedInOrder
      <3>4. ListCurrent'
        BY <1>1, <1>2, <2>1, <3>1, <3>2 DEF ListInv, ListCurrent
      <3>5. QED
        BY <3>3, <3>4 DEF ListInv
    <2>5. QED
      BY <1>3, <2>2, <2>3, <2>4, LogTypesNext DEF LogInv
  <1>5. CASE snap # openFor
    <2>1. cache' = {} /\ worked' = Log!KeysOf(logs[snap]) /\ dirty' = TRUE
      BY <1>2, <1>5 DEF Log!SyncLog, Log!TearDown, Log!WorkedIn
    <2>2. worked' \subseteq Keys
      BY <1>1, <2>1 DEF FrameTypes, StoreTypes, Log!KeysOf, Log!Rows
    <2>3. StoreTypes' /\ QueueTypes'
      BY <1>1, <1>2, <2>1, <2>2 DEF StoreTypes, QueueTypes
    <2>4. Log!WorkedIsLog'
      BY <1>2, <2>1 DEF Log!WorkedIsLog
    <2>5. ListInv'
      BY <1>1, <1>2, <2>1, ListKept
    <2>6. QED
      BY <1>3, <2>3, <2>4, <2>5, LogTypesNext DEF LogInv
  <1>6. QED
    BY <1>4, <1>5

\* Clicks that leave the logs, the jobs and the list alone.
LEMMA QuietClicksInv ==
    ASSUME LogInv,
           \/ Log!NoClick \/ Log!SwitchOperator \/ Log!ToggleView \/ Log!Select
           \/ Log!OpenDialog
    PROVE  LogInv'
  <1>1. FrameTypes /\ StoreTypes /\ QueueTypes /\ ScreenTypes /\ ListInv
    BY LogTypes DEF LogInv
  <1> DEFINE Quiet == UNCHANGED <<logs, uploaded, confirmed, worked, jobs, dirty>>
  <1>2. CASE Log!NoClick
    <2>1. /\ phase' = "end" /\ Quiet
          /\ UNCHANGED <<op, snap, openFor, events, querySeq, cache, view, selection,
                         dialogs, plan, busy, misplaced, clicks>>
      BY <1>2 DEF Log!NoClick, Log!log, Log!marks, Log!ui, Log!picked
    <2>2. FrameTypes' /\ StoreTypes' /\ QueueTypes' /\ ScreenTypes'
      BY <1>1, <2>1 DEF FrameTypes, StoreTypes, QueueTypes, ScreenTypes
    <2>3. ListInv'
      BY <1>1, <2>1, ListKept
    <2>4. QED
      BY <2>1, <2>2, <2>3, LogTypesNext DEF LogInv, Log!WorkedIsLog
  <1>3. CASE Log!SwitchOperator
    <2>1. /\ Log!Click /\ op' \in Operators /\ Quiet
          /\ UNCHANGED <<view, selection, dialogs, plan, busy, misplaced>>
      BY <1>3 DEF Log!SwitchOperator, Log!log, Log!marks, Log!picked
    <2>2. ScreenTypes'
      BY <1>1, <2>1, ClickTypes DEF ScreenTypes
    <2>3. QED
      BY <2>1, <2>2, QuietClick
  <1>4. CASE Log!ToggleView
    <2>1. /\ Log!Click /\ op' = op /\ Quiet /\ view' = ~view
          /\ UNCHANGED <<selection, dialogs, plan, busy, misplaced>>
      BY <1>4 DEF Log!ToggleView, Log!log, Log!marks, Log!picked
    <2>2. view' \in BOOLEAN
      BY <2>1
    <2>3. ScreenTypes' /\ op' \in Operators
      BY <1>1, <2>1, <2>2, ClickTypes DEF ScreenTypes, FrameTypes
    <2>4. QED
      BY <2>1, <2>3, QuietClick
  <1>5. CASE Log!Select
    <2>1. /\ Log!Click /\ op' = op /\ Quiet
          /\ UNCHANGED <<view, dialogs, plan, busy, misplaced>>
      BY <1>5 DEF Log!Select, Log!log, Log!marks
    <2>2. PICK r \in cache : selection' = selection \cup {[id |-> r.id, log |-> openFor]}
      BY <1>5 DEF Log!Select
    <2>3. r.id \in Log!Ids /\ openFor \in Operators
      BY <1>1 DEF QueueTypes, FrameTypes, Log!Rows
    <2>4. ScreenTypes' /\ op' \in Operators
      BY <1>1, <2>1, <2>2, <2>3, ClickTypes DEF ScreenTypes, FrameTypes
    <2>5. QED
      BY <2>1, <2>4, QuietClick
  <1>6. CASE Log!OpenDialog
    <2>1. /\ Log!Click /\ op' = op /\ Quiet
          /\ UNCHANGED <<view, selection, plan, busy, misplaced>>
      BY <1>6 DEF Log!OpenDialog, Log!log, Log!marks
    <2>2. PICK r \in cache, kind \in {"edit", "delete"} :
            dialogs' = {d \in dialogs : d.kind # kind}
                         \cup {[kind |-> kind, id |-> r.id, log |-> openFor]}
      BY <1>6 DEF Log!OpenDialog
    <2>3. r.id \in Log!Ids /\ openFor \in Operators
      BY <1>1 DEF QueueTypes, FrameTypes, Log!Rows
    <2>4. ScreenTypes' /\ op' \in Operators
      BY <1>1, <2>1, <2>2, <2>3, ClickTypes DEF ScreenTypes, FrameTypes
    <2>5. QED
      BY <2>1, <2>4, QuietClick
  <1>7. QED
    BY <1>2, <1>3, <1>4, <1>5, <1>6

\* Those that give the worker something to do.
LEMMA JobClicksInv == LogInv /\ (Log!ChooseFile \/ Log!Sync) => LogInv'
  <1> SUFFICES ASSUME LogInv, Log!ChooseFile \/ Log!Sync PROVE LogInv'
    OBVIOUS
  <1>1. FrameTypes /\ ScreenTypes
    BY LogTypes DEF LogInv
  <1>2. \A kind \in {"plan", "upload", "download"} :
          LET j == [kind |-> kind, log |-> snap]
          IN j \in Log!Jobs /\ j.kind # "query"
    BY <1>1 DEF FrameTypes, Log!Jobs
  <1>3. CASE Log!ChooseFile
    <2>1. /\ Log!Click /\ UNCHANGED <<op, logs, uploaded, confirmed, worked, dirty>>
          /\ plan' = None /\ jobs' = Append(jobs, [kind |-> "plan", log |-> snap])
          /\ UNCHANGED <<view, selection, dialogs, busy, misplaced>>
      BY <1>3 DEF Log!ChooseFile, Log!log, Log!marks, Log!picked
    <2>2. ScreenTypes'
      BY <1>1, <2>1, ClickTypes DEF ScreenTypes
    <2>3. QED
      BY <1>2, <2>1, <2>2, JobClick
  <1>4. CASE Log!Sync
    <2>1. /\ Log!Click /\ UNCHANGED <<op, logs, uploaded, confirmed, worked, dirty>>
          /\ busy' = TRUE
          /\ UNCHANGED <<view, selection, dialogs, plan, misplaced>>
      BY <1>4 DEF Log!Sync, Log!log, Log!marks, Log!picked
    <2>2. PICK kind \in {"upload", "download"} :
            jobs' = Append(jobs, [kind |-> kind, log |-> snap])
      BY <1>4 DEF Log!Sync
    <2>3. ScreenTypes'
      BY <1>1, <2>1, ClickTypes DEF ScreenTypes
    <2>4. QED
      BY <1>2, <2>1, <2>2, <2>3, JobClick
  <1>5. QED
    BY <1>3, <1>4

\* A contact entered.
LEMMA EnterContactInv == LogInv /\ Log!EnterContact => LogInv'
  <1> SUFFICES ASSUME LogInv, Log!EnterContact PROVE LogInv'
    OBVIOUS
  <1>1. FrameTypes /\ StoreTypes /\ ScreenTypes
    BY LogTypes DEF LogInv
  <1>2. /\ Log!Click
        /\ UNCHANGED <<op, uploaded, confirmed, jobs, view, selection, dialogs, plan, busy,
                       misplaced>>
    BY DEF Log!EnterContact, Log!marks, Log!picked
  <1>3. PICK k \in Keys : Log!LogContact(k)
    BY DEF Log!EnterContact
  <1>4. UNCHANGED <<openFor, events, querySeq, cache>> /\ FrameTypes' /\ clicks' \in 0..MaxClicks
    BY <1>1, <1>2, ClickTypes DEF FrameTypes
  <1>5. /\ logs' \in [Operators -> SUBSET Log!Rows] /\ worked' \subseteq Keys
        /\ Log!WorkedIsLog' /\ ListInv' /\ QueueTypes'
    BY <1>2, <1>3, <1>4, ContactLogged
  <1>6. StoreTypes' /\ ScreenTypes'
    BY <1>1, <1>2, <1>4, <1>5 DEF StoreTypes, ScreenTypes
  <1>7. QED
    BY <1>4, <1>5, <1>6, LogTypesNext DEF LogInv

\* "Delete selected".
LEMMA DeleteSelectedInv == LogInv /\ Log!DeleteSelected => LogInv'
  <1> SUFFICES ASSUME LogInv, Log!DeleteSelected PROVE LogInv'
    OBVIOUS
  <1>1. FrameTypes /\ StoreTypes /\ ScreenTypes
    BY LogTypes DEF LogInv
  <1> DEFINE ids == {s.id : s \in selection}
  <1>2. /\ Log!Click /\ Log!Without(ids) /\ selection' = {}
        /\ misplaced' \in {misplaced, misplaced \cup {"delete"}}
        /\ UNCHANGED <<op, jobs, view, dialogs, plan, busy>>
    BY DEF Log!DeleteSelected
  <1> HIDE DEF ids
  <1>3. misplaced' \subseteq {"delete", "edit", "import", "upload", "download"}
    BY <1>1, <1>2 DEF ScreenTypes
  <1>4. ScreenTypes'
    BY <1>1, <1>2, <1>3, ClickTypes DEF ScreenTypes
  <1>5. QED
    BY <1>1, <1>2, <1>4, WithoutTypes, ChangeClick

\* An edit saved, a deletion confirmed.
LEMMA DialogClicksInv == LogInv /\ (Log!SaveEdit \/ Log!ConfirmDelete) => LogInv'
  <1> SUFFICES ASSUME LogInv, Log!SaveEdit \/ Log!ConfirmDelete PROVE LogInv'
    OBVIOUS
  <1>1. FrameTypes /\ StoreTypes /\ ScreenTypes
    BY LogTypes DEF LogInv
  <1>2. ASSUME NEW d, Log!CloseDialog(d)
        PROVE  /\ Log!Click /\ d.kind \in {"edit", "delete"}
               /\ UNCHANGED <<op, jobs>> /\ ScreenTypes'
    <2>1. /\ Log!Click /\ d \in dialogs /\ dialogs' = dialogs \ {d}
          /\ Log!Note(d.kind, d.log) \/ UNCHANGED misplaced
          /\ UNCHANGED <<op, jobs, view, selection, plan, busy>>
      BY <1>2 DEF Log!CloseDialog
    <2>2. d.kind \in {"edit", "delete"}
      BY <1>1, <2>1 DEF ScreenTypes
    <2>3. misplaced' \subseteq {"delete", "edit", "import", "upload", "download"}
      BY <1>1, <2>1, <2>2, Noted DEF ScreenTypes
    <2>4. ScreenTypes'
      BY <1>1, <2>1, <2>3, ClickTypes DEF ScreenTypes
    <2>5. QED
      BY <2>1, <2>2, <2>4
  <1>3. CASE Log!SaveEdit
    <2>1. PICK d \in dialogs, k \in Keys :
            /\ Log!CloseDialog(d)
            /\ Log!Change({IF r.id = d.id THEN [r EXCEPT !.key = k] ELSE r : r \in logs[openFor]})
            /\ UNCHANGED <<uploaded, confirmed>>
      BY <1>3 DEF Log!SaveEdit, Log!marks
    <2>2. {IF r.id = d.id THEN [r EXCEPT !.key = k] ELSE r : r \in logs[openFor]}
            \in SUBSET Log!Rows
      <3>1. ASSUME NEW r \in logs[openFor]
            PROVE  (IF r.id = d.id THEN [r EXCEPT !.key = k] ELSE r) \in Log!Rows
        BY <1>1 DEF FrameTypes, StoreTypes, Log!Rows
      <3>2. QED
        BY <3>1
    <2>3. uploaded' \in [Operators -> SUBSET Log!Ids] /\ confirmed' \in [Operators -> SUBSET Log!Ids]
      BY <1>1, <2>1 DEF StoreTypes
    <2>4. QED
      BY <1>2, <2>1, <2>2, <2>3, ChangeClick
  <1>4. CASE Log!ConfirmDelete
    <2>1. PICK d \in dialogs : Log!CloseDialog(d) /\ Log!Without({d.id})
      BY <1>4 DEF Log!ConfirmDelete
    <2>2. QED
      BY <1>1, <1>2, <2>1, WithoutTypes, ChangeClick
  <1>5. QED
    BY <1>3, <1>4

\* An import committed.
LEMMA CommitImportInv == LogInv /\ Log!CommitImport => LogInv'
  <1> SUFFICES ASSUME LogInv, Log!CommitImport PROVE LogInv'
    OBVIOUS
  <1>1. FrameTypes /\ StoreTypes /\ ScreenTypes
    BY LogTypes DEF LogInv
  <1>2. /\ Log!Click /\ plan # None /\ Log!Imported(plan.keys) /\ plan' = None
        /\ Log!Note("import", plan.log)
        /\ UNCHANGED <<op, uploaded, confirmed, jobs, view, selection, dialogs, busy>>
    BY DEF Log!CommitImport, Log!marks, Log!picked
  <1> DEFINE table == Log!Inserted(logs[openFor], plan.keys)
  <1>3. Log!Fits(logs[openFor], plan.keys) /\ Log!Change(table)
    BY <1>2 DEF Log!Imported
  <1>4. plan.keys \in SUBSET Keys /\ logs[openFor] \in SUBSET Log!Rows
    BY <1>1, <1>2, LogConstants DEF ScreenTypes, FrameTypes, StoreTypes
  <1>5. table \in SUBSET Log!Rows
    BY <1>3, <1>4, InsertedRows
  <1> HIDE DEF table
  <1>6. ScreenTypes'
    <2>1. misplaced' \subseteq {"delete", "edit", "import", "upload", "download"}
      BY <1>1, <1>2, Noted
    <2>2. QED
      BY <1>1, <1>2, <2>1, ClickTypes DEF ScreenTypes
  <1>7. uploaded' \in [Operators -> SUBSET Log!Ids] /\ confirmed' \in [Operators -> SUBSET Log!Ids]
    BY <1>1, <1>2 DEF StoreTypes
  <1>8. QED
    BY <1>2, <1>3, <1>5, <1>6, <1>7, ChangeClick

\* The worker takes a job: a query before a later one is dropped.
LEMMA WorkInv == LogInv /\ Log!Work => LogInv'
  <1> SUFFICES ASSUME LogInv, Log!Work PROVE LogInv'
    OBVIOUS
  <1>1. FrameTypes /\ StoreTypes /\ QueueTypes /\ ScreenTypes /\ ListInv
    BY LogTypes DEF LogInv
  <1> DEFINE head == Head(jobs)
  <1>2. /\ jobs # <<>> /\ jobs' = Tail(jobs)
        /\ IF Log!Superseded(1) THEN UNCHANGED events
           ELSE \E e \in Log!Answer(head) : events' = Append(events, e)
        /\ UNCHANGED <<op, phase, snap, openFor, logs, uploaded, confirmed, worked, querySeq,
                       cache, dirty, view, selection, dialogs, plan, busy, misplaced, clicks>>
    BY DEF Log!Work, Log!frame, Log!log, Log!marks, Log!ui, Log!picked
  <1>3. /\ jobs' \in Seq(Log!Jobs) /\ Len(jobs') = Len(jobs) - 1 /\ Len(jobs) \in Nat \ {0}
        /\ \A i \in 1..Len(jobs') : jobs'[i] = jobs[i + 1]
        /\ head = jobs[1] /\ head \in Log!Jobs
    BY <1>1, <1>2, HeadTailProperties, EmptySeq DEF QueueTypes
  <1> HIDE DEF head
  <1>4. \A i \in 1..Len(jobs') : i + 1 \in 1..Len(jobs) /\ jobs'[i] = jobs[i + 1]
    BY <1>3
  <1>5. FrameTypes' /\ StoreTypes' /\ ScreenTypes' /\ Log!WorkedIsLog'
    BY <1>1, <1>2 DEF FrameTypes, StoreTypes, ScreenTypes, LogInv, Log!WorkedIsLog
  <1>6. /\ \A i \in 1..Len(jobs) : jobs[i].kind = "query" => jobs[i].seq \in Nat
        /\ querySeq \in Nat
    BY <1>1 DEF QueueTypes, Log!Jobs
  <1>7. \A i : Queued(i)' <=> (jobs'[i].kind = "query" /\ jobs'[i].seq = querySeq)
    BY <1>2 DEF Queued
  <1>8. ASSUME NEW i \in 1..Len(jobs), Queued(i), i # 1
        PROVE  \E k \in 1..Len(jobs') : Queued(k)'
    <2>1. i - 1 \in 1..Len(jobs') /\ i - 1 + 1 = i
      BY <1>3, <1>8
    <2>2. PICK k \in 1..Len(jobs') : k + 1 = i
      BY <2>1, <1>3
    <2>3. jobs'[k] = jobs[i]
      BY <1>3, <2>2
    <2>4. Queued(k)'
      BY <1>7, <1>8, <2>3 DEF Queued
    <2>5. QED
      BY <2>4
  <1>9. \A i \in 1..Len(jobs') : Queued(i)' => i + 1 \in 1..Len(jobs) /\ Queued(i + 1)
                                                /\ jobs'[i] = jobs[i + 1]
    BY <1>4, <1>7 DEF Queued
  <1>10. /\ \A i, j \in 1..Len(jobs') : i < j /\ jobs'[i].kind = "query" /\ jobs'[j].kind = "query"
              => jobs'[i].seq < jobs'[j].seq
         /\ \A i \in 1..Len(jobs') : jobs'[i].kind = "query" => jobs'[i].seq <= querySeq
    <2>1. \A i, j \in 1..Len(jobs') : i < j => i + 1 < j + 1
      BY <1>3
    <2>2. QED
      BY <1>1, <1>4, <2>1 DEF ListInv, NumberedInOrder
  <1>11. CASE Log!Superseded(1)
    <2>1. events' = events
      BY <1>2, <1>11
    <2>2. QueueTypes'
      BY <1>1, <1>2, <1>3, <2>1 DEF QueueTypes
    <2>3. ~Queued(1)
      <3>1. PICK j \in 2..Len(jobs) : jobs[1].kind = "query" /\ jobs[j].kind = "query"
        BY <1>11 DEF Log!Superseded
      <3>2. 1 \in 1..Len(jobs) /\ j \in 1..Len(jobs) /\ 1 < j
        BY <1>3
      <3>3. jobs[1].seq < jobs[j].seq /\ jobs[j].seq <= querySeq
        BY <1>1, <3>1, <3>2 DEF ListInv, NumberedInOrder
      <3>4. QED
        BY <1>6, <3>1, <3>2, <3>3 DEF Queued
    <2>4. \A i : Answered(i)' <=> Answered(i)
      BY <1>2, <2>1 DEF Answered
    <2>5. NumberedInOrder'
      BY <1>1, <1>2, <1>10, <2>1 DEF ListInv, NumberedInOrder
    <2>6. ListCurrent'
      <3>1. SUFFICES ASSUME dirty' = FALSE PROVE ListCurrent'
        BY DEF ListCurrent
      <3>2. Leaving' <=> Leaving
        BY <1>2 DEF Leaving
      <3>3. \/ cache = logs[openFor]
            \/ \E i \in 1..Len(jobs') : Queued(i)'
            \/ \E i \in 1..Len(events) : Answered(i)
        BY <1>1, <1>2, <1>8, <2>3, <3>1 DEF ListInv, ListCurrent
      <3>4. QED
        BY <1>1, <1>2, <1>9, <2>1, <2>4, <3>1, <3>2, <3>3 DEF ListInv, ListCurrent
    <2>7. QED
      BY <1>5, <2>2, <2>5, <2>6, LogTypesNext DEF LogInv, ListInv
  <1>12. CASE ~Log!Superseded(1)
    <2>1. PICK e \in Log!Answer(head) : events' = Append(events, e)
      BY <1>2, <1>12
    <2>2. /\ head.log \in Operators
          /\ head.kind \in {"query", "plan", "upload", "download"}
          /\ head.kind = "query" => head.seq \in Nat
      BY <1>3 DEF Log!Jobs
    <2>3. /\ e \in Log!Events
          /\ e.kind = "contacts" <=> head.kind = "query"
          /\ head.kind = "query" => e.seq = head.seq /\ e.rows = logs[head.log]
      <3>1. logs[head.log] \in SUBSET Log!Rows
        BY <1>1, <2>2 DEF StoreTypes
      <3>2. {r.id : r \in logs[head.log]} \in SUBSET Log!Ids
        BY <3>1 DEF Log!Rows
      <3>3. CASE head.kind = "query"
        <4>1. e = [kind |-> "contacts", seq |-> head.seq, rows |-> logs[head.log]]
          BY <2>1, <3>3 DEF Log!Answer
        <4>2. QED
          BY <2>2, <3>1, <3>3, <4>1 DEF Log!Events
      <3>4. CASE head.kind = "plan"
        <4>1. e = [kind |-> "planned", log |-> head.log,
                   keys |-> Log!Planned(logs[head.log])]
          BY <2>1, <3>4 DEF Log!Answer
        <4>2. Log!Planned(logs[head.log]) \in SUBSET FileKeys
          BY DEF Log!Planned
        <4>3. QED
          BY <2>2, <3>4, <4>1, <4>2 DEF Log!Events
      <3>5. CASE head.kind = "upload"
        <4>1. e = [kind |-> "uploaded", log |-> head.log,
                   ids |-> {r.id : r \in logs[head.log]} \ uploaded[head.log]]
          BY <2>1, <3>5 DEF Log!Answer
        <4>2. QED
          BY <2>2, <3>2, <3>5, <4>1 DEF Log!Events, Log!Replies
      <3>6. CASE head.kind = "download"
        <4>1. PICK c \in SUBSET {r.id : r \in logs[head.log]} :
                e = [kind |-> "downloaded", log |-> head.log, ids |-> c \ confirmed[head.log]]
          BY <2>1, <3>6 DEF Log!Answer
        <4>2. QED
          BY <2>2, <3>2, <3>6, <4>1 DEF Log!Events, Log!Replies
      <3>7. QED
        BY <2>2, <3>3, <3>4, <3>5, <3>6
    <2>4. /\ events' \in Seq(Log!Events) /\ Len(events') = Len(events) + 1 /\ Len(events) \in Nat
          /\ \A i \in 1..Len(events) : events'[i] = events[i]
          /\ events'[Len(events) + 1] = e
      BY <1>1, <2>1, <2>3, AppendProperties DEF QueueTypes
    <2>5. \A i \in 1..Len(events') : \/ i \in 1..Len(events) /\ events'[i] = events[i]
                                     \/ i = Len(events) + 1 /\ events'[i] = e
      BY <2>4
    <2>6. QueueTypes'
      BY <1>1, <1>2, <1>3, <2>4 DEF QueueTypes
    <2>7. 1 \in 1..Len(jobs) /\ head = jobs[1]
      BY <1>3
    <2>8. NumberedInOrder'
      <3>1. e.kind = "contacts" => e.seq <= querySeq
        BY <1>1, <2>3, <2>7 DEF ListInv, NumberedInOrder
      <3>2. \A i \in 1..Len(events') : events'[i].kind = "contacts" => events'[i].seq <= querySeq
        BY <1>1, <2>5, <3>1 DEF ListInv, NumberedInOrder
      <3>3. QED
        BY <1>2, <1>10, <3>2 DEF NumberedInOrder
    <2>9. ListCurrent'
      <3>1. SUFFICES ASSUME dirty' = FALSE PROVE ListCurrent'
        BY DEF ListCurrent
      <3>2. Leaving' <=> Leaving
        BY <1>2 DEF Leaving
      <3>3. \A i : Answered(i)' <=> (events'[i].kind = "contacts" /\ events'[i].seq = querySeq)
        BY <1>2 DEF Answered
      <3>4. \A i \in 1..Len(events) : Answered(i) => i \in 1..Len(events') /\ Answered(i)'
        BY <2>4, <3>3 DEF Answered
      <3>5. /\ \A i \in 1..Len(jobs) :
                 Queued(i) => jobs[i].log = openFor \/ (Leaving /\ jobs[i].log = snap)
            /\ \A i \in 1..Len(events) :
                 Answered(i) => events[i].rows = logs[openFor] \/ Leaving
            /\ \/ cache = logs[openFor]
               \/ \E i \in 1..Len(jobs) : Queued(i)
               \/ \E i \in 1..Len(events) : Answered(i)
        BY <1>1, <1>2, <3>1 DEF ListInv, ListCurrent
      <3>6. Queued(1) => \E i \in 1..Len(events') : Answered(i)'
        <4>1. SUFFICES ASSUME Queued(1) PROVE \E i \in 1..Len(events') : Answered(i)'
          OBVIOUS
        <4>2. e.kind = "contacts" /\ e.seq = querySeq
          BY <2>3, <2>7, <4>1 DEF Queued
        <4>3. PICK i \in 1..Len(events') : i = Len(events) + 1
          BY <2>4
        <4>4. QED
          BY <2>4, <3>3, <4>2, <4>3
      <3>7. e.kind = "contacts" /\ e.seq = querySeq => e.rows = logs[openFor] \/ Leaving
        BY <2>3, <2>7, <3>5 DEF Queued
      <3>8. \A i \in 1..Len(events') : Answered(i)' => events'[i].rows = logs[openFor] \/ Leaving
        BY <2>5, <3>3, <3>5, <3>7 DEF Answered
      <3>9. \/ cache = logs[openFor]
            \/ \E i \in 1..Len(jobs') : Queued(i)'
            \/ \E i \in 1..Len(events') : Answered(i)'
        BY <1>8, <3>4, <3>5, <3>6
      <3>10. QED
        BY <1>2, <1>9, <3>2, <3>5, <3>8, <3>9 DEF ListCurrent
    <2>10. QED
      BY <1>5, <2>6, <2>8, <2>9, LogTypesNext DEF LogInv, ListInv
  <1>13. QED
    BY <1>11, <1>12

\* Every step keeps the invariant of the contact log.
LEMMA LogNextInv == LogInv /\ Log!Next => LogInv'
  BY BeginFrameInv, WsjtxContactInv, DrainEventInv, DrawInv, SyncLogInv, QuietClicksInv,
     JobClicksInv, EnterContactInv, DeleteSelectedInv, DialogClicksInv, CommitImportInv, WorkInv
  DEF Log!Next
-----------------------------------------------------------------------------
(* All parts.                                                               *)

\* A part at rest keeps its invariant.
LEMMA LogRests == ASSUME LogInv, UNCHANGED logVars PROVE LogInv'
  <1>1. /\ FrameTypes' /\ StoreTypes' /\ QueueTypes' /\ ScreenTypes'
    BY LogTypes DEF LogInv, logVars, FrameTypes, StoreTypes, QueueTypes, ScreenTypes
  <1>2. Log!WorkedIsLog'
    BY DEF LogInv, logVars, Log!WorkedIsLog
  <1>3. ListInv'
    BY ListKept DEF LogInv, logVars
  <1>4. QED
    BY <1>1, <1>2, <1>3, LogTypesNext DEF LogInv

\* The exports at rest.
LEMMA ExportRests == ASSUME ExportInv, UNCHANGED exportVars PROVE ExportInv'
  <1>1. Export!TypeOK'
    BY DEF ExportInv, exportVars, Export!TypeOK
  <1>2. IdsGiven'
    BY DEF ExportInv, exportVars, IdsGiven
  <1>3. StillToCome'
    BY DEF ExportInv, exportVars, StillToCome, ToBeWritten
  <1>4. QED
    BY <1>1, <1>2, <1>3 DEF ExportInv

\* The waterfall at rest.
LEMMA RowsRest == ASSUME RowsInv, UNCHANGED rowsVars PROVE RowsInv'
  <1>1. Waterfall!TypeOK'
    BY DEF RowsInv, rowsVars, Waterfall!TypeOK
  <1>2. Waterfall!RowsWhole'
    BY DEF RowsInv, rowsVars, Waterfall!RowsWhole, Waterfall!NotMixed,
           Waterfall!HolesRepeated
  <1>3. /\ SentOnce' /\ OfItsRows(reasm)'
        /\ (sent.before + sent.chunks <= SentRows * Chunks)'
    BY DEF RowsInv, rowsVars, SentOnce, OfItsRows, IsSent
  <1>4. HolesCounted(reasm, net, repeats)'
    BY DEF RowsInv, rowsVars, HolesCounted, OneRow, Again, Waterfall!Holes
  <1>5. QED
    BY <1>1, <1>2, <1>3, <1>4 DEF RowsInv

\* The receive audio at rest.
LEMMA AudioRests == ASSUME AudioInv, UNCHANGED audioVars PROVE AudioInv'
  <1>1. Audio!TypeOK' /\ Audio!NoPacketBehind'
    BY AudioTypes, AudioTypesNext DEF AudioInv, audioVars
  <1>2. QED
    BY <1>1 DEF AudioInv, audioVars

\* The microphone at rest.
LEMMA MicRests == ASSUME MicInv, UNCHANGED micVars PROVE MicInv'
  <1>1. Mic!TypeOK' /\ PressedFirst'
    BY DEF MicInv, micVars, Mic!TypeOK, PressedFirst
  <1>2. RingIsCurrent' /\ SentUnderOwnPress' /\ Mic!QueueIsCurrent'
    BY DEF MicInv, micVars, RingIsCurrent, SentUnderOwnPress, Mic!QueueIsCurrent
  <1>3. QED
    BY <1>1, <1>2 DEF MicInv

\* The capture loop at rest.
LEMMA CaptureRests == ASSUME CaptureInv, UNCHANGED captureVars PROVE CaptureInv'
  <1>1. Loops!TypeOK' /\ captureSnap' \in Controls
    BY DEF CaptureInv, captureVars, Loops!TypeOK
  <1>2. BeliefIsTrue' /\ TunedForSnapshot' /\ StillTuned' /\ SweptLast' /\ Loops!GateOfB'
    BY DEF CaptureInv, captureVars, BeliefIsTrue, TunedForSnapshot, StillTuned, SweptLast,
           Loops!GateOfB
  <1>3. QED
    BY <1>1, <1>2 DEF CaptureInv

\* The change of rate at rest.
LEMMA RateRests == ASSUME RateInv, UNCHANGED rateVars PROVE RateInv'
  <1>1. Rate!TypeOK' /\ Rate!OneStrayBlock'
    BY DEF RateInv, rateVars, Rate!TypeOK, Rate!OneStrayBlock
  <1>2. Seen' <=> Seen
    BY DEF rateVars, Seen
  <1>3. Unseen' <=> Unseen
    BY DEF rateVars, Unseen
  <1>4. QED
    BY <1>1, <1>2, <1>3 DEF RateInv, rateVars

\* The recording at rest.
LEMMA IqRests == ASSUME IqInv, UNCHANGED iqVars PROVE IqInv'
  <1>1. Iq!TypeOK' /\ Iq!FileWhole'
    BY DEF IqInv, iqVars, Iq!TypeOK, Iq!FileWhole
  <1>2. NothingLost' <=> NothingLost
    BY DEF iqVars, NothingLost
  <1>3. QED
    BY <1>1, <1>2 DEF IqInv, iqVars

\* The invariant of the part that runs.
PartsInv ==
    /\ part = "log" => LogInv
    /\ part = "export" => ExportInv
    /\ part = "rows" => RowsInv
    /\ part = "audio" => AudioInv
    /\ part = "mic" => MicInv
    /\ part = "capture" => CaptureInv
    /\ part = "rate" => RateInv
    /\ part = "iq" => IqInv

\* Whichever part runs keeps its invariant.
LEMMA PartsInvariance == PartsSpec => []PartsInv
  <1>1. PartsInit => PartsInv
    BY LogInitInv, ExportInitInv, RowsInitInv, AudioInitInv, MicInitInv, CaptureInitInv,
       RateInitInv, IqInitInv
    DEF PartsInit, PartsInv
  <1>2. PartsInv /\ [PartsNext]_all => PartsInv'
    <2> SUFFICES ASSUME PartsInv, [PartsNext]_all PROVE PartsInv'
      OBVIOUS
    <2>1. CASE LogNext
      BY <2>1, LogNextInv DEF LogNext, PartsInv
    <2>2. CASE ExportNext
      BY <2>2, ExportNextInv DEF ExportNext, PartsInv
    <2>3. CASE WaterfallNext
      BY <2>3, RowsNextInv DEF WaterfallNext, PartsInv
    <2>4. CASE AudioNext
      BY <2>4, AudioNextInv DEF AudioNext, PartsInv
    <2>5. CASE MicNext
      BY <2>5, MicNextInv DEF MicNext, PartsInv
    <2>6. CASE LoopsNext
      BY <2>6, CaptureNextInv DEF LoopsNext, PartsInv
    <2>7. CASE RateNext
      BY <2>7, RateNextInv DEF RateNext, PartsInv
    <2>8. CASE IqNext
      BY <2>8, IqNextInv DEF IqNext, PartsInv
    <2>9. CASE UNCHANGED all
      <3>1. UNCHANGED <<part, logVars, exportVars, rowsVars, audioVars, micVars, captureVars,
                        rateVars, iqVars>>
        BY <2>9 DEF all
      <3>2. QED
        BY <3>1, LogRests, ExportRests, RowsRest, AudioRests, MicRests, CaptureRests, RateRests,
           IqRests
        DEF PartsInv
    <2>10. QED
      BY <2>1, <2>2, <2>3, <2>4, <2>5, <2>6, <2>7, <2>8, <2>9 DEF PartsNext, Ended
  <1>3. QED
    BY <1>1, <1>2, PTL DEF PartsSpec

\* Every part keeps its types: the logs of the operators, the export's row ids, the
\* reassembler, the jitter buffer, the microphone's queues, the capture loop's mirrors,
\* the rates and the recorder.
THEOREM StreamsTypeCorrect == PartsSpec => []AllTypeOK
  <1>1. PartsInv => AllTypeOK
    BY DEF PartsInv, AllTypeOK, LogInv, ExportInv, RowsInv, AudioInv, MicInv, CaptureInv,
           RateInv, IqInv
  <1>2. QED
    BY <1>1, PartsInvariance, PTL

\* The contacts listed and the index of what was worked are those of the open log, and
\* no contact falls behind the export bookmark of its log unwritten, unless its row id was
\* given before, the filter of an incremental run left it out, or a run over the log of
\* another operator moved the bookmark (maybe_requery_contacts, sync_log_state and
\* load_worked_before; the export stream of run_export and ExportEvent::Done).
THEOREM LogStaysWhole == PartsSpec => []LogWhole
  <1>1. PartsInv => LogWhole
    BY ListInvSettles, ExportInvSkipsNothing DEF PartsInv, LogWhole, LogInv
  <1>2. QED
    BY <1>1, PartsInvariance, PTL

\* With packets lost, doubled and reordered, and for any number of rows and of workers
\* that send them, a waterfall row shown mixes two rows only if their row_seq is the same
\* (it came round in between, or a worker began afresh), and one of one row has a hole
\* only for a doubled chunk (push_chunk); and what waits in the jitter buffer is ahead of
\* the playout position (push_packet, fill_playout).
THEOREM MediaStaysInOrder == PartsSpec => []MediaInOrder
  <1>1. PartsInv => MediaInOrder
    BY DEF PartsInv, MediaInOrder, RowsInv, AudioInv
  <1>2. QED
    BY <1>1, PartsInvariance, PTL

\* No microphone audio of an earlier press is queued for a later over, unless a datagram
\* was overtaken by the StartMicTx sent after it (the ring is emptied at each press and
\* release, the queue at each StartMicTx).
THEOREM QueueStaysCurrent == PartsSpec => []QueueIsCurrent
  <1>1. PartsInv => QueueIsCurrent
    BY DEF PartsInv, QueueIsCurrent, MicInv
  <1>2. QED
    BY <1>1, PartsInvariance, PTL

\* Copying VFO A's settings to B keeps B's squelch gate, and with one receiver every turn
\* tunes to the filter of the dial, unless an over on the dial's own band, in dual watch or
\* after a sweep of another band, made the thread lose it (the capture loop's mirrors of
\* what it last set).
THEOREM CaptureStaysFollowing == PartsSpec => []CaptureFollows
  <1>1. PartsInv => CaptureFollows
    BY CaptureInvFollows DEF PartsInv, CaptureFollows
  <1>2. QED
    BY <1>1, PartsInvariance, PTL

\* At most one block of the new rate is demodulated at the one before the change, and a finished
\* recording is the blocks written, in order and whole (record_block, IqRecorder::stop).
THEOREM BlocksStayKept == PartsSpec => []BlocksKept
  <1>1. PartsInv => BlocksKept
    BY DEF PartsInv, BlocksKept, RateInv, IqInv
  <1>2. QED
    BY <1>1, PartsInvariance, PTL
=============================================================================
