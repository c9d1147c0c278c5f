------------------------------ MODULE RxAudio ------------------------------
(***************************************************************************)
(* Receive audio from the radio worker to the loudspeaker: the worker's    *)
(* UdpAudioSender, which numbers its packets from 0 in every session, the  *)
(* network, the media thread of the client, which resets the jitter buffer *)
(* when the control connection reports a new session, and JitterBuffer     *)
(* itself with the audio callback that empties it.                         *)
(***************************************************************************)
EXTENDS Naturals, FiniteSets, FiniteSetsExt

CONSTANTS PacketSamples,    \* samples of one packet
          TargetSamples,    \* target_buffer_samples
          MaxSamples,       \* max_buffer_samples
          TrimSamples,      \* samples a mild drift correction drops
          PopSizes,         \* frames one audio callback may ask for
          Sessions,         \* bound: radio sessions
          Packets           \* bound: packets sent in one session

\* MCLive and MCStreams assume it of their instances.
JitterAssumption == /\ PacketSamples \in Nat \ {0}
                    /\ TargetSamples \in Nat /\ TargetSamples >= PacketSamples
                    /\ MaxSamples \in Nat /\ MaxSamples >= TargetSamples
                    /\ TrimSamples \in Nat /\ PopSizes \subseteq Nat
                    /\ Sessions \in Nat /\ Packets \in Nat

VARIABLES worker,   \* the server: session number, running, next sequence
          net,      \* datagrams in flight
          events,   \* RadioAcquired / RadioReleased not yet read by the client
          gen,      \* audio_session_generation
          seen,     \* last_audio_session_generation of the media thread
          phase,    \* where the media loop stands
          jb        \* the jitter buffer

vars == <<worker, net, events, gen, seen, phase, jb>>

Sequences == 0 .. Packets - 1
Datagram == [session : 1 .. Sessions, sequence : Sequences]

Buffer == [started : BOOLEAN, next : Nat, pending : SUBSET Sequences,
           playout : Nat, conceals : 0 .. 2]

EmptyBuffer == [started |-> FALSE, next |-> 0, pending |-> {},
                playout |-> 0, conceals |-> 0]

\* Every variable has its type.
TypeOK == /\ worker \in [session : 0 .. Sessions, on : BOOLEAN, next : 0 .. Packets]
          /\ net \subseteq Datagram
          /\ events \in 0 .. 2 * Sessions
          /\ gen \in 0 .. 2 * Sessions /\ seen \in 0 .. gen
          /\ phase \in {"check", "recv"}
          /\ jb \in Buffer

Init == /\ worker = [session |-> 0, on |-> FALSE, next |-> 0]
        /\ net = {}
        /\ events = 0 /\ gen = 0 /\ seen = 0
        /\ phase = "check"
        /\ jb = EmptyBuffer

-----------------------------------------------------------------------------
(* The jitter buffer. *)

Buffered(b) == b.playout + Cardinality(b.pending) * PacketSamples

CanStart(b) == Cardinality(b.pending) * PacketSamples >= TargetSamples

\* One turn of the loop of fill_playout: the expected packet, or silence in
\* its place when a later one is there; the third silence in a row re-anchors.
Conceal(b) ==
  LET moved == [b EXCEPT !.playout = @ + PacketSamples, !.next = @ + 1,
                         !.conceals = @ + 1]
  IN IF moved.conceals >= 3
     THEN [moved EXCEPT !.next = Min(b.pending), !.conceals = 0]
     ELSE moved

\* Slip: a missing packet is waited for, never concealed.
FillTurnWaiting(b) ==
  IF b.next \in b.pending
  THEN [b EXCEPT !.pending = @ \ {b.next}, !.playout = @ + PacketSamples,
                 !.next = @ + 1, !.conceals = 0]
  ELSE b

FillTurn(b) ==
  IF b.next \in b.pending
  THEN [b EXCEPT !.pending = @ \ {b.next}, !.playout = @ + PacketSamples,
                 !.next = @ + 1, !.conceals = 0]
  ELSE IF b.pending # {} /\ Min(b.pending) > b.next
       THEN Conceal(b)
       ELSE b

\* fill_playout: turns until the playout holds the target or a turn changes
\* nothing; a turn adds a packet's worth, so this many are enough.
Turns == TargetSamples \div PacketSamples + 1

Filled(b) ==
  LET after[n \in 0 .. Turns] ==
        IF n = 0 THEN {b}
        ELSE {IF s.playout < TargetSamples THEN FillTurn(s) ELSE s : s \in after[n - 1]}
  IN IF b.started THEN CHOOSE s \in after[Turns] : TRUE ELSE b

Started(b) ==
  IF ~b.started /\ CanStart(b)
  THEN [b EXCEPT !.started = TRUE, !.next = Min(b.pending)]
  ELSE b

\* Slip: packets older than the playout position are kept.
NeverTooLate(b, q) == FALSE

TooLate(b, q) == b.started /\ q < b.next

Pushed(b, q) ==
  IF TooLate(b, q) \/ Buffered(b) >= MaxSamples
  THEN b
  ELSE Filled(Started([b EXCEPT !.pending = @ \union {q}]))

Less(a, b) == IF a > b THEN a - b ELSE 0

\* apply_drift_correction: how many samples are trimmed.
Trim(len) ==
  LET excess == len - TargetSamples
      quarter == PacketSamples \div 4
  IN CASE len <= TargetSamples -> 0
       [] len > TargetSamples /\ excess >= quarter /\ excess < PacketSamples ->
            TrimSamples
       [] len > TargetSamples /\ excess >= PacketSamples /\ excess < 4 * PacketSamples ->
            IF quarter > TrimSamples THEN quarter ELSE TrimSamples
       [] len > TargetSamples /\ excess >= 4 * PacketSamples ->
            Less(len, TargetSamples + PacketSamples \div 2)
       [] OTHER -> 0

Popped(b, n) ==
  IF ~b.started THEN b
  ELSE LET full == Filled(b)
           trimmed == Less(full.playout, Trim(full.playout))
       IN [full EXCEPT !.playout = Less(trimmed, n)]

-----------------------------------------------------------------------------
(* The server: sessions and their audio. *)

Acquire == /\ ~worker.on /\ worker.session < Sessions
           /\ worker' = [session |-> worker.session + 1, on |-> TRUE, next |-> 0]
           /\ events' = events + 1
           /\ UNCHANGED <<net, gen, seen, phase, jb>>

Release == /\ worker.on
           /\ worker' = [worker EXCEPT !.on = FALSE]
           /\ events' = events + 1
           /\ UNCHANGED <<net, gen, seen, phase, jb>>

SendPacket ==
  /\ worker.on /\ worker.next < Packets
  /\ net' = net \union {[session |-> worker.session, sequence |-> worker.next]}
  /\ worker' = [worker EXCEPT !.next = @ + 1]
  /\ UNCHANGED <<events, gen, seen, phase, jb>>

(* The client: control connection, media thread, audio callback. *)

HearEvent == /\ events > 0
             /\ events' = events - 1
             /\ gen' = gen + 1
             /\ UNCHANGED <<worker, net, seen, phase, jb>>

CheckSession == /\ phase = "check"
                /\ phase' = "recv"
                /\ seen' = gen
                /\ jb' = IF gen # seen THEN EmptyBuffer ELSE jb
                /\ UNCHANGED <<worker, net, events, gen>>

\* Any datagram in flight may come next, may come again (it then stays in
\* flight), or never: nothing makes the network deliver.
Receive == /\ phase = "recv"
           /\ phase' = "check"
           /\ \E p \in net, again \in BOOLEAN :
                /\ net' = IF again THEN net ELSE net \ {p}
                /\ jb' = Pushed(jb, p.sequence)
           /\ UNCHANGED <<worker, events, gen, seen>>

RecvTimeout == /\ phase = "recv"
               /\ phase' = "check"
               /\ UNCHANGED <<worker, net, events, gen, seen, jb>>

Pop == \E n \in PopSizes : /\ jb.started
                           /\ jb' = Popped(jb, n)
                           /\ UNCHANGED <<worker, net, events, gen, seen, phase>>

Next == \/ Acquire \/ Release \/ SendPacket \/ HearEvent
        \/ CheckSession \/ Receive \/ RecvTimeout \/ Pop

\* The operating system keeps calling the audio callback.
Fairness == WF_vars(Pop)

Spec == Init /\ [][Next]_vars /\ Fairness

-----------------------------------------------------------------------------
\* What waits in the buffer is still ahead of the playout position: nothing
\* can get stuck there (fill_playout: "should normally not happen because
\* older packets are dropped in push_packet").  Loss, reordering, duplicates,
\* concealment, re-anchoring and resets all move the position.
NoPacketBehind == jb.started => \A q \in jb.pending : q >= jb.next

\* "tolerate packet loss without permanently stalling": a packet that waits
\* in a started buffer is played (or the session is reset), whatever is lost.
NoStall == \A q \in Sequences :
             jb.started /\ q \in jb.pending ~> ~jb.started \/ q \notin jb.pending

\* The media thread resets the buffer for a new session, "otherwise [it] keeps
\* a stale next_sequence from the old session and drops the new session's
\* packets as late": once the reset is done the playout position is one the
\* running session has reached.
AnchoredInSession ==
  jb.started /\ worker.on /\ events = 0 /\ seen = gen => jb.next <= worker.next

=============================================================================
