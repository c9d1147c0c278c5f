------------------------------- MODULE MicUplink -------------------------------
(***************************************************************************)
(* Microphone audio from the client's capture callback to the transmitter: *)
(* the client's ring, filled while the operator holds PTT; the thread that *)
(* sends it in datagrams, which can be lost and late; the server's queue;  *)
(* and the over that prefills from it and drains it.  StartMicTx and       *)
(* StopMicTx travel apart from the audio, over the control connection.     *)
(* Audio is told apart by the press of PTT it was captured under.          *)
(***************************************************************************)
EXTENDS Integers, Sequences, SequencesExt

CONSTANTS MaxPresses,   \* bound on the presses of PTT
          RingMax,      \* TX_RING_MAX, in blocks of audio
          QueueMax,     \* MAX_SAMPLES, in blocks
          Prefill,      \* PREFILL_SAMPLES, in blocks
          MaxInFlight,  \* bound on the datagrams in the network
          None

Presses == 1..MaxPresses

VARIABLES press,      \* presses of PTT so far
          streaming,  \* tx_streaming
          ring,       \* tx_ring: the press of each block
          net,        \* datagrams: press of the audio, press they were sent under
          cmds,       \* StartMicTx (its press) and StopMicTx (0), in order
          queue,      \* MIC_QUEUE
          started,    \* press of the last StartMicTx handled
          overtaken,  \* a datagram sent under an earlier press came after it
          active,     \* mic_tx_active
          pending,    \* pending_mic_tx
          over,       \* "idle", "prefill" or "drain": tx_ssb_mic
          onAir       \* the block last modulated

vars == <<press, streaming, ring, net, cmds, queue, started, overtaken, active,
          pending, over, onAir>>
client == <<press, streaming, ring, cmds>>
radio == <<active, pending, over, onAir>>

\* Every variable has its type.
TypeOK == /\ {press, started} \subseteq 0..MaxPresses
          /\ {streaming, overtaken, active, pending} \subseteq BOOLEAN
          /\ ring \in Seq(Presses) /\ queue \in Seq(Presses)
          /\ Len(ring) <= RingMax /\ Len(queue) <= QueueMax
          /\ net \in Seq([press : Presses, sent : Presses])
          /\ cmds \in Seq(0..MaxPresses)
          /\ over \in {"idle", "prefill", "drain"} /\ onAir \in Presses \cup {None}

Init == /\ press = 0 /\ started = 0
        /\ streaming = FALSE /\ overtaken = FALSE /\ active = FALSE /\ pending = FALSE
        /\ ring = <<>> /\ net = <<>> /\ cmds = <<>> /\ queue = <<>>
        /\ over = "idle" /\ onAir = None

\* Slip: nothing is dropped.
PushedAlways(q, b, max) == Append(q, b)

\* A full ring or queue drops its oldest.
Pushed(q, b, max) == LET grown == Append(q, b)
                     IN IF Len(grown) > max THEN Tail(grown) ELSE grown

-----------------------------------------------------------------------------
(* The client.                                                               *)

\* Slip: stopping leaves the ring as it is, and starting too.
KeepsRing(on) == /\ streaming' = on /\ UNCHANGED ring

SetTxStreaming(on) == /\ streaming' = on
                      /\ ring' = IF streaming = on THEN ring ELSE <<>>

PressPtt == /\ ~streaming /\ press < MaxPresses
            /\ SetTxStreaming(TRUE)
            /\ press' = press + 1
            /\ cmds' = Append(cmds, press')
            /\ UNCHANGED <<net, queue, started, overtaken, radio>>

ReleasePtt == /\ streaming
              /\ cmds' = Append(cmds, 0)
              /\ SetTxStreaming(FALSE)
              /\ UNCHANGED <<press, net, queue, started, overtaken, radio>>

Capture == /\ streaming
           /\ ring' = Pushed(ring, press, RingMax)
           /\ UNCHANGED <<press, streaming, net, cmds, queue, started, overtaken, radio>>

\* The send thread drains the ring into datagrams.
Send == /\ ring # <<>> /\ Len(net) + Len(ring) <= MaxInFlight
        /\ net' = net \o [i \in 1..Len(ring) |-> [press |-> ring[i], sent |-> press]]
        /\ ring' = <<>>
        /\ UNCHANGED <<press, streaming, cmds, queue, started, overtaken, radio>>

-----------------------------------------------------------------------------
(* The network and the server's listener.                                    *)

Receive == \E i \in 1..Len(net) :
             /\ queue' = Pushed(queue, net[i].press, QueueMax)
             /\ overtaken' = (overtaken \/ net[i].sent < started)
             /\ net' = RemoveAt(net, i)
             /\ UNCHANGED <<client, started, radio>>

Lose == \E i \in 1..Len(net) : /\ net' = RemoveAt(net, i)
                               /\ UNCHANGED <<client, queue, started, overtaken, radio>>

-----------------------------------------------------------------------------
(* The worker: its command thread and its capture thread.                    *)

\* Slip: only the last key-up's audio is dropped, at key-up.
ClearedAtStop(start) == IF start THEN queue ELSE <<>>

\* "Drop any stale buffered mic audio from a prior over."
ClearedAtStart(start) == IF start THEN <<>> ELSE queue

Command == /\ cmds # <<>>
           /\ LET start == Head(cmds) # 0 IN
                /\ queue' = ClearedAtStart(start)
                /\ started' = IF start THEN Head(cmds) ELSE started
                /\ overtaken' = (overtaken /\ ~start)
                /\ active' = start /\ pending' = start
           /\ cmds' = Tail(cmds)
           /\ UNCHANGED <<press, streaming, ring, net, over, onAir>>

\* The over begins, or is refused: the transmit mode is not a sideband one, or
\* the amplifier did not follow to the band.
Begin == /\ over = "idle" /\ pending
         /\ pending' = FALSE
         /\ \/ /\ over' = "prefill" /\ UNCHANGED active
            \/ /\ active' = FALSE /\ UNCHANGED over
         /\ UNCHANGED <<client, net, queue, started, overtaken, onAir>>

\* Slip: the cushion is waited for without a deadline.
FillsFirst(timedOut) == Len(queue) >= Prefill

\* The queue has filled, or PREFILL_MAX_MS is over.
FillsOrTimesOut(timedOut) == Len(queue) >= Prefill \/ timedOut

PrefillEnds == /\ over = "prefill" /\ active
               /\ \E timedOut \in BOOLEAN : FillsOrTimesOut(timedOut)
               /\ over' = "drain"
               /\ UNCHANGED <<client, net, queue, started, overtaken, active, pending, onAir>>

\* One packet; an empty queue is padded with silence.
Pull == /\ over = "drain" /\ active
        /\ onAir' = IF queue = <<>> THEN None ELSE Head(queue)
        /\ queue' = IF queue = <<>> THEN queue ELSE Tail(queue)
        /\ UNCHANGED <<client, net, started, overtaken, active, pending, over>>

\* Key-up; or the ceiling, a failed send or a stop of the worker, with PTT held.
EndOver == /\ over # "idle"
           /\ over' = "idle" /\ onAir' = None
           /\ UNCHANGED <<client, net, queue, started, overtaken, active, pending>>

Next == \/ PressPtt \/ ReleasePtt \/ Capture \/ Send
        \/ Receive \/ Lose \/ Command
        \/ Begin \/ PrefillEnds \/ Pull \/ EndOver

SafetySpec == Init /\ [][Next]_vars
Spec == SafetySpec /\ WF_vars(PrefillEnds \/ (EndOver /\ ~active))

-----------------------------------------------------------------------------
\* No audio of an earlier press is queued for a new over (and so none goes on
\* the air), unless a datagram was overtaken by the StartMicTx sent after it:
\* neither the ring nor the queue carries one press's audio into the next.
QueueIsCurrent == ~overtaken => \A i \in 1..Len(queue) : queue[i] >= started

\* "Bounded by a deadline so we never hang if the client is slow to start
\* streaming": an over does not stay in its prefill.
PrefillIsBounded == over = "prefill" ~> over # "prefill"

\* "called when a key-up/stop occurs so stale audio doesn't leak": nothing is
\* left in the queue once a key-up was handled and the network is empty.
KeyUpClears == cmds = <<>> /\ net = <<>> /\ started > 0 /\ ~active => queue = <<>>

=============================================================================
