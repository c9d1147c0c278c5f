----------------------------- MODULE RateSwitch -----------------------------
(***************************************************************************)
(* A new sample rate on its way through the worker: the command thread     *)
(* stores it, the capture thread sets the source to it and confirms it,    *)
(* the DSP thread rebuilds its pipeline for the rate confirmed and drops   *)
(* the blocks still queued.  A block is known by the rate it was captured  *)
(* at.                                                                     *)
(***************************************************************************)
EXTENDS Naturals, Sequences

CONSTANTS Rates,
          Depth,     \* of the queue to the DSP thread (iq_audio_tx)
          Switches   \* bound on the rates asked for

VARIABLES
    asked,      \* control.source_control.sample_rate_hz
    applied,    \* of the capture thread
    source,     \* the rate the hardware runs at
    confirmed,  \* confirmed_sample_rate_hz
    reading,    \* the capture thread has a block to capture and to deliver
    queue,      \* iq_audio_rx
    pipeline,   \* pipeline_sample_rate_hz
    taking,     \* the DSP thread has looked at the rate and waits for a block
    switched,   \* history: rates confirmed, in all and since the DSP thread looked
    strays,     \* history: blocks processed at a rate not theirs
    doubtful,   \* history: two rates confirmed at once, or a source that stopped half way
    asks

vars == <<asked, applied, source, confirmed, reading, queue, pipeline, taking,
          switched, strays, doubtful, asks>>
rate == <<asked, applied, source, confirmed, asks>>
history == <<switched, strays, doubtful>>

Init ==
    /\ asked \in Rates
    /\ applied = asked /\ source = asked /\ confirmed = asked /\ pipeline = asked
    /\ reading = FALSE /\ taking = FALSE /\ queue = <<>>
    /\ switched = [all |-> 0, unseen |-> 0] /\ strays = 0 /\ doubtful = FALSE /\ asks = 0

\* The sample rate of the panel, or of the replay: SetSourceSampleRate.
Ask ==
    /\ asks < Switches /\ asks' = asks + 1
    /\ asked' \in Rates \ {asked}
    /\ UNCHANGED <<applied, source, confirmed, reading, queue, pipeline, taking, history>>

Confirm ==
    /\ source' = asked /\ applied' = asked /\ confirmed' = asked
    /\ switched' = [all |-> switched.all + 1, unseen |-> switched.unseen + 1]
    /\ doubtful' = (doubtful \/ switched.unseen > 0)

\* set_sample_rate failed before or after the rate of the hardware was set.
Fail ==
    /\ source' \in {source, asked}
    /\ doubtful' = (doubtful \/ source' # confirmed)
    /\ UNCHANGED <<applied, confirmed, switched>>

\* The top of a turn of the capture thread; a rate refused is set again next turn.
Turn ==
    /\ ~reading /\ reading' = TRUE
    /\ IF asked = applied THEN UNCHANGED <<source, applied, confirmed, switched, doubtful>>
       ELSE Confirm \/ Fail
    /\ UNCHANGED <<asked, queue, pipeline, taking, strays, asks>>

\* Its end: the block, if there was one, is delivered once there is room.
Deliver ==
    /\ reading /\ Len(queue) < Depth
    /\ reading' = FALSE
    /\ queue' \in {queue, Append(queue, source)}
    /\ UNCHANGED <<rate, pipeline, taking, history>>

\* Slip: the blocks of the old rate stay in the queue.
RebuildOnly == pipeline' = confirmed /\ UNCHANGED queue

Rebuild == pipeline' = confirmed /\ queue' = <<>>

\* The top of a turn of the DSP thread.
Look ==
    /\ ~taking /\ taking' = TRUE
    /\ IF confirmed = pipeline THEN UNCHANGED <<pipeline, queue>> ELSE Rebuild
    /\ switched' = [switched EXCEPT !.unseen = 0]
    /\ UNCHANGED <<rate, reading, strays, doubtful>>

\* recv_timeout: a block, or none in 10 ms.
Take ==
    /\ taking /\ taking' = FALSE
    /\ \/ /\ queue # <<>> /\ queue' = Tail(queue)
          /\ strays' = strays + IF Head(queue) = pipeline \/ doubtful THEN 0 ELSE 1
       \/ queue = <<>> /\ UNCHANGED <<queue, strays>>
    /\ UNCHANGED <<rate, reading, pipeline, switched, doubtful>>

Next == Ask \/ Turn \/ Deliver \/ Look \/ Take

Spec == Init /\ [][Next]_vars

-----------------------------------------------------------------------------
(* Every variable holds a value of its kind, and the queue its bound.       *)
TypeOK ==
    /\ {asked, applied, source, confirmed, pipeline} \subseteq Rates
    /\ Len(queue) <= Depth /\ \A i \in DOMAIN queue : queue[i] \in Rates
    /\ {reading, taking, doubtful} \subseteq BOOLEAN

(* Of the blocks captured around a change of the sample rate at most one is  *)
(* demodulated at a rate that is not its own: what was queued is dropped     *)
(* with the old pipeline, and only a block taken between the confirmation    *)
(* and the rebuild escapes.  (Not so when two changes are confirmed within   *)
(* one turn of the DSP thread, which then sees none, nor while a source that *)
(* changed its rate and then failed is set again.)                           *)
OneStrayBlock == strays <= switched.all
=============================================================================
