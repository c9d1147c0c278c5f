---------------------------- MODULE IqRecording -----------------------------
(***************************************************************************)
(* Recording the IQ of the source into a WAV file.  The commands leave a   *)
(* request, the capture thread starts and stops the recorder and queues    *)
(* each block for the thread that writes the file, without waiting for it; *)
(* stopping waits until the file is finished, and the file is then played  *)
(* back as a source of its own (source/wav.rs).  Blocks are numbered in    *)
(* the order they are captured.                                            *)
(***************************************************************************)
EXTENDS Naturals, Sequences, FiniteSets

CONSTANTS Rates,
          Capacity,  \* CHANNEL_CAPACITY, in blocks
          Wrap,      \* 2^32 bytes, in blocks
          None,
          Blocks     \* bound on the blocks captured

VARIABLES
    asked, source,  \* the sample rate asked for, and the one the source has
    start, stop,    \* pending_iq_record_start, pending_iq_record_stop
    shown,          \* iq_recording_status.recording
    at,             \* the capture thread: at the top, reading, joining the writer to
                    \* go on or to end, over
    rec,            \* iq_rec, None or its rate, first block and dropped blocks
    chan,           \* blocks queued for the writer
    file,           \* blocks it has written
    broken,         \* it gave up: a write failed
    wavs,           \* the files finished
    next            \* number of the next block

writer == <<chan, file, broken>>
radio == <<asked, source, next>>
vars == <<radio, start, stop, shown, at, rec, writer, wavs>>

Init ==
    /\ asked \in Rates /\ source = asked /\ next = 0
    /\ start = FALSE /\ stop = FALSE /\ shown = FALSE
    /\ at = "top" /\ rec = None
    /\ chan = <<>> /\ file = <<>> /\ broken = FALSE
    /\ wavs = {}

-----------------------------------------------------------------------------
(* The commands; the panel offers the one that fits the status it shows.    *)

\* The later request replaces the earlier.
Requested(on) == start' = on /\ stop' = ~on

StartRecording ==
    /\ ~shown /\ at # "over"
    /\ Requested(TRUE)
    /\ UNCHANGED <<radio, shown, at, rec, writer, wavs>>

StopRecording ==
    /\ shown /\ at # "over"
    /\ Requested(FALSE)
    /\ UNCHANGED <<radio, shown, at, rec, writer, wavs>>

SetRate ==
    /\ asked' \in Rates \ {asked}
    /\ UNCHANGED <<source, next, start, stop, shown, at, rec, writer, wavs>>

-----------------------------------------------------------------------------
(* The capture thread.                                                      *)

\* IqRecorder::start, unless the file cannot be created.
Begin ==
    /\ at' = "reading"
    /\ \/ /\ rec' = [rate |-> source', first |-> next, dropped |-> 0]
          /\ chan' = <<>> /\ file' = <<>> /\ broken' = FALSE
       \/ UNCHANGED <<rec, writer>>

\* The top of a turn: the rate first, then what was requested.
Turn ==
    /\ at = "top"
    /\ source' = asked
    /\ start' = FALSE /\ stop' = FALSE
    /\ \/ stop /\ rec # None /\ at' = "joining" /\ UNCHANGED <<rec, writer>>
       \/ start /\ rec = None /\ Begin
       \/ ~(stop /\ rec # None) /\ ~(start /\ rec = None)
            /\ at' = "reading" /\ UNCHANGED <<rec, writer>>
    /\ UNCHANGED <<asked, next, shown, wavs>>

\* record_block: a block is dropped when the queue is full, and not counted when there is
\* no writer.
Record(block) ==
    IF broken THEN UNCHANGED <<rec, chan>>
    ELSE IF Len(chan) < Capacity THEN chan' = Append(chan, block) /\ UNCHANGED rec
    ELSE rec' = [rec EXCEPT !.dropped = @ + 1] /\ UNCHANGED chan

\* The status, when it is due, and the block, if the source has one.
Read ==
    /\ at = "reading" /\ at' = "top"
    /\ shown' \in {shown, rec # None}
    /\ \/ /\ next < Blocks /\ next' = next + 1
          /\ IF rec = None THEN UNCHANGED <<rec, chan>>
             ELSE Record([number |-> next, rate |-> source])
       \/ UNCHANGED <<next, rec, chan>>
    /\ UNCHANGED <<asked, source, start, stop, file, broken, wavs>>

\* finalize: the sizes in the header have 32 bits.
Finished ==
    [rate |-> rec.rate, blocks |-> file, size |-> Len(file) % Wrap, broken |-> broken,
     captured |-> next - rec.first, dropped |-> rec.dropped]

Finalize ==
    /\ wavs' = wavs \cup {Finished} /\ rec' = None
    /\ at' = IF at = "ending" THEN "over" ELSE "reading"
    /\ UNCHANGED <<radio, start, stop, shown, writer>>

\* Slip: the writer is not waited for.
JoinAtOnce == at \in {"joining", "ending"} /\ Finalize

\* IqRecorder::stop: the writer takes what is queued, finishes the file and ends.
Join == at \in {"joining", "ending"} /\ (chan = <<>> \/ broken) /\ Finalize

\* The worker stops, and the capture thread with it.
End ==
    /\ at = "top"
    /\ at' = IF rec = None THEN "over" ELSE "ending"
    /\ UNCHANGED <<radio, start, stop, shown, rec, writer, wavs>>

-----------------------------------------------------------------------------
(* writer_loop: a block is written, or the disk fails and the writer ends.  *)
Write ==
    /\ rec # None /\ ~broken /\ chan # <<>>
    /\ \/ /\ file' = Append(file, Head(chan)) /\ chan' = Tail(chan)
          /\ UNCHANGED broken
       \/ broken' = TRUE /\ chan' = <<>> /\ UNCHANGED file
    /\ UNCHANGED <<radio, start, stop, shown, at, rec, wavs>>

Next ==
    \/ StartRecording \/ StopRecording \/ SetRate
    \/ Turn \/ Read \/ Join \/ End \/ Write

Spec == Init /\ [][Next]_vars

\* IqWavReader: the samples the header announces, at the rate it names.
Played(wav) == SubSeq(wav.blocks, 1, wav.size)

-----------------------------------------------------------------------------
(* Every variable holds a value of its kind, and the queue its bound.       *)
TypeOK ==
    /\ {asked, source} \subseteq Rates
    /\ {start, stop, shown, broken} \subseteq BOOLEAN
    /\ at \in {"top", "reading", "joining", "ending", "over"}
    /\ Len(chan) <= Capacity

InOrder(blocks) == \A i \in 2 .. Len(blocks) : blocks[i - 1].number < blocks[i].number

(* However the capture thread, the writer and the end of the worker          *)
(* interleave, a recording whose writes did not fail has every block         *)
(* captured from its start to its stop, in order, but those it says it       *)
(* dropped (record_block, IqRecorder::stop).                                 *)
FileWhole ==
    \A w \in wavs : ~w.broken => /\ InOrder(w.blocks)
                                 /\ Len(w.blocks) + w.dropped = w.captured

(* "so the WAV header is always valid" (worker.rs:2962), "and replays        *)
(* directly" (iq_recorder.rs:15): what is played is what was recorded.  The  *)
(* sizes are cut to 32 bits, 224 s at 2.4 million samples a second.          *)
PlaysWhole == \A w \in wavs : Played(w) = w.blocks

(* "at the source sample rate" (iq_recorder.rs:12): a recording goes on when *)
(* the rate changes, under the header of the old one.                        *)
OneRate == \A w \in wavs : \A i \in DOMAIN w.blocks : w.blocks[i].rate = w.rate

(* "blocks are dropped (counted, logged)" (iq_recorder.rs:9): what a file    *)
(* does not have is counted.  A failed write ends the writer, and the blocks *)
(* after it are neither written nor counted.                                 *)
LossShown == \A w \in wavs : Len(w.blocks) + w.dropped = w.captured
=============================================================================
