------------------------------ MODULE MCStreams -----------------------------
(***************************************************************************)
(* The contact log and the media streams, one part at a time, in the way   *)
(* of MCPanels: the log of an operator and its exports, the waterfall and  *)
(* the audio that arrive, the microphone that leaves, and the threads of   *)
(* the worker that capture, demodulate and record.                         *)
(***************************************************************************)
EXTENDS Naturals, FiniteSets

CONSTANTS None,
          Operators, Keys, FileKeys, MaxRows, MaxClicks,          \* OperatorLog
          ExportBands, MaxContacts,                               \* LogExport
          SentRows, Senders, RowIds, Chunks, MaxRepeats,          \* WaterfallRows
          PacketSamples, TargetSamples, MaxSamples, TrimSamples,  \* RxAudio
          PopSizes, Sessions, Packets,
          MaxPresses, RingMax, QueueMax, Prefill, MaxInFlight,    \* MicUplink
          Bands, Tuner, Direct, QueueCap, MaxCommands,            \* CaptureLoop
          Rates, Depth, Switches,                                 \* RateSwitch
          IqRates, Capacity, Wrap, Blocks                         \* IqRecording

VARIABLES part,
          op, phase, snap, openFor, logs, uploaded, confirmed, worked, jobs,
          events, querySeq, cache, dirty, view, selection, dialogs, plan, busy,
          misplaced, clicks,
          operator, rows, logged, topId, bookmark, reissued, exported, narrowed,
          misfiled, job, summary,
          sent, net, reasm, shown, repeats,
          worker, audioNet, audioEvents, gen, seen, audioPhase, jb,
          press, streaming, ring, micNet, cmds, queue, started, overtaken, active,
          pending, over, onAir,
          hw, control, mirror, gateB, pc, captureSnap, last, source, swept, astray,
          captureQueue, stop, asked,
          rateAsked, applied, rateSource, rateConfirmed, reading, rateQueue,
          pipeline, taking, switched, strays, doubtful, asks,
          iqAsked, iqSource, start, iqStop, iqShown, at, rec, chan, file, broken,
          wavs, next

logVars == <<op, phase, snap, openFor, logs, uploaded, confirmed, worked, jobs,
             events, querySeq, cache, dirty, view, selection, dialogs, plan, busy,
             misplaced, clicks>>
exportVars == <<operator, rows, logged, topId, bookmark, reissued, exported, narrowed,
                misfiled, job, summary>>
rowsVars == <<sent, net, reasm, shown, repeats>>
audioVars == <<worker, audioNet, audioEvents, gen, seen, audioPhase, jb>>
micVars == <<press, streaming, ring, micNet, cmds, queue, started, overtaken,
             active, pending, over, onAir>>
captureVars == <<hw, control, mirror, gateB, pc, captureSnap, last, source, swept,
                 astray, captureQueue, stop, asked>>
rateVars == <<rateAsked, applied, rateSource, rateConfirmed, reading, rateQueue,
              pipeline, taking, switched, strays, doubtful, asks>>
iqVars == <<iqAsked, iqSource, start, iqStop, iqShown, at, rec, chan, file, broken,
            wavs, next>>
all == <<part, logVars, exportVars, rowsVars, audioVars, micVars, captureVars,
         rateVars, iqVars>>

Log == INSTANCE OperatorLog

Export == INSTANCE LogExport WITH Bands <- ExportBands

Waterfall == INSTANCE WaterfallRows WITH Rows <- SentRows

Audio == INSTANCE RxAudio WITH
    net <- audioNet, events <- audioEvents, phase <- audioPhase

Mic == INSTANCE MicUplink WITH net <- micNet

Loops == INSTANCE CaptureLoop WITH snap <- captureSnap, queue <- captureQueue

Rate == INSTANCE RateSwitch WITH
    asked <- rateAsked, source <- rateSource, confirmed <- rateConfirmed,
    queue <- rateQueue

Iq == INSTANCE IqRecording WITH
    Rates <- IqRates, asked <- iqAsked, source <- iqSource, stop <- iqStop,
    shown <- iqShown

ASSUME PartsAssumption ==
    /\ MaxRows \in Nat \ {0} /\ MaxClicks \in Nat
    /\ IsFiniteSet(Keys) /\ Keys # {} /\ FileKeys \subseteq Keys
    /\ MaxContacts \in Nat
    /\ SentRows \in Nat /\ MaxRepeats \in Nat /\ Waterfall!RowIdsAssumption
    /\ Senders \in Nat \ {0} /\ None \notin Waterfall!RowNumbers
    /\ Audio!JitterAssumption
    /\ MaxPresses \in Nat /\ RingMax \in Nat /\ QueueMax \in Nat
    /\ Bands \subseteq Nat /\ (\E top \in Bands : \A f \in Bands : f <= top)
    /\ Tuner \subseteq Bands /\ Tuner # {} /\ Direct \subseteq Bands /\ Direct # {}
    /\ None \notin Bands /\ None \notin Loops!Filters
    /\ QueueCap \in Nat /\ MaxCommands \in Nat
    /\ Depth \in Nat
    /\ Capacity \in Nat

\* The operators of the log are symmetrical.
PartsInit ==
    /\ part \in {"log", "export", "rows", "audio", "mic", "capture", "rate", "iq"}
    /\ IF part = "log" THEN Log!Init /\ op = CHOOSE o \in Operators : TRUE
       ELSE /\ op = None /\ phase = None /\ snap = None /\ openFor = None
            /\ logs = None /\ uploaded = None /\ confirmed = None
            /\ worked = None /\ jobs = None /\ events = None /\ querySeq = None
            /\ cache = None /\ dirty = None /\ view = None /\ selection = None
            /\ dialogs = None /\ plan = None /\ busy = None /\ misplaced = None
            /\ clicks = None
    /\ IF part = "export" THEN Export!Init
       ELSE /\ operator = None /\ rows = None /\ logged = None /\ topId = None
            /\ bookmark = None /\ reissued = None /\ exported = None
            /\ narrowed = None /\ misfiled = None /\ job = None /\ summary = None
    /\ IF part = "rows" THEN Waterfall!Init
       ELSE /\ sent = None /\ net = None /\ reasm = None /\ shown = None
            /\ repeats = None
    /\ IF part = "audio" THEN Audio!Init
       ELSE /\ worker = None /\ audioNet = None /\ audioEvents = None
            /\ gen = None /\ seen = None /\ audioPhase = None /\ jb = None
    /\ IF part = "mic" THEN Mic!Init
       ELSE /\ press = None /\ streaming = None /\ ring = None /\ micNet = None
            /\ cmds = None /\ queue = None /\ started = None /\ overtaken = None
            /\ active = None /\ pending = None /\ over = None /\ onAir = None
    /\ IF part = "capture" THEN Loops!Init
       ELSE /\ hw = None /\ control = None /\ mirror = None /\ gateB = None
            /\ pc = None /\ captureSnap = None /\ last = None /\ source = None
            /\ swept = None /\ astray = None /\ captureQueue = None
            /\ stop = None /\ asked = None
    /\ IF part = "rate" THEN Rate!Init
       ELSE /\ rateAsked = None /\ applied = None /\ rateSource = None
            /\ rateConfirmed = None /\ reading = None /\ rateQueue = None
            /\ pipeline = None /\ taking = None /\ switched = None
            /\ strays = None /\ doubtful = None /\ asks = None
    /\ IF part = "iq" THEN Iq!Init
       ELSE /\ iqAsked = None /\ iqSource = None /\ start = None /\ iqStop = None
            /\ iqShown = None /\ at = None /\ rec = None /\ chan = None
            /\ file = None /\ broken = None /\ wavs = None /\ next = None

\* One component steps.
LogNext ==
    /\ part = "log" /\ Log!Next
    /\ UNCHANGED <<part, exportVars, rowsVars, audioVars, micVars, captureVars,
                     rateVars, iqVars>>

ExportNext ==
    /\ part = "export" /\ Export!Next
    /\ UNCHANGED <<part, logVars, rowsVars, audioVars, micVars, captureVars,
                     rateVars, iqVars>>

WaterfallNext ==
    /\ part = "rows" /\ Waterfall!Next
    /\ UNCHANGED <<part, logVars, exportVars, audioVars, micVars, captureVars,
                     rateVars, iqVars>>

AudioNext ==
    /\ part = "audio" /\ Audio!Next
    /\ UNCHANGED <<part, logVars, exportVars, rowsVars, micVars, captureVars,
                     rateVars, iqVars>>

MicNext ==
    /\ part = "mic" /\ Mic!Next
    /\ UNCHANGED <<part, logVars, exportVars, rowsVars, audioVars, captureVars,
                     rateVars, iqVars>>

LoopsNext ==
    /\ part = "capture" /\ Loops!Next
    /\ UNCHANGED <<part, logVars, exportVars, rowsVars, audioVars, micVars,
                     rateVars, iqVars>>

RateNext ==
    /\ part = "rate" /\ Rate!Next
    /\ UNCHANGED <<part, logVars, exportVars, rowsVars, audioVars, micVars,
                     captureVars, iqVars>>

IqNext ==
    /\ part = "iq" /\ Iq!Next
    /\ UNCHANGED <<part, logVars, exportVars, rowsVars, audioVars, micVars,
                     captureVars, rateVars>>

\* Those whose bounded inputs run out, or whose threads may be told to stop.
Ended ==
    /\ part \in {"log", "export", "rows", "audio", "mic", "capture", "iq"}
    /\ UNCHANGED all

PartsNext ==
    \/ LogNext \/ ExportNext \/ WaterfallNext \/ AudioNext \/ MicNext
    \/ LoopsNext \/ RateNext \/ IqNext \/ Ended

PartsSpec == PartsInit /\ [][PartsNext]_all

(***************************************************************************)
(* Properties: those of the components, which say what they are about.     *)
(***************************************************************************)

\* Every component keeps its types.
AllTypeOK ==
    /\ part = "log" => Log!TypeOK
    /\ part = "export" => Export!TypeOK
    /\ part = "rows" => Waterfall!TypeOK
    /\ part = "audio" => Audio!TypeOK
    /\ part = "mic" => Mic!TypeOK
    /\ part = "capture" => Loops!TypeOK
    /\ part = "rate" => Rate!TypeOK
    /\ part = "iq" => Iq!TypeOK

\* The contacts listed, and the index that tells what was worked before, are those of
\* the open log; and no contact falls behind the export bookmark of its log unwritten
\* unless its row id was given before, the filter of an incremental run left it out, or
\* a run over the log of another operator moved the bookmark.
LogWhole ==
    /\ part = "log" => Log!ViewIsLog /\ Log!WorkedIsLog
    /\ part = "export" => Export!NothingSkipped

\* With packets lost, doubled and reordered, a waterfall row shown mixes two rows only if
\* their row_seq cannot tell them apart (it came round in between, or a worker began
\* afresh), and one of one row has a hole only for a doubled chunk; and what waits in the
\* jitter buffer is ahead of the playout position.
MediaInOrder ==
    /\ part = "rows" => Waterfall!RowsWhole
    /\ part = "audio" => Audio!NoPacketBehind

\* No microphone audio of an earlier press is queued for a later over, unless a datagram
\* was overtaken by the StartMicTx sent after it.
QueueIsCurrent ==
    part = "mic" => Mic!QueueIsCurrent

\* The copy of VFO A's settings for VFO B does not lose the squelch gate of B, and with
\* one receiver every turn tunes to the filter of the dial, whatever overs, sweeps and
\* switches of mode came before, but for an over on the dial's own band that dual watch
\* or a sweep of another band in the same turn made the thread lose.
CaptureFollows ==
    part = "capture" => Loops!GateOfB /\ Loops!FilterFollowsDial

\* After a change of sample rate at most one block of the new rate is demodulated at
\* the old one, and a finished recording is the blocks written, in order and whole.
BlocksKept ==
    /\ part = "rate" => Rate!OneStrayBlock
    /\ part = "iq" => Iq!FileWhole
=============================================================================
