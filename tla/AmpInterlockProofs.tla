-------------------------- MODULE AmpInterlockProofs --------------------------
(***************************************************************************)
(* The interlock between the poller of the amplifier and the capture       *)
(* thread, for any bands and any number of sweeps and commands.            *)
(***************************************************************************)
EXTENDS AmpInterlock, SequenceTheorems, TLAPS

\* No sweep but the one under way has asked the poller for anything yet, and neither has
\* the operator: the poller's commands are all bypasses.
FirstSweep == sets = 0 /\ (sweeps = 0 \/ (sweeps = 1 /\ saved # None))

OnlyBypasses == FirstSweep => \A i \in 1..Len(queue) : queue[i] = "Off"

\* What was read, and what was published of it, may be old; but a bypass read once is
\* not undone.
OffIsOff == FirstSweep => ("Off" \in {reading, status} => amp.mode = "Off")

\* A mode to come back to is kept from the bypass to its restore, and there is none
\* before the first sweep.
SavedInSweep ==
    saved # None => /\ sweeping /\ sweeps > 0
                    /\ at \in {"wait", "points", "prefill", "ptt", "release", "restore"}

\* Past the confirmation, the amplifier is bypassed.
PulsesBypassed ==
    FirstSweep /\ saved # None /\ at \in {"points", "prefill", "ptt", "release"} =>
        amp.mode = "Off"

AmpInv == TypeOK /\ OnlyBypasses /\ OffIsOff /\ SavedInSweep /\ PulsesBypassed

\* No mode is the mark of none.
LEMMA NoneIsNone == None \notin Bands /\ None # "Off" /\ None # "Ptt"
  BY AmpAssumption DEF AmpAssumption

\* A worker that starts knows of no amplifier.
LEMMA AmpInitInv == Init => AmpInv
  <1> SUFFICES ASSUME Init PROVE AmpInv
    OBVIOUS
  <1>1. 0 \in 0..MaxSets /\ 0 \in 0..MaxSweeps /\ queue \in Seq(Modes) /\ Len(queue) = 0
    BY AmpAssumption DEF AmpAssumption, Init
  <1>2. TypeOK
    BY <1>1 DEF Init, TypeOK, Modes, Statuses, Dials
  <1>3. OnlyBypasses /\ OffIsOff /\ SavedInSweep /\ PulsesBypassed
    BY <1>1, NoneIsNone DEF Init, OnlyBypasses, OffIsOff, SavedInSweep, PulsesBypassed
  <1>4. QED
    BY <1>2, <1>3 DEF AmpInv

\* The operator: a mode set by hand ends what the invariant says of the first sweep.
LEMMA OperatorInv ==
    ASSUME AmpInv, OperatorStep
    PROVE  AmpInv'
  <1> USE DEF AmpInv, TypeOK, FirstSweep, OnlyBypasses, OffIsOff, SavedInSweep,
              PulsesBypassed, pvars, cvars
  <1>1. ASSUME NEW m \in Modes, SetKeyingMode(m)
        PROVE  AmpInv'
    <2>1. stale' \in BOOLEAN
      BY <1>1 DEF SetKeyingMode
    <2>2. /\ queue' \in Seq(Modes) /\ wanted' \in Modes /\ sets' \in 1..MaxSets
          /\ UNCHANGED <<dial, stop, pvars, target, at, snap, sweeping, saved, sweeps>>
      BY <1>1, AmpAssumption DEF SetKeyingMode, AmpAssumption
    <2>3. TypeOK'
      BY <2>1, <2>2
    <2>4. ~FirstSweep'
      BY <2>2
    <2>5. (OnlyBypasses /\ OffIsOff /\ PulsesBypassed)'
      BY <2>4
    <2>6. SavedInSweep'
      BY <2>2
    <2>7. QED
      BY <2>3, <2>5, <2>6
  <1>2. ASSUME NEW d \in Dials, SetDial(d)
        PROVE  AmpInv'
    BY <1>2 DEF SetDial
  <1>3. CASE StopWorker
    BY <1>3 DEF StopWorker
  <1>4. QED
    BY <1>1, <1>2, <1>3 DEF OperatorStep

\* A command applied is a bypass, in the first sweep.
LEMMA ApplyInv ==
    ASSUME AmpInv, ApplyFirst \/ ApplyNext
    PROVE  AmpInv'
  <1>1. /\ queue # <<>> /\ queue' = Tail(queue) /\ poller' = "applied"
        /\ amp' = [amp EXCEPT !.mode = Head(queue)] \/ amp' = amp
        /\ lost' \in BOOLEAN
        /\ UNCHANGED <<status, faSent, freq, reading, operator, cvars>>
    BY DEF ApplyFirst, ApplyNext, ApplyHead, Poll, Quiet
  <1>2. /\ queue \in Seq(Modes) /\ Head(queue) \in Modes /\ queue' \in Seq(Modes)
        /\ Head(queue) = queue[1] /\ 1 \in 1..Len(queue)
    BY <1>1 DEF AmpInv, TypeOK
  <1>3. \A i \in 1..Len(queue') : queue'[i] = queue[i + 1] /\ i + 1 \in 1..Len(queue)
    BY <1>1, <1>2
  <1>4. TypeOK'
    BY <1>1, <1>2 DEF AmpInv, TypeOK, operator, cvars
  <1>5. FirstSweep' = FirstSweep
    BY <1>1 DEF FirstSweep, operator, cvars
  <1>6. OnlyBypasses'
    BY <1>3, <1>5 DEF AmpInv, OnlyBypasses
  <1>7. FirstSweep => (amp.mode = "Off" => amp'.mode = "Off")
    BY <1>1, <1>2 DEF AmpInv, OnlyBypasses, TypeOK
  <1>8. (OffIsOff /\ SavedInSweep /\ PulsesBypassed)'
    BY <1>1, <1>5, <1>7 DEF AmpInv, OffIsOff, SavedInSweep, PulsesBypassed, cvars
  <1>9. QED
    BY <1>4, <1>6, <1>8 DEF AmpInv

\* The rest of the poller's cycle reads the amplifier, and does not change its mode.
LEMMA PollerInv ==
    ASSUME AmpInv, PollerStep
    PROVE  AmpInv'
  <1> USE DEF Poll, Quiet, operator, cvars, AmpInv, TypeOK, FirstSweep, OnlyBypasses,
              OffIsOff, SavedInSweep, PulsesBypassed
  <1>1. CASE PollerTop
    BY <1>1 DEF PollerTop
  <1>2. CASE Abandon
    BY <1>2 DEF Abandon
  <1>3. CASE ApplyFirst \/ ApplyNext
    BY <1>3, ApplyInv
  <1>4. CASE Drained
    BY <1>4 DEF Drained
  <1>5. CASE SendFa
    BY <1>5 DEF SendFa
  <1>6. CASE FaSent
    BY <1>6 DEF FaSent
  <1>7. CASE NothingToTrack
    BY <1>7 DEF NothingToTrack
  <1>8. CASE Query
    BY <1>8, NoneIsNone DEF Query
  <1>9. CASE Publish
    BY <1>9 DEF Publish, Statuses, Modes
  <1>10. QED
    BY <1>1, <1>2, <1>3, <1>4, <1>5, <1>6, <1>7, <1>8, <1>9 DEF PollerStep

\* A bypass joins the queue as a sweep that knows the mode to come back to begins.
LEMMA BeginSweepInv ==
    ASSUME AmpInv, BeginSweep
    PROVE  AmpInv'
  <1> USE DEF Goes, Sound, operator, pvars
  <1>1. /\ saved = None /\ sweeps' = sweeps + 1 /\ sweeps' \in 1..MaxSweeps
        /\ UNCHANGED <<amp, reading, status, sets>>
    BY AmpAssumption DEF BeginSweep, AmpInv, TypeOK, SavedInSweep, AmpAssumption
  <1>2. CASE saved' = None
    <2>1. UNCHANGED queue
      BY <1>2, NoneIsNone DEF BeginSweep, AmpInv, TypeOK, Statuses, Modes
    <2>2. at' \in {"points", "top"} /\ sweeping' \in BOOLEAN
      BY <1>2, NoneIsNone DEF BeginSweep, AmpInv, TypeOK, Statuses, Modes
    <2>3. TypeOK'
      BY <1>1, <1>2, <2>1, <2>2, AmpAssumption DEF BeginSweep, AmpInv, TypeOK, AmpAssumption
    <2>4. ~FirstSweep'
      BY <1>1, <1>2 DEF FirstSweep
    <2>5. QED
      BY <1>2, <2>3, <2>4 DEF AmpInv, OnlyBypasses, OffIsOff, SavedInSweep, PulsesBypassed
  <1>3. CASE saved' # None
    <2>1. /\ at' = "wait" /\ sweeping' = TRUE /\ saved' \in Modes
          /\ queue' = Append(queue, "Off")
      BY <1>1, <1>3 DEF BeginSweep, AmpInv, TypeOK, Statuses, Modes
    <2>2. queue \in Seq(Modes) /\ queue' \in Seq(Modes) /\ Len(queue') = Len(queue) + 1
      BY <2>1 DEF AmpInv, TypeOK, Modes
    <2>3. TypeOK'
      <3>1. stale' \in BOOLEAN
        BY DEF BeginSweep, AmpInv, TypeOK
      <3>2. QED
        BY <1>1, <2>1, <2>2, <3>1 DEF BeginSweep, AmpInv, TypeOK
    <2>4. FirstSweep' => FirstSweep
      BY <1>1 DEF FirstSweep, AmpInv, TypeOK
    <2>5. OnlyBypasses'
      BY <2>1, <2>2, <2>4 DEF AmpInv, OnlyBypasses
    <2>6. (OffIsOff /\ SavedInSweep /\ PulsesBypassed)'
      BY <1>1, <2>1, <2>4 DEF AmpInv, OffIsOff, SavedInSweep, PulsesBypassed
    <2>7. QED
      BY <2>3, <2>5, <2>6 DEF AmpInv
  <1>4. QED
    BY <1>2, <1>3

\* The restore joins the queue when there is no mode left to come back to.
LEMMA RestoreInv ==
    ASSUME AmpInv, Restore
    PROVE  AmpInv'
  <1> USE DEF Goes, Sound, operator, pvars
  <1>1. /\ at' = "top" /\ saved' = None /\ sweeping' = FALSE
        /\ UNCHANGED <<amp, reading, status, sets, sweeps>>
        /\ saved # None => sweeps > 0
        /\ queue' = IF saved = None THEN queue ELSE Append(queue, saved)
    BY DEF Restore, AmpInv, SavedInSweep
  <1>2. TypeOK'
    <2>1. queue' \in Seq(Modes)
      BY <1>1 DEF AmpInv, TypeOK
    <2>2. QED
      BY <1>1, <2>1 DEF Restore, AmpInv, TypeOK
  <1>3. FirstSweep' => FirstSweep /\ saved = None
    BY <1>1, AmpAssumption DEF FirstSweep, AmpInv, TypeOK, AmpAssumption
  <1>4. OnlyBypasses'
    BY <1>1, <1>3 DEF AmpInv, OnlyBypasses
  <1>5. (OffIsOff /\ SavedInSweep /\ PulsesBypassed)'
    BY <1>1, <1>3 DEF AmpInv, OffIsOff, SavedInSweep, PulsesBypassed
  <1>6. QED
    BY <1>2, <1>4, <1>5 DEF AmpInv

\* The capture thread.
LEMMA CaptureInv ==
    ASSUME AmpInv, CaptureStep
    PROVE  AmpInv'
  <1> USE DEF Goes, Sound, operator, pvars, AmpInv, TypeOK, FirstSweep, OnlyBypasses,
              OffIsOff, SavedInSweep, PulsesBypassed
  <1>1. CASE LoopTop
    BY <1>1 DEF LoopTop, Dials
  <1>2. CASE NoOver \/ KeyOver
    BY <1>2 DEF NoOver, KeyOver
  <1>3. CASE BeginSweep
    BY <1>3, BeginSweepInv
  <1>4. CASE BypassConfirmed
    BY <1>4 DEF BypassConfirmed
  <1>5. CASE BypassTimesOut \/ EndSweep
    BY <1>5 DEF BypassTimesOut, EndSweep
  <1>6. CASE BeginPoint \/ AssertPtt
    BY <1>6 DEF BeginPoint, AssertPtt
  <1>7. CASE DropPtt
    BY <1>7 DEF DropPtt
  <1>8. CASE Restore
    BY <1>8, RestoreInv
  <1>9. QED
    BY <1>1, <1>2, <1>3, <1>4, <1>5, <1>6, <1>7, <1>8 DEF CaptureStep

\* Every step of either thread, or of the operator, keeps the invariant.
LEMMA AmpNextInv ==
    ASSUME AmpInv, [Next]_vars
    PROVE  AmpInv'
  <1>1. CASE UNCHANGED vars
    BY <1>1 DEF vars, operator, pvars, cvars, AmpInv, TypeOK, FirstSweep, OnlyBypasses,
                OffIsOff, SavedInSweep, PulsesBypassed
  <1>2. QED
    BY <1>1, OperatorInv, PollerInv, CaptureInv DEF Next

\* The invariant holds from the worker's start, whatever is lost on the serial line.
THEOREM AmpInvariance == SafetySpec => []AmpInv
  BY AmpInitInv, AmpNextInv, PTL DEF SafetySpec

\* The modes, bands and positions of both threads stay within their types.
THEOREM AmpTypeCorrect == SafetySpec => []TypeOK
  <1>1. AmpInv => TypeOK
    BY DEF AmpInv
  <1>2. QED
    BY <1>1, AmpInvariance, PTL

\* The first sweep that knows of the amplifier pulses into a bypassed one: commands
\* lost on the line, and replies a cycle old, cannot make it confirm a bypass that is not.
THEOREM FirstSweepBypassed == SafetySpec => []SweepBypassed
  <1>1. AmpInv => SweepBypassed
    BY DEF AmpInv, PulsesBypassed, FirstSweep, SweepBypassed
  <1>2. QED
    BY <1>1, AmpInvariance, PTL

\* Wherever in its cycle an over catches the poller, no query and no frequency is
\* written while PTT is out: every write of the two kinds looks at tx_active first.
THEOREM PollerKeepsSilent == SafetySpec => QueriesSilent
  <1>1. [Next]_vars =>
           [at = "ptt" => poller' = poller \/ poller' \notin {"tracking", "asked"}]_vars
    BY DEF Next, OperatorStep, SetKeyingMode, SetDial, StopWorker, PollerStep, PollerTop,
       Abandon, ApplyFirst, ApplyNext, Drained, SendFa, FaSent, NothingToTrack, Query,
       Publish, CaptureStep, LoopTop, NoOver, KeyOver, BeginSweep, BypassConfirmed,
       BypassTimesOut, BeginPoint, AssertPtt, DropPtt, EndSweep, Restore, Poll, Goes,
       Sound, pvars, TxActive
  <1>2. QED
    BY <1>1, PTL DEF SafetySpec, QueriesSilent
=============================================================================
