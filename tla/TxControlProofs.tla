---------------------------- MODULE TxControlProofs ----------------------------
(***************************************************************************)
(* The safety properties of TxControl, for any settings of the dial and    *)
(* any number of sweep points.  Two threads share pending, live and        *)
(* cancel; the invariant says what the command thread's history `pressed'  *)
(* has to do with the flags the capture thread reads.                      *)
(***************************************************************************)
EXTENDS TxControl, TLAPS

\* A live flag belongs to a key that is down; but the tone's begins TRUE (tx_tone_stop
\* starts FALSE), and then no tone is asked for, nor under way.
LiveIsPressed ==
    \A k \in live : \/ k \in pressed
                    \/ k = "tone" /\ "tone" \notin pending /\ (at = "tone" => phase = "idle")

\* A sweep is keyed point by point: it has neither lead nor tail of its own, and RF
\* is up only for a point that is still to be counted.
SweepCounts ==
    at = "sweep" => /\ phase \notin {"lead", "tail"}
                    /\ phase = "rf" => point < SweepPoints

TxInv == TypeOK /\ LiveIsPressed /\ SweepCounts /\ PendingSweepNotCancelled

\* The next kind of over in the order the loop takes them.
LEMMA AfterType ==
    ASSUME NEW k \in Overs
    PROVE  /\ After(k) \in Overs \union {"read"}
           /\ After(k) # k
  BY DEF After, Overs, Keyed

\* A worker that starts has no request, and no key down.
LEMMA TxInitInv == Init => TxInv
  <1>1. 0 \in 0..SweepPoints
    BY TxAssumption DEF TxAssumption
  <1>2. QED
    BY <1>1
    DEF Init, TxInv, TypeOK, LiveIsPressed, SweepCounts, PendingSweepNotCancelled, Overs, Keyed

\* The command thread, and the ways the worker is told to stop.
LEMMA CommandInv ==
    ASSUME TxInv, CommandStep \/ StopRuntime \/ StopStep
    PROVE  TxInv'
  <1> USE DEF TxInv, TypeOK, LiveIsPressed, SweepCounts, PendingSweepNotCancelled,
              Overs, Keyed, lvars
  <1>1. ASSUME NEW d \in Dials, SetDial(d)
        PROVE  TxInv'
    BY <1>1 DEF SetDial
  <1>2. ASSUME NEW k \in Keyed, Press(k)
        PROVE  TxInv'
    BY <1>2 DEF Press
  <1>3. ASSUME NEW k \in Keyed, Unpress(k)
        PROVE  TxInv'
    BY <1>3 DEF Unpress
  <1>4. CASE RequestTune
    BY <1>4 DEF RequestTune
  <1>5. CASE RequestSweep
    BY <1>5 DEF RequestSweep
  <1>6. CASE CancelSweep
    BY <1>6 DEF CancelSweep
  <1>7. CASE StopRuntime
    BY <1>7 DEF StopRuntime, cvars
  <1>8. CASE TakeStop
    BY <1>8 DEF TakeStop
  <1>9. CASE CommandThreadEnds
    BY <1>9 DEF CommandThreadEnds
  <1>10. CASE WrapperStops
    BY <1>10 DEF WrapperStops, cvars
  <1>11. QED
    BY <1>1, <1>2, <1>3, <1>4, <1>5, <1>6, <1>7, <1>8, <1>9, <1>10 DEF CommandStep, StopStep

\* The capture thread in an over of kind k.
LEMMA OverInv ==
    ASSUME TxInv, NEW k \in Overs,
           \/ TakeRequest(k) \/ Refuse(k) \/ NotReady(k) \/ KeyDown(k) \/ StartRf(k)
           \/ EndRf(k) \/ TimeLimit(k) \/ Release(k) \/ TxFault(k)
    PROVE  TxInv'
  <1>1. After(k) \in Overs \union {"read"} /\ After(k) # k
    BY AfterType
  <1> USE DEF TxInv, TypeOK, LiveIsPressed, SweepCounts, PendingSweepNotCancelled, cvars
  <1>2. CASE TakeRequest(k)
    BY <1>1, <1>2 DEF TakeRequest, Overs, Keyed
  <1>3. CASE Refuse(k)
    BY <1>1, <1>3 DEF Refuse, WrongMode
  <1>4. CASE NotReady(k)
    BY <1>1, <1>4 DEF NotReady, Overs, Keyed
  <1>5. CASE KeyDown(k)
    BY <1>5 DEF KeyDown
  <1>6. CASE StartRf(k)
    BY <1>6 DEF StartRf
  <1>7. CASE EndRf(k) \/ TimeLimit(k) \/ TxFault(k)
    <2>1. /\ at = k /\ k # "sweep" /\ phase # "idle" /\ phase' = "tail"
          /\ UNCHANGED <<cvars, snap, at, point, stopSent, stopFlag>>
      BY <1>7 DEF EndRf, TimeLimit, TxFault, ToldToEnd, Keyed
    <2>2. QED
      BY <2>1
  <1>8. CASE Release(k)
    <2>1. /\ phase' = "idle" /\ at' = After(k) /\ pending' \subseteq pending \union {"cw"}
          /\ UNCHANGED <<dial, live, cancel, cmd, pressed, snap, point, stopSent, stopFlag>>
      BY <1>8 DEF Release
    <2>2. at' \in Overs \union {"read"} /\ pending' \subseteq Overs
      BY <1>1, <2>1 DEF Overs, Keyed
    <2>3. TypeOK'
      BY <2>1, <2>2
    <2>4. LiveIsPressed'
      BY <2>1
    <2>5. (SweepCounts /\ PendingSweepNotCancelled)'
      BY <2>1
    <2>6. QED
      BY <2>3, <2>4, <2>5
  <1>9. QED
    BY <1>2, <1>3, <1>4, <1>5, <1>6, <1>7, <1>8

\* The points of a sweep, and the loop between overs.
LEMMA LoopInv ==
    ASSUME TxInv, LoopTop \/ SweepPulse \/ SweepPulseOver \/ SweepDone \/ Read
    PROVE  TxInv'
  <1> USE DEF TxInv, TypeOK, LiveIsPressed, SweepCounts, PendingSweepNotCancelled, cvars
  <1>1. SweepPoints \in Nat /\ point \in 0..SweepPoints
    BY TxAssumption DEF TxAssumption
  <1>2. CASE LoopTop
    BY <1>2 DEF LoopTop, Overs
  <1>3. CASE SweepPulse
    BY <1>3 DEF SweepPulse
  <1>4. CASE SweepPulseOver
    <2>1. point' \in 0..SweepPoints
      BY <1>1, <1>4 DEF SweepPulseOver
    <2>2. QED
      BY <1>4, <2>1 DEF SweepPulseOver
  <1>5. CASE SweepDone
    <2>1. 0 \in 0..SweepPoints
      BY <1>1
    <2>2. QED
      BY <1>5, <2>1 DEF SweepDone, Overs, Keyed
  <1>6. CASE Read
    BY <1>6 DEF Read
  <1>7. QED
    BY <1>2, <1>3, <1>4, <1>5, <1>6

\* Every step of either thread keeps the invariant.
LEMMA TxNextInv ==
    ASSUME TxInv, [Next]_vars
    PROVE  TxInv'
  <1>1. CASE UNCHANGED vars
    BY <1>1 DEF vars, cvars, lvars, TxInv, TypeOK, LiveIsPressed, SweepCounts,
                PendingSweepNotCancelled
  <1>2. CASE Next
    BY <1>1, <1>2, CommandInv, OverInv, LoopInv DEF Next, CaptureStep, Ended
  <1>3. QED
    BY <1>1, <1>2

\* The invariant holds from the worker's start to its end.
THEOREM TxInvariance == SafetySpec => []TxInv
  BY TxInitInv, TxNextInv, PTL DEF SafetySpec

\* The requests, flags and phases stay what the worker's types allow, and a sweep never
\* counts past its last point.
THEOREM TxTypeCorrect == SafetySpec => []TypeOK
  <1>1. TxInv => TypeOK
    BY DEF TxInv
  <1>2. QED
    BY <1>1, TxInvariance, PTL

\* A cancellation left from an earlier sweep never meets a sweep that waits to be taken.
THEOREM SweepRequestsAreFresh == SafetySpec => []PendingSweepNotCancelled
  <1>1. TxInv => PendingSweepNotCancelled
    BY DEF TxInv
  <1>2. QED
    BY <1>1, TxInvariance, PTL

\* A step that raises the RF of an open-ended over finds its key down, and for CW and
\* the microphone the worker not told to stop.
LEMMA RfStep ==
    ASSUME TxInv, [Next]_vars, NEW k \in Keyed, at = k, phase # "rf", phase' = "rf"
    PROVE  k \in pressed /\ (stopFlag => k = "tone")
  <1>1. StartRf(k)
    <2>1. Next /\ phase' # phase
      BY DEF vars, lvars
    <2>2. \E j \in Overs : StartRf(j)
      BY <2>1 DEF Next, CommandStep, SetDial, Press, Unpress, RequestTune, RequestSweep,
         CancelSweep, StopRuntime, StopStep, TakeStop, CommandThreadEnds, WrapperStops,
         CaptureStep, LoopTop, TakeRequest, Refuse, NotReady, KeyDown, EndRf, TimeLimit,
         Release, TxFault, SweepPulse, SweepPulseOver, SweepDone, Read, Ended, lvars, vars,
         Keyed
    <2>3. QED
      BY <2>2 DEF StartRf
  <1>2. phase = "lead" /\ ~ToldToEnd(k)
    BY <1>1 DEF StartRf
  <1>3. k \in pressed
    BY <1>2 DEF TxInv, LiveIsPressed, ToldToEnd
  <1>4. QED
    BY <1>2, <1>3 DEF ToldToEnd, Keyed

\* Whatever commands cross it in its pending, taken and lead phases, an open-ended over
\* raises RF only with its key down, and CW or the microphone never after the stop.
THEOREM RfNeedsKey == SafetySpec => RfOnlyWhilePressed
  <1>1. TxInv /\ [Next]_vars =>
           [\A k \in Keyed : at = k /\ phase # "rf" /\ phase' = "rf" =>
                k \in pressed /\ (stopFlag => k = "tone")]_vars
    BY RfStep
  <1>2. QED
    BY <1>1, TxInvariance, PTL DEF SafetySpec, RfOnlyWhilePressed
=============================================================================
