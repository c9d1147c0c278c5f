--------------------------- MODULE CwKeyerProofs ---------------------------
(***************************************************************************)
(* The safety properties of the CW keyer, for any ramp, hang time and      *)
(* guard.                                                                  *)
(***************************************************************************)
EXTENDS CwKeyer, TLAPS

\* In the hang every packet was silent since its timer began, and nothing lowers
\* the envelope or the histories behind the loop's back.
HangIsQuiet == st = "hang" => quiet >= hang

CwInv == TypeOK /\ NoKeyClick /\ HangIsQuiet /\ HangHonoured

\* A counter stays within the limit it is compared with.
LEMMA CappedBound ==
    ASSUME NEW bound \in Nat, NEW n \in 0..bound
    PROVE  Capped(n, bound) \in 0..bound
  BY DEF Capped

\* Two counters that step together keep their order up to the limit.
LEMMA CappedOrder ==
    ASSUME NEW bound \in Nat, NEW m \in 0..bound, NEW n \in 0..bound, m <= n
    PROVE  Capped(m, bound) <= Capped(n, bound)
  BY DEF Capped

\* The envelope stays between silence and full power.
LEMMA Envelope ==
    ASSUME TypeOK
    PROVE  Up \in 0..Ramp /\ Down \in 0..Ramp
  BY CwAssumption DEF TypeOK, Up, Down

\* The bounds are numbers.
LEMMA Bounds ==
    Ramp \in Nat /\ Hang \in Nat /\ MaxElement \in Nat /\ DownBound \in Nat
  BY CwAssumption DEF DownBound

\* One RF packet.
LEMMA PacketInv ==
    ASSUME CwInv, NEW next \in {"rise", "sustain", "fall"}, NEW l \in 0..Ramp,
           Packet(next, l), element' \in 0..MaxElement
    PROVE  CwInv'
  <1>1. down' \in 0..DownBound /\ hang' \in 0..Hang /\ quiet' \in 0..Hang
    <2>1. Capped(down, DownBound) \in 0..DownBound
      BY CappedBound, Bounds DEF CwInv, TypeOK
    <2>2. Capped(hang, Hang) \in 0..Hang
      BY CappedBound, Bounds DEF CwInv, TypeOK
    <2>3. QED
      BY <2>1, <2>2, Bounds DEF Packet
  <1>2. TypeOK'
    BY <1>1 DEF CwInv, TypeOK, Packet
  <1>3. (NoKeyClick /\ HangIsQuiet /\ HangHonoured)'
    BY DEF Packet, NoKeyClick, HangIsQuiet, HangHonoured
  <1>4. QED
    BY <1>2, <1>3 DEF CwInv

\* One silent packet, at the beginning of the hang, in it, or as it ends with a new element.
LEMMA SilentInv ==
    ASSUME CwInv, NEW next \in {"rise", "hang"}, SilentPacket(next), level = 0,
           element' \in 0..MaxElement, hang' \in 0..Hang,
           hang' = 0 \/ (hang <= quiet /\ hang' = Capped(hang, Hang))
    PROVE  CwInv'
  <1>1. quiet' \in 0..Hang /\ hang' <= quiet'
    <2>1. quiet' = Capped(quiet, Hang) /\ quiet \in 0..Hang /\ hang \in 0..Hang
      BY DEF SilentPacket, CwInv, TypeOK
    <2>2. quiet' \in 0..Hang
      BY <2>1, CappedBound, Bounds
    <2>3. CASE hang' = 0
      BY <2>2, <2>3, Bounds
    <2>4. CASE hang <= quiet /\ hang' = Capped(hang, Hang)
      BY <2>1, <2>2, <2>4, CappedOrder, Bounds
    <2>5. QED
      BY <2>2, <2>3, <2>4
  <1>2. TypeOK'
    BY <1>1, Bounds DEF CwInv, TypeOK, SilentPacket
  <1>3. (NoKeyClick /\ HangIsQuiet /\ HangHonoured)'
    BY <1>1 DEF SilentPacket, NoKeyClick, HangIsQuiet, HangHonoured, CwInv, TypeOK
  <1>4. QED
    BY <1>2, <1>3 DEF CwInv

\* A new session has sent nothing.
LEMMA CwInitInv == Init => CwInv
  <1>1. 0 \in 0..Ramp /\ 0 \in 0..Hang /\ 0 \in 0..MaxElement /\ 0 \in 0..DownBound
    BY Bounds
  <1>2. Init => TypeOK
    BY <1>1 DEF Init, TypeOK
  <1>3. Init => NoKeyClick /\ HangIsQuiet /\ HangHonoured
    BY DEF Init, NoKeyClick, HangIsQuiet, HangHonoured
  <1>4. QED
    BY <1>2, <1>3 DEF CwInv

\* Every packet of the loop, and every move of the key, keeps the invariant.
LEMMA CwNextInv ==
    ASSUME CwInv, [Next]_vars
    PROVE  CwInv'
  <1>1. /\ TypeOK /\ Up \in 0..Ramp /\ Down \in 0..Ramp
        /\ Capped(element, MaxElement) \in 0..MaxElement
        /\ Capped(hang, Hang) \in 0..Hang
        /\ 0 \in 0..MaxElement /\ 0 \in 0..Hang /\ level \in 0..Ramp
    BY Envelope, CappedBound, Bounds DEF CwInv, TypeOK
  <1>2. CASE MoveKey \/ Abort \/ UNCHANGED vars
    <2>1. 0 \in 0..DownBound
      BY Bounds
    <2>2. TypeOK'
      BY <1>2, <2>1 DEF CwInv, TypeOK, MoveKey, Abort, vars
    <2>3. UNCHANGED <<st, level, hang, fault, quiet>> /\ (abort => abort')
      BY <1>2 DEF MoveKey, Abort, vars
    <2>4. (NoKeyClick /\ HangIsQuiet /\ HangHonoured)'
      BY <2>3 DEF CwInv, NoKeyClick, HangIsQuiet, HangHonoured
    <2>5. QED
      BY <2>2, <2>4 DEF CwInv
  <1>3. CASE Lead
    BY <1>1, <1>3 DEF CwInv, TypeOK, NoKeyClick, HangIsQuiet, HangHonoured, Lead
  <1>4. CASE Rise
    BY <1>1, <1>4, PacketInv DEF Rise
  <1>5. CASE Sustain
    BY <1>1, <1>5, PacketInv DEF Sustain
  <1>6. CASE Fall
    <2>1. CASE key /\ ~abort
      BY <1>1, <1>6, <2>1, PacketInv DEF Fall
    <2>2. CASE ~(key /\ ~abort) /\ level # 0
      BY <1>1, <1>6, <2>2, PacketInv DEF Fall
    <2>3. CASE ~(key /\ ~abort) /\ level = 0
      BY <1>1, <1>6, <2>3, SilentInv DEF Fall
    <2>4. QED
      BY <2>1, <2>2, <2>3
  <1>7. CASE Hanging
    <2>1. level = 0 /\ hang <= quiet
      BY <1>1, <1>7 DEF CwInv, NoKeyClick, HangIsQuiet, Hanging, TypeOK
    <2>2. CASE key /\ ~abort
      BY <1>1, <1>7, <2>1, <2>2, SilentInv DEF Hanging
    <2>3. CASE ~(key /\ ~abort) /\ (abort \/ hang >= Hang)
      BY <1>1, <1>7, <2>1, <2>3, Bounds
      DEF Hanging, CwInv, TypeOK, NoKeyClick, HangIsQuiet, HangHonoured
    <2>4. CASE ~(key /\ ~abort) /\ ~(abort \/ hang >= Hang)
      BY <1>1, <1>7, <2>1, <2>4, SilentInv DEF Hanging
    <2>5. QED
      BY <2>2, <2>3, <2>4
  <1>8. CASE LeadFails \/ Fault \/ Release
    <2>1. 0 \in 0..Ramp
      BY Bounds
    <2>2. TypeOK'
      BY <1>1, <1>8, <2>1 DEF TypeOK, LeadFails, Fault, Release
    <2>3. st' = "off" \/ (st' = "tail" /\ fault')
      BY <1>8 DEF LeadFails, Fault, Release
    <2>4. (NoKeyClick /\ HangIsQuiet /\ HangHonoured)'
      BY <2>3 DEF NoKeyClick, HangIsQuiet, HangHonoured
    <2>5. QED
      BY <2>2, <2>4 DEF CwInv
  <1>9. QED
    BY <1>2, <1>3, <1>4, <1>5, <1>6, <1>7, <1>8 DEF Next, Loop

\* The invariant holds throughout a session, whatever the key and the abort flag do.
THEOREM CwInvariance == SafetySpec => []CwInv
  BY CwInitInv, CwNextInv, PTL DEF SafetySpec

\* The envelope stays within the ramp, and the counters within the limits of tx_cw_key.
THEOREM CwTypeCorrect == SafetySpec => []TypeOK
  <1>1. CwInv => TypeOK
    BY DEF CwInv
  <1>2. QED
    BY <1>1, CwInvariance, PTL

\* RF is ramped up and down, for any ramp: tx_cw_key never cuts a carrier except after
\* a fault.
THEOREM NeverKeyClick == SafetySpec => []NoKeyClick
  <1>1. CwInv => NoKeyClick
    BY DEF CwInv
  <1>2. QED
    BY <1>1, CwInvariance, PTL

\* PTT is held for the whole hang time after the last element, for any hang_ms.
THEOREM HangAlwaysHonoured == SafetySpec => []HangHonoured
  <1>1. CwInv => HangHonoured
    BY DEF CwInv
  <1>2. QED
    BY <1>1, CwInvariance, PTL
=============================================================================
