------------------------------ MODULE CwKeyer ------------------------------
(***************************************************************************)
(* One CW keying session of the Hermes-Lite 2                              *)
(* (rigflow-server/src/source/hermeslite2.rs, tx_cw_key): PTT is held      *)
(* across key-down elements, RF follows each one through a ramp, and a     *)
(* hang timer decides when PTT goes.  A step of the loop is one transmit   *)
(* packet; times are counted in packets.  The key and the abort flag are   *)
(* set by other threads at any moment.                                     *)
(***************************************************************************)
EXTENDS Naturals

CONSTANTS
    Ramp,           \* packets of the raised-cosine rise and fall
    Hang,           \* hang_ms; 0 releases right after the fall
    MaxElement      \* HARD_MAX_ELEMENT_MS, the stuck-key guard

ASSUME CwAssumption ==
    Ramp \in Nat \ {0} /\ Hang \in Nat /\ MaxElement \in Nat \ {0}

VARIABLES
    key,        \* cw_key_held
    abort,      \* the worker's stop_flag
    st,         \* lead, the four states of the loop, tail, off
    level,      \* the envelope, in ramp steps
    element,    \* time since element_start
    hang,       \* time since hang_start
    fault,      \* a send failed, or the FIFO reported an anomaly
    quiet,      \* history: packets since RF was last sent
    down        \* history: packets of RF since the key was last up

vars == <<key, abort, st, level, element, hang, fault, quiet, down>>

\* The histories count a little beyond the limits they are compared with.
DownBound == MaxElement + 2 * Ramp + 1
Capped(n, bound) == IF n < bound THEN n + 1 ELSE n

Init ==
    /\ key \in BOOLEAN
    /\ abort = FALSE
    /\ st = "lead"
    /\ level = 0
    /\ element = 0
    /\ hang = 0
    /\ fault = FALSE
    /\ quiet = 0
    /\ down = 0

(***************************************************************************)
(* The other threads.                                                      *)
(***************************************************************************)

MoveKey ==
    /\ key' = ~key
    /\ down' = 0
    /\ UNCHANGED <<abort, st, level, element, hang, fault, quiet>>

Abort ==
    /\ abort' = TRUE
    /\ UNCHANGED <<key, st, level, element, hang, fault, quiet, down>>

(***************************************************************************)
(* The loop: state and envelope after the packet.                          *)
(***************************************************************************)

\* tx_seq_begin has asserted PTT and waited for the lead delay, whatever the key did.
Lead ==
    /\ st = "lead"
    /\ st' = "rise"
    /\ element' = 0 /\ hang' = 0
    /\ UNCHANGED <<key, abort, level, fault, quiet, down>>

Up == IF level < Ramp THEN level + 1 ELSE level
Down == IF level > 0 THEN level - 1 ELSE level

\* An RF packet: time passes, and the histories see it.
Packet(next, l) ==
    /\ st' = next
    /\ level' = l
    /\ quiet' = 0
    /\ down' = IF key THEN Capped(down, DownBound) ELSE 0
    /\ hang' = Capped(hang, Hang)
    /\ UNCHANGED <<key, abort, fault>>

\* Slip: the ramp counts one step more than it has.
RisePastTop ==
    /\ st = "rise"
    /\ element' = Capped(element, MaxElement)
    /\ \/ (~key \/ abort) /\ Packet("fall", Down)
       \/ key /\ ~abort /\ level > Ramp /\ Packet("sustain", level)
       \/ key /\ ~abort /\ level <= Ramp /\ Packet("rise", level + 1)

Rise ==
    /\ st = "rise"
    /\ element' = Capped(element, MaxElement)
    /\ \/ (~key \/ abort) /\ Packet("fall", Down)
       \/ key /\ ~abort /\ level = Ramp /\ Packet("sustain", level)
       \/ key /\ ~abort /\ level < Ramp /\ Packet("rise", Up)

Stuck == element >= MaxElement

Sustain ==
    /\ st = "sustain"
    /\ element' = Capped(element, MaxElement)
    /\ IF ~key \/ abort \/ Stuck THEN Packet("fall", Down) ELSE Packet("sustain", level)

\* A zero-amplitude packet with PTT up.
SilentPacket(next) ==
    /\ st' = next
    /\ quiet' = Capped(quiet, Hang)
    /\ down' = 0
    /\ UNCHANGED <<key, abort, level, fault>>

\* Slip: the key-up goes straight to the hang, without waiting for the envelope.
FallAtOnce ==
    /\ st = "fall"
    /\ IF key /\ ~abort
       THEN element' = 0 /\ Packet("rise", Up)
       ELSE SilentPacket("hang") /\ element' = Capped(element, MaxElement) /\ hang' = 0

\* Slip: the hang timer is not started anew.
FallKeepsTimer ==
    /\ st = "fall"
    /\ IF key /\ ~abort THEN element' = 0 /\ Packet("rise", Up)
       ELSE /\ element' = Capped(element, MaxElement)
            /\ IF level = 0 THEN SilentPacket("hang") /\ hang' = Capped(hang, Hang)
                            ELSE Packet("fall", Down)

\* A key that is down again, or still, makes it rise from where it is.
Fall ==
    /\ st = "fall"
    /\ IF key /\ ~abort THEN element' = 0 /\ Packet("rise", Up)
       ELSE /\ element' = Capped(element, MaxElement)
            /\ IF level = 0 THEN SilentPacket("hang") /\ hang' = 0
                            ELSE Packet("fall", Down)

\* Slip: a key held down outlives the abort.
HangIgnoresAbort ==
    /\ st = "hang"
    /\ IF key
       THEN SilentPacket("rise") /\ element' = 0 /\ hang' = Capped(hang, Hang)
       ELSE IF abort \/ hang >= Hang
       THEN st' = "tail" /\ UNCHANGED <<key, abort, level, element, hang, fault, quiet, down>>
       ELSE /\ SilentPacket("hang")
            /\ element' = Capped(element, MaxElement) /\ hang' = Capped(hang, Hang)

\* Slip: every silent packet starts the timer anew.
HangRestarts ==
    /\ st = "hang"
    /\ IF key /\ ~abort
       THEN SilentPacket("rise") /\ element' = 0 /\ hang' = Capped(hang, Hang)
       ELSE IF abort \/ hang >= Hang
       THEN st' = "tail" /\ UNCHANGED <<key, abort, level, element, hang, fault, quiet, down>>
       ELSE SilentPacket("hang") /\ element' = Capped(element, MaxElement) /\ hang' = 0

\* A key-down resumes without a lead delay; the end of the hang ends the session.
Hanging ==
    /\ st = "hang"
    /\ IF key /\ ~abort
       THEN SilentPacket("rise") /\ element' = 0 /\ hang' = Capped(hang, Hang)
       ELSE IF abort \/ hang >= Hang
       THEN st' = "tail" /\ UNCHANGED <<key, abort, level, element, hang, fault, quiet, down>>
       ELSE /\ SilentPacket("hang")
            /\ element' = Capped(element, MaxElement) /\ hang' = Capped(hang, Hang)

\* tx_seq_begin could not send: it has released PTT by itself.
LeadFails ==
    /\ st = "lead"
    /\ fault' = TRUE
    /\ st' = "off"
    /\ UNCHANGED <<key, abort, level, element, hang, quiet, down>>

\* The loop is left at once, at whatever level.
Fault ==
    /\ st \in {"rise", "sustain", "fall", "hang"}
    /\ fault' = TRUE
    /\ st' = "tail"
    /\ UNCHANGED <<key, abort, level, element, hang, quiet, down>>

\* tx_seq_end: the tail delay, then PTT is released.
Release ==
    /\ st = "tail"
    /\ st' = "off"
    /\ level' = 0
    /\ UNCHANGED <<key, abort, element, hang, fault, quiet, down>>

Loop == Lead \/ Rise \/ Sustain \/ Fall \/ Hanging \/ Release

Next == MoveKey \/ Abort \/ Loop \/ LeadFails \/ Fault

SafetySpec == Init /\ [][Next]_vars

\* The loop runs: the socket never blocks it and time passes.
Spec == SafetySpec /\ WF_vars(Loop)

(***************************************************************************)
(* Properties.                                                             *)
(***************************************************************************)

\* Every variable has its type.
TypeOK ==
    /\ key \in BOOLEAN /\ abort \in BOOLEAN /\ fault \in BOOLEAN
    /\ st \in {"lead", "rise", "sustain", "fall", "hang", "tail", "off"}
    /\ level \in 0..Ramp /\ element \in 0..MaxElement /\ hang \in 0..Hang
    /\ quiet \in 0..Hang /\ down \in 0..DownBound

\* RF is never cut or switched on in one packet: silence is sent, and PTT dropped, only
\* when the envelope is down, except after a fault.
NoKeyClick == st \in {"lead", "hang"} \/ (st = "tail" /\ ~fault) => level = 0

\* PTT is dropped only after the whole hang time without RF, counted from the last
\* element, unless the worker stops or the transmitter failed.
HangHonoured == st = "tail" => quiet >= Hang \/ abort \/ fault

\* A worker stop ends the session, with the key held down or moving.
AbortReleases == abort ~> st = "off"

\* A key that stays up ends the session.
KeyUpReleases == <>[]~key => <>(st = "off")

\* No key-down is on the air for longer than the guard allows, ramps included.
StuckKeyGuarded == down <= MaxElement + 2 * Ramp
=============================================================================
