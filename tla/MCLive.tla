------------------------------- MODULE MCLive -------------------------------
(***************************************************************************)
(* The components whose properties include liveness, side by side on small *)
(* instances.  They share no state, so their interleaving would add nothing *)
(* but states: a behaviour runs the one `part` names, and the others rest  *)
(* in an initial state.  The behaviours are those of each component alone, *)
(* and a property of the run is the property of that component.            *)
(***************************************************************************)
EXTENDS CwKeyer

CONSTANTS
    None,
    Servers, Radios, InboxBound,    \* of the client's connection
    Conns, Hosts                    \* of the server's slot

VARIABLES part,
          alive, link, server, inbox, auto, aim, armed, rejected, manual, last,
          again, window, acquired, asked, wished, held,
          conn, slot, stream, probing, net,
          worker, audio, events, gen, seen, phase, jb,
          file, app, diskOk, ui, mirror, radio, selected, due,
          hw, control, mirrorB, gateB, pc, snapshot, applied, source, swept, astray,
          blocks, stopFlag, commands

connVars == <<alive, link, server, inbox, auto, aim, armed, rejected, manual, last,
              again, window, acquired, asked, wished, held>>
slotVars == <<conn, slot, stream, probing, net>>
audioVars == <<worker, audio, events, gen, seen, phase, jb>>
storeVars == <<file, app, diskOk, ui, mirror, radio, selected, due>>
loopVars == <<hw, control, mirrorB, gateB, pc, snapshot, applied, source, swept, astray,
              blocks, stopFlag, commands>>
all == <<vars, connVars, slotVars, audioVars, storeVars, loopVars, part>>

Connection == INSTANCE ClientConnection WITH target <- aim

Slot == INSTANCE ClientSlot WITH target <- stream

Audio == INSTANCE RxAudio WITH
    PacketSamples <- 4, TargetSamples <- 8, MaxSamples <- 16, TrimSamples <- 1,
    PopSizes <- {3}, Sessions <- 1, Packets <- 3, net <- audio

Store == INSTANCE OperatorStore WITH
    Operators <- {"o1"}, Radios <- {"r1"}, DiskFails <- TRUE, acquired <- radio

Loops == INSTANCE CaptureLoop WITH
    Bands <- {0, 1}, Tuner <- {1}, Direct <- {0, 1}, QueueCap <- 1, MaxCommands <- 1,
    mirror <- mirrorB, snap <- snapshot, last <- applied,
    queue <- blocks, stop <- stopFlag, asked <- commands

ASSUME LiveAssumption ==
    /\ Connection!ClientAssumption
    /\ Slot!SlotAssumption
    /\ Audio!JitterAssumption

PartsInit ==
    /\ part \in {"keyer", "connection", "slot", "audio", "store", "capture"}
    /\ Init /\ Connection!Init /\ Slot!Init /\ Audio!Init /\ Store!Init
    /\ Loops!Init
    \* One initial state for a part at rest.
    /\ part = "keyer" \/ key = FALSE
    /\ part = "store" \/ (app.ok /\ \A o \in DOMAIN file : file[o].kind = "missing")
    /\ part = "capture" \/ (hw = "rtl" /\ control.center = 1)

\* One component steps.
KeyerNext ==
    /\ part = "keyer" /\ Next
    /\ UNCHANGED <<part, connVars, slotVars, audioVars, storeVars, loopVars>>

ConnectionNext ==
    /\ part = "connection" /\ Connection!Next
    /\ UNCHANGED <<part, vars, slotVars, audioVars, storeVars, loopVars>>

SlotNext ==
    /\ part = "slot" /\ Slot!Next
    /\ UNCHANGED <<part, vars, connVars, audioVars, storeVars, loopVars>>

AudioNext ==
    /\ part = "audio" /\ Audio!Next
    /\ UNCHANGED <<part, vars, connVars, slotVars, storeVars, loopVars>>

StoreNext ==
    /\ part = "store" /\ Store!Next
    /\ UNCHANGED <<part, vars, connVars, slotVars, audioVars, loopVars>>

CaptureNext ==
    /\ part = "capture" /\ Loops!Next
    /\ UNCHANGED <<part, vars, connVars, slotVars, audioVars, storeVars>>

\* The audio has bounded packets, and the capture loop ends when told to stop.
Ended == part \in {"audio", "capture"} /\ UNCHANGED all

PartsNext ==
    \/ KeyerNext \/ ConnectionNext \/ SlotNext
    \/ AudioNext \/ StoreNext \/ CaptureNext \/ Ended

\* The fairness of each component, while it is the one that runs.
PartsFairness ==
    /\ WF_vars(part = "keyer" /\ Loop)
    /\ WF_connVars(part = "connection" /\ Connection!Receive)
    /\ WF_connVars(part = "connection" /\ Connection!SocketEnds)
    /\ WF_connVars(part = "connection" /\ Connection!ReacquireEnds)
    /\ SF_connVars(part = "connection" /\ Connection!Reconnected)
    /\ WF_connVars(part = "connection" /\ Connection!DeadlinePasses)
    /\ WF_connVars(part = "connection" /\ Connection!StreakAges)
    /\ \A k \in Conns :
        /\ WF_slotVars(part = "slot" /\ Slot!Claim(k))
        /\ WF_slotVars(part = "slot" /\ Slot!Release(k))
        /\ WF_slotVars(part = "slot" /\ conn[k].host \notin probing /\ Slot!End(k))
    /\ \A h \in Hosts :
        /\ WF_slotVars(part = "slot" /\ Slot!Probe(h))
        /\ SF_slotVars(part = "slot" /\ Slot!Receive(h))
    /\ WF_audioVars(part = "audio" /\ Audio!Pop)
    /\ WF_storeVars(part = "store" /\ Store!Autosave)
    /\ WF_loopVars(part = "capture" /\ Loops!Capture)
    /\ WF_loopVars(part = "capture" /\ Loops!DspA)

PartsSpec == PartsInit /\ [][PartsNext]_all /\ PartsFairness

(***************************************************************************)
(* Properties: those of the components.                                    *)
(***************************************************************************)

\* The components that run here only keep their types; the audio and the capture loop
\* do so in MCStreams, and the store in MCPanels.
AllTypeOK == TypeOK /\ Connection!TypeOK /\ Slot!TypeOK

\* The CW key: however a session ends (a worker stop, a key let go), it ends.
KeyerEnds == part = "keyer" => AbortReleases /\ KeyUpReleases

\* The client connects and acquires only what is still wanted.
UserRespected == Connection!ConnectsAsAsked /\ Connection!ReleaseRespected

\* The retries of the client end.
RetriesEnd == Connection!ReacquireStops /\ Connection!BusyStreakEnds

\* A connection that is served, or whose radio is being released, owns the slot.
ServedOwnsSlot == Slot!ServedOwnsSlot

\* A dead client is evicted, and the stream finds the one that is served.
SlotHeals == Slot!DeadClientEvicted /\ Slot!TargetHeals

\* What waits in the jitter buffer gets played.
NoStall == Audio!NoStall

\* An edit left alone gets saved.
EditsSaved == Store!EditsSaved

\* DSP-B cannot block the capture thread.
NeverBlocked == part = "capture" => Loops!NeverBlocked
=============================================================================
