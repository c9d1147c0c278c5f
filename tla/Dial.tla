--------------------------------- MODULE Dial ---------------------------------
(***************************************************************************)
(* Tuning one VFO from the client: the wheel and the arrow keys, a click,  *)
(* `C', the LO strip, a typed frequency (or rigctl's and TCI's), and a     *)
(* drag or flick of the spectrum, whose messages are throttled.  A frame   *)
(* of the UI works from the snapshot it began with, while echoes arrive.   *)
(* The dial is moved locally first; the server follows the messages and    *)
(* echoes what changed.  Frequencies are steps of the dial.                *)
(***************************************************************************)
EXTENDS Integers, Sequences, SequencesExt, FiniteSetsExt

CONSTANTS MaxFreq,    \* the RF range is 0..MaxFreq
          Half,       \* half the received span, around the LO
          Soft,       \* the part of it tuned without moving the LO
          PathSets,   \* the sets of controls an operator keeps to
          MaxMoves,   \* bound on the moves of the dial
          None

\* A dial has some range past the soft edge, and None is no frequency.
DialAssumption == MaxFreq \in Nat /\ Half \in Nat /\ Soft \in Nat \ {0} /\ MaxMoves \in Nat
                    /\ None \notin Int

Freqs == 0..MaxFreq
Dials == [center : Freqs, target : Freqs]

VARIABLES paths,     \* the controls in use
          ui,        \* centre and target shown by the client
          shot,      \* the frame's snapshot of them
          at,        \* how far the frame got: the rank of its last control
          lastSent,  \* last_sent_center_hz
          open,      \* PAN_SEND_INTERVAL has passed since last_pan_send
          held,      \* the last frame panned was throttled, and not sent
          drag,      \* a drag is under way
          fling,     \* direction of pan_velocity_hz_per_s, 0 when at rest
          tx,        \* the client transmits
          up,        \* messages to the server, in order
          server,    \* centre and target of the worker
          published, \* what the last RuntimeChanged told of
          down,      \* echoes to the client, in order
          moves,
          lastOut,   \* history: the last centre sent to the server
          strayed    \* history: a control put another centre on the dial since, unsent

vars == <<paths, ui, shot, at, lastSent, open, held, drag, fling, tx, up, server,
          published, down, moves, lastOut, strayed>>

Messages == [center : Freqs \cup {None}, target : Freqs \cup {None}]

\* Every variable has its type.
TypeOK == /\ {ui, shot, server, published} \subseteq Dials
          /\ {lastSent, lastOut} \subseteq Freqs /\ at \in 0..5
          /\ {open, held, drag, tx, strayed} \subseteq BOOLEAN
          /\ paths \in PathSets
          /\ fling \in {-1, 0, 1} /\ moves \in 0..MaxMoves
          /\ up \in Seq(Messages) /\ down \in Seq(Messages)

Init == /\ paths \in PathSets
        /\ ui \in {[center |-> f, target |-> f] : f \in Freqs}
        /\ server = ui /\ published = ui /\ shot = ui /\ at = 0
        /\ lastOut = ui.center /\ strayed = FALSE
        /\ lastSent = 0 /\ open = TRUE /\ held = FALSE
        /\ drag = FALSE /\ fling = 0 /\ tx = FALSE
        /\ up = <<>> /\ down = <<>> /\ moves = 0

Merge(dial, m) == [center |-> IF m.center = None THEN dial.center ELSE m.center,
                   target |-> IF m.target = None THEN dial.target ELSE m.target]

Pair(dial) == dial
TargetOnly(dial) == [center |-> None, target |-> dial.target]
CenterOnly(dial) == [center |-> dial.center, target |-> None]

-----------------------------------------------------------------------------
(* freq_limits: clamps to the RF range and to the received span.             *)

Clamp(f, lo, hi) == Max({Min({f, hi}), lo})
ClampCenter(f) == Clamp(f, 0, MaxFreq)
ClampTarget(f, center) == ClampCenter(Clamp(f, Max({center - Half, 0}), center + Half))

-----------------------------------------------------------------------------
(* Gestures.  The controls of the spectrum run in a fixed order and compute from
   the frame's snapshot; the LO strip and the arrow keys, which no frame uses
   beside them, take their own, as if a frame began there.                       *)

Look == /\ shot # ui \/ at # 0
        /\ shot' = ui /\ at' = 0
        /\ UNCHANGED <<paths, ui, lastSent, open, held, drag, fling, tx, up, server, published,
                       down, moves, lastOut, strayed>>

\* The target moves by delta; the LO follows once it is past the soft edge.
Panned(delta) ==
  LET want == ClampCenter(shot.target + delta)
      off == want - shot.center
      center == IF off > Soft THEN ClampCenter(shot.center + off - Soft)
                ELSE IF off < -Soft THEN ClampCenter(shot.center + off + Soft)
                ELSE shot.center
  IN [center |-> center, target |-> ClampTarget(want, center)]

Moves(path) == /\ path \in paths /\ moves < MaxMoves
               /\ moves' = moves + 1
               /\ UNCHANGED <<paths, shot, drag, tx, server, published, down>>

\* The frame's controls, in the order they run.
Turn(rank) == at < rank /\ at' = rank

\* A message with a centre, and the dial shows it; or the dial is set to `center' and no
\* message says so.
Sends(center) == lastOut' = center /\ strayed' = FALSE
Keeps(center) == /\ lastOut' = lastOut
                 /\ strayed' = (center # lastOut /\ (strayed \/ center # ui.center))

\* Slip: the LO panned by the wheel is not sent.
TargetAlone(dial) == <<TargetOnly(dial)>>

\* The LO is sent only when it panned.
RelativeMsgs(dial) == IF dial.center # shot.center THEN <<Pair(dial)>>
                      ELSE <<TargetOnly(dial)>>

\* Wheel, left and right arrows and the LO-offset strip: tune_target_relative.  The
\* wheel alone cancels a momentum.
Relative == /\ Moves("wheel") /\ Turn(2)
            /\ \E delta \in {-1, 1} :
                 LET dial == Panned(delta) IN
                   /\ up' = up \o RelativeMsgs(dial)
                   /\ ui' = dial
                   /\ IF dial.center # shot.center THEN Sends(dial.center)
                      ELSE Keeps(dial.center)
            /\ held' = FALSE /\ fling' \in {0, fling}
            /\ UNCHANGED <<lastSent, open>>

Click == /\ Moves("click") /\ Turn(3)
         /\ \E f \in Freqs :
              /\ ui' = [ui EXCEPT !.target = ClampTarget(f, shot.center)]
              /\ up' = Append(up, TargetOnly(ui'))
         /\ held' = FALSE /\ fling' = 0
         /\ UNCHANGED <<lastSent, open, lastOut, strayed>>

CenterOnTarget == /\ Moves("center") /\ Turn(4)
                  /\ ui' = [center |-> shot.target, target |-> shot.target]
                  /\ up' = Append(up, Pair(ui')) /\ Sends(shot.target)
                  /\ held' = FALSE /\ fling' = 0
                  /\ UNCHANGED <<lastSent, open>>

\* The LO strip: the target rides with the LO.
MoveLo == /\ Moves("lo") /\ Turn(2)
          /\ \E f \in Freqs :
               /\ ui' = [center |-> f, target |-> ClampTarget(shot.target + f - shot.center, f)]
               /\ Sends(f)
          /\ up' = Append(up, Pair(ui'))
          /\ held' = FALSE
          /\ UNCHANGED <<fling, lastSent, open>>

\* A typed frequency, or a CAT program's: QSY here, in two messages.
Qsy == /\ Moves("qsy")
       /\ \E f \in Freqs : ui' = [center |-> f, target |-> f] /\ Sends(f)
       /\ up' = up \o <<CenterOnly(ui'), TargetOnly(ui')>>
       /\ held' = FALSE
       /\ UNCHANGED <<at, fling, lastSent, open>>

\* Up and down arrows: the LO alone, from where it is under the lock.
Arrow == /\ Moves("arrow")
         /\ \E delta \in {-1, 1} :
              /\ ui' = [ui EXCEPT !.center = ClampCenter(@ + delta)]
              /\ Sends(ui'.center)
         /\ up' = Append(up, CenterOnly(ui'))
         /\ UNCHANGED <<at, held, fling, lastSent, open>>

\* The other VFO of a dual watch is dragged: its LO in the field they share.
OtherVfo == /\ Moves("other")
            /\ lastSent' \in Freqs /\ open' = FALSE
            /\ UNCHANGED <<ui, at, held, fling, up, lastOut, strayed>>

-----------------------------------------------------------------------------
(* Drag and momentum: pan_target_by moves the dial on every frame and sends
   when the throttle lets it, or when it is forced.                           *)

\* Slip: a throttled move of the LO counts as sent.
NoteFrame(dial, send) == lastSent' = dial.center

NoteSent(dial, send) == lastSent' = IF send THEN dial.center ELSE lastSent

Pan(delta, force) ==
  LET dial == Panned(delta)
      send == open \/ force
      panned == dial.center # lastSent
  IN
  /\ ui' = dial
  /\ open' = (open /\ ~send) /\ held' = ~send
  /\ NoteSent(dial, send)
  /\ up' = IF ~send THEN up ELSE Append(up, IF panned THEN Pair(dial) ELSE TargetOnly(dial))
  /\ IF send /\ panned THEN Sends(dial.center) ELSE Keeps(dial.center)

DragFrame == /\ "drag" \in paths /\ moves < MaxMoves /\ ~tx /\ Turn(5)
             /\ \E delta \in {-1, 1} : Pan(delta, FALSE)
             /\ drag' = TRUE /\ fling' = 0 /\ moves' = moves + 1
             /\ UNCHANGED <<paths, shot, tx, server, published, down>>

Release == /\ drag
           /\ drag' = FALSE /\ at' = 5
           /\ fling' \in IF tx THEN {fling} ELSE {-1, 0, 1}
           /\ UNCHANGED <<paths, ui, shot, lastSent, open, held, tx, up, server, published,
                          down, moves, lastOut, strayed>>

\* advance_pan_momentum: the stopping frame forces its send.
Momentum == /\ fling # 0 /\ ~drag /\ Turn(1)
            /\ IF tx THEN /\ fling' = 0
                          /\ UNCHANGED <<ui, lastSent, open, held, up, moves, lastOut, strayed>>
               ELSE \E stopping \in BOOLEAN :
                      /\ stopping \/ moves < MaxMoves
                      /\ Pan(fling, stopping)
                      /\ moves' = IF stopping THEN moves ELSE moves + 1
                      /\ fling' = IF stopping \/ ui' = shot THEN 0 ELSE fling
            /\ UNCHANGED <<paths, shot, drag, tx, server, published, down>>

Tick == /\ ~open
        /\ open' = TRUE
        /\ UNCHANGED <<paths, ui, shot, at, lastSent, held, drag, fling, tx, up, server,
                       published, down, moves, lastOut, strayed>>

Transmit == /\ "drag" \in paths
            /\ tx' = ~tx
            /\ UNCHANGED <<paths, ui, shot, at, lastSent, open, held, drag, fling, up, server,
                           published, down, moves, lastOut, strayed>>

-----------------------------------------------------------------------------
(* The server: the command thread, the status published from it, the client. *)

Serve == /\ up # <<>>
         /\ server' = Merge(server, Head(up))
         /\ up' = Tail(up)
         /\ UNCHANGED <<paths, ui, shot, at, lastSent, open, held, drag, fling, tx, published,
                        down, moves, lastOut, strayed>>

Publish == /\ published # server
           /\ published' = server
           /\ down' = Append(down,
                [center |-> IF server.center = published.center THEN None ELSE server.center,
                 target |-> IF server.target = published.target THEN None ELSE server.target])
           /\ UNCHANGED <<paths, ui, shot, at, lastSent, open, held, drag, fling, tx, up, server,
                          moves, lastOut, strayed>>

Receive == /\ down # <<>>
           /\ ui' = Merge(ui, Head(down))
           /\ strayed' = (strayed /\ Head(down).center = None)
           /\ down' = Tail(down)
           /\ UNCHANGED <<paths, shot, at, lastSent, open, held, drag, fling, tx, up, server,
                          published, moves, lastOut>>

Next == \/ Look \/ Relative \/ Click \/ CenterOnTarget \/ MoveLo \/ Qsy \/ Arrow \/ OtherVfo
        \/ DragFrame \/ Release \/ Momentum \/ Tick \/ Transmit
        \/ Serve \/ Publish \/ Receive

Spec == Init /\ [][Next]_vars

-----------------------------------------------------------------------------
AtRest == ~drag /\ fling = 0 /\ up = <<>> /\ down = <<>> /\ published = server

\* No control of these puts a centre on the dial that stays unsent: a drag alone sends
\* it with the next frame that passes the throttle, the others at once.
Steady == \/ paths = {"drag"}
          \/ paths \cap {"wheel", "drag"} = {}

\* With nothing under way the server is tuned to what the client shows, whatever echoes
\* arrived within a frame: to the target, unless the throttle kept the last frame of a
\* drag; and to the centre, unless a control put one on the dial and did not send it.
\* Of that only the wheel and a drag mixed with other controls are guilty.
RestAgrees ==
  AtRest => /\ ~held => ui.target = server.target
            /\ ~strayed \/ (~held /\ Steady) => ui.center = server.center

\* "Retune the LO only when it actually panned" (ui/app_center.rs:644): of an operator
\* who does not drag, whatever arrives between the snapshot and the write.
WheelKeepsLo == AtRest /\ "drag" \notin paths => ui = server

\* "Tracking the last-sent center ... so a center change during a throttled frame still
\* reaches the server" (ui/app_center.rs:719), whatever moved the LO before the drag.
DragKeepsLo == AtRest /\ "wheel" \notin paths /\ ~held => ui = server

\* "so the server lands on the settled frequency": also after a drag.
GestureLands == AtRest => ui = server

=============================================================================
