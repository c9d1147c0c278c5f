--------------------------- MODULE MCPanelsProofs ---------------------------
(***************************************************************************)
(* The safety properties of the panels, the keys and the store of the      *)
(* client, for any values of what MCPanels bounds: the owners of the       *)
(* transmitter, what is stored for an operator, and the settings that live *)
(* on both sides of the connection (modes, dial, source, VFOs).  A part    *)
(* moves only in the behaviours that `part' names, so the invariant has    *)
(* one part for each of them, under that condition.                        *)
(***************************************************************************)
EXTENDS MCPanels, SequenceTheorems, TLAPS

(***************************************************************************)
(* A value that travels in a queue.                                        *)
(***************************************************************************)

\* Of a value that is d now and is set by the messages in `touch', to v by those in
\* `sets': it is v once the messages of s have been taken.
Lands(s, touch, sets, d, v) ==
    \/ v = d /\ \A i \in 1..Len(s) : s[i] \notin touch
    \/ \E i \in 1..Len(s) : s[i] \in sets /\ \A j \in i+1..Len(s) : s[j] \notin touch

\* Nothing under way leaves the value as it is.
LEMMA LandsEmpty ==
    ASSUME NEW touch, NEW sets, NEW d, NEW v
    PROVE  Lands(<<>>, touch, sets, d, v) <=> v = d
  BY DEF Lands

\* A message at the end that does not touch the value.
LEMMA LandsAppendOther ==
    ASSUME NEW T, NEW s \in Seq(T), NEW x \in T, NEW touch, NEW sets, NEW d, NEW v,
           Lands(s, touch, sets, d, v), x \notin touch
    PROVE  Lands(Append(s, x), touch, sets, d, v)
  <1> DEFINE t == Append(s, x)
  <1>1. Len(t) = Len(s) + 1 /\ t[Len(s) + 1] = x /\ Len(s) \in Nat
        /\ \A i \in 1..Len(s) : t[i] = s[i]
    OBVIOUS
  <1> HIDE DEF t
  <1>2. CASE v = d /\ \A i \in 1..Len(s) : s[i] \notin touch
    <2>1. \A i \in 1..Len(t) : t[i] \notin touch
      BY <1>1, <1>2
    <2>2. QED
      BY <1>2, <2>1 DEF Lands, t
  <1>3. ASSUME NEW i \in 1..Len(s), s[i] \in sets,
               \A j \in i+1..Len(s) : s[j] \notin touch
        PROVE  Lands(t, touch, sets, d, v)
    <2>1. i \in 1..Len(t) /\ t[i] \in sets /\ \A j \in i+1..Len(t) : t[j] \notin touch
      BY <1>1, <1>3
    <2>2. QED
      BY <2>1 DEF Lands
  <1>4. QED
    BY <1>2, <1>3 DEF Lands, t

\* A message at the end that sets the value decides.
LEMMA LandsAppendThis ==
    ASSUME NEW T, NEW s \in Seq(T), NEW x \in T, NEW touch, NEW sets, NEW d, NEW v,
           x \in sets
    PROVE  Lands(Append(s, x), touch, sets, d, v)
  <1> DEFINE t == Append(s, x)
  <1>1. Len(t) = Len(s) + 1 /\ t[Len(s) + 1] = x /\ Len(s) \in Nat
    OBVIOUS
  <1> HIDE DEF t
  <1>2. Len(t) \in 1..Len(t) /\ t[Len(t)] \in sets
        /\ \A j \in Len(t)+1..Len(t) : t[j] \notin touch
    BY <1>1
  <1>3. QED
    BY <1>2 DEF Lands, t

\* The first message is taken; e is the value then.
LEMMA LandsTail ==
    ASSUME NEW T, NEW s \in Seq(T), s # <<>>, NEW touch, NEW sets, NEW d, NEW v, NEW e,
           Lands(s, touch, sets, d, v),
           Head(s) \notin touch => e = d,
           Head(s) \in sets /\ (\A j \in 2..Len(s) : s[j] \notin touch) => e = v
    PROVE  Lands(Tail(s), touch, sets, e, v)
  <1> DEFINE t == Tail(s)
  <1>1. Len(t) = Len(s) - 1 /\ Len(s) \in Nat \ {0} /\ Len(t) \in Nat /\ Head(s) = s[1]
        /\ \A i \in 1..Len(t) : t[i] = s[i + 1]
    OBVIOUS
  <1> HIDE DEF t
  <1>2. CASE v = d /\ \A i \in 1..Len(s) : s[i] \notin touch
    <2>1. v = e /\ \A i \in 1..Len(t) : t[i] \notin touch
      BY <1>1, <1>2
    <2>2. QED
      BY <2>1 DEF Lands, t
  <1>3. ASSUME NEW i \in 1..Len(s), s[i] \in sets,
               \A j \in i+1..Len(s) : s[j] \notin touch
        PROVE  Lands(t, touch, sets, e, v)
    <2>1. CASE i = 1
      <3>1. v = e /\ \A j \in 1..Len(t) : t[j] \notin touch
        BY <1>1, <1>3, <2>1
      <3>2. QED
        BY <3>1 DEF Lands
    <2>2. CASE i # 1
      <3> DEFINE k == i - 1
      <3>1. k \in 1..Len(t) /\ t[k] \in sets /\ \A j \in k+1..Len(t) : t[j] \notin touch
        <4>1. k \in 1..Len(t) /\ t[k] = s[i]
          BY <1>1, <1>3, <2>2
        <4>2. ASSUME NEW j \in k+1..Len(t)
              PROVE  t[j] \notin touch
          <5>1. j \in 1..Len(t) /\ j + 1 \in i+1..Len(s)
            BY <1>1, <1>3, <2>2, <4>2
          <5>2. QED
            BY <1>1, <1>3, <5>1
        <4>3. QED
          BY <1>3, <4>1, <4>2
      <3> HIDE DEF k
      <3>2. QED
        BY <3>1 DEF Lands
    <2>3. QED
      BY <2>1, <2>2
  <1>4. QED
    BY <1>2, <1>3 DEF Lands, t

\* Messages at the end that do not touch the value.
LEMMA LandsConcatOther ==
    ASSUME NEW T, NEW s \in Seq(T), NEW r \in Seq(T), NEW touch, NEW sets, NEW d, NEW v,
           Lands(s, touch, sets, d, v), \A i \in 1..Len(r) : r[i] \notin touch
    PROVE  Lands(s \o r, touch, sets, d, v)
  <1> DEFINE t == s \o r
  <1>1. Len(t) = Len(s) + Len(r) /\ Len(s) \in Nat /\ Len(r) \in Nat
        /\ \A i \in 1..Len(s) + Len(r) : t[i] = IF i <= Len(s) THEN s[i] ELSE r[i - Len(s)]
    BY ConcatProperties, LenProperties
  <1> HIDE DEF t
  <1>2. \A i \in Len(s)+1..Len(t) : t[i] \notin touch
    <2>1. SUFFICES ASSUME NEW i \in Len(s)+1..Len(t)
                   PROVE  t[i] \notin touch
      OBVIOUS
    <2>2. i - Len(s) \in 1..Len(r) /\ t[i] = r[i - Len(s)]
      BY <1>1
    <2>3. QED
      BY <2>2
  <1>3. CASE v = d /\ \A i \in 1..Len(s) : s[i] \notin touch
    <2>1. \A i \in 1..Len(t) : t[i] \notin touch
      BY <1>1, <1>2, <1>3
    <2>2. QED
      BY <1>3, <2>1 DEF Lands, t
  <1>4. ASSUME NEW i \in 1..Len(s), s[i] \in sets,
               \A j \in i+1..Len(s) : s[j] \notin touch
        PROVE  Lands(t, touch, sets, d, v)
    <2>1. i \in 1..Len(t) /\ t[i] \in sets
      BY <1>1, <1>4
    <2>2. ASSUME NEW j \in i+1..Len(t)
          PROVE  t[j] \notin touch
      BY <1>1, <1>2, <1>4, <2>2
    <2>3. QED
      BY <2>1, <2>2 DEF Lands
  <1>5. QED
    BY <1>3, <1>4 DEF Lands, t

\* Messages at the end of which one sets the value, and no later one touches it.
LEMMA LandsConcatThis ==
    ASSUME NEW T, NEW s \in Seq(T), NEW r \in Seq(T), NEW touch, NEW sets, NEW d, NEW v,
           NEW k \in 1..Len(r), r[k] \in sets, \A j \in k+1..Len(r) : r[j] \notin touch
    PROVE  Lands(s \o r, touch, sets, d, v)
  <1> DEFINE t == s \o r
             i == Len(s) + k
  <1>1. Len(t) = Len(s) + Len(r) /\ Len(s) \in Nat /\ Len(r) \in Nat
        /\ \A j \in 1..Len(s) + Len(r) : t[j] = IF j <= Len(s) THEN s[j] ELSE r[j - Len(s)]
    BY ConcatProperties, LenProperties
  <1> HIDE DEF t
  <1>2. i \in 1..Len(t) /\ t[i] = r[k]
    BY <1>1
  <1>3. ASSUME NEW j \in i+1..Len(t)
        PROVE  t[j] \notin touch
    <2>1. j - Len(s) \in k+1..Len(r) /\ t[j] = r[j - Len(s)]
      BY <1>1, <1>3
    <2>2. QED
      BY <2>1
  <1> HIDE DEF i
  <1>4. QED
    BY <1>2, <1>3 DEF Lands, t

(***************************************************************************)
(* The owners of the transmitter.                                          *)
(***************************************************************************)

PttUis == [focused : BOOLEAN, held : BOOLEAN, down : BOOLEAN, pressed : BOOLEAN,
           needsFresh : BOOLEAN, ssb : BOOLEAN, cw : BOOLEAN]
Keyers == [playing : BOOLEAN, abort : BOOLEAN,
           step : {"idle", "feed", "streaming", "external", "done"}]
Rings == [streaming : BOOLEAN, external : BOOLEAN]
Cats == [ptt : BOOLEAN, digital : BOOLEAN, tci : BOOLEAN]
Conns == [open : BOOLEAN, wants : BOOLEAN, step : {"idle", "route", "send"}]
Keys == [mic : {"nobody", "space", "clip"} \cup Ptt!Programs, cw : BOOLEAN,
         lapse : {"none", "left", "raced"}]

\* A connection is about to un-key.
SomeUnkeying == \E c \in Ptt!Programs : Ptt!Unkeying(c)

\* A program that keyed wants it, and cat_ptt says that the radio is keyed, or somebody
\* is about to un-key.
ProgramKeys ==
    keyed.mic \in Ptt!Programs /\ keyed.lapse = "none" =>
        (conns[keyed.mic].wants /\ cat.ptt) \/ SomeUnkeying

\* Each of the owners in the client that keyed and has not un-keyed still wants it; the
\* CW text keys only while it sends.
OwnersKey ==
    /\ keyed.mic = "space" => pttUi.ssb
    /\ keyed.mic = "clip" => keyer.playing /\ keyer.step = "feed"
    /\ keyed.cw => pttUi.cw \/ text.keyed
    /\ text.keyed => text.sending

\* A key that egui reports down without a finger on it was kept over a blur, and the
\* latch is set, or will be in the frame that a blur has to last for.
DownIsLatched ==
    pttUi.down /\ ~pttUi.held =>
        ~pttUi.focused \/ (pttUi.needsFresh /\ ~pttUi.pressed)

PttInv == Ptt!TypeOK /\ OwnersKey /\ ProgramKeys /\ DownIsLatched

\* The types, one by one.
LEMMA PttTypes ==
    /\ Ptt!TypeOK <=>
         /\ owners \in OwnerSets /\ pttUi \in PttUis
         /\ radio \in [acquired : BOOLEAN, mode : {"ssb", "cw"}] /\ keyer \in Keyers
         /\ text \in [sending : BOOLEAN, abort : BOOLEAN, keyed : BOOLEAN]
         /\ cat \in Cats /\ conns \in [Ptt!Programs -> Conns]
         /\ mic \in Rings /\ keyed \in Keys
    /\ Ptt!TypeOK' <=>
         /\ owners' \in OwnerSets /\ pttUi' \in PttUis
         /\ radio' \in [acquired : BOOLEAN, mode : {"ssb", "cw"}] /\ keyer' \in Keyers
         /\ text' \in [sending : BOOLEAN, abort : BOOLEAN, keyed : BOOLEAN]
         /\ cat' \in Cats /\ conns' \in [Ptt!Programs -> Conns]
         /\ mic' \in Rings /\ keyed' \in Keys
  BY DEF Ptt!TypeOK, PttUis, Keyers, Cats, Conns, Rings, Keys

\* No program is one of the owners in the client.
LEMMA ProgramsApart == Ptt!Programs \cap {"nobody", "space", "clip"} = {}
  BY PanelsAssumption DEF PanelsAssumption, Ptt!PttAssumption

\* Whether a key message has an effect.
LEMMA AskedTyped ==
    ASSUME PttInv
    PROVE  \A want \in BOOLEAN : Ptt!Asked(want) \in BOOLEAN /\ (Ptt!Asked(want) => want)
  BY DEF PttInv, Ptt!TypeOK, Ptt!Asked

\* What a key message of the microphone leaves.
LEMMA MicKeyed ==
    ASSUME PttInv
    PROVE  /\ Ptt!MicUp \in Keys /\ Ptt!MicUp.mic = "nobody" /\ Ptt!MicUp.cw = keyed.cw
           /\ \A who \in {"space", "clip"} \cup Ptt!Programs, l \in {"none", "raced"} :
                LET k == Ptt!MicDown(who, l) IN
                  /\ k \in Keys /\ k.cw = keyed.cw
                  /\ (k.mic = who /\ k.lapse = l) \/ k.mic = "nobody"
  <1>1. keyed \in Keys
    BY PttTypes DEF PttInv
  <1>2. Ptt!MicUp \in Keys /\ Ptt!MicUp.mic = "nobody" /\ Ptt!MicUp.cw = keyed.cw
    BY <1>1 DEF Ptt!MicUp, Keys
  <1>3. ASSUME NEW who \in {"space", "clip"} \cup Ptt!Programs, NEW l \in {"none", "raced"}
        PROVE  LET k == Ptt!MicDown(who, l) IN
                 /\ k \in Keys /\ k.cw = keyed.cw
                 /\ (k.mic = who /\ k.lapse = l) \/ k.mic = "nobody"
    BY <1>1 DEF Ptt!MicDown, Keys
  <1>4. QED
    BY <1>2, <1>3

\* A step that leaves the connections and who keyed alone, and cat_ptt, keeps what is
\* said of the programs.
LEMMA ProgramsAside ==
    ASSUME ProgramKeys, UNCHANGED <<cat, conns>>,
           \/ keyed'.mic = keyed.mic /\ keyed'.lapse = keyed.lapse
           \/ keyed'.mic \notin Ptt!Programs
    PROVE  ProgramKeys'
  BY DEF ProgramKeys, SomeUnkeying, Ptt!Unkeying

\* Nobody keys at the start.
LEMMA PttInitInv == Ptt!Init => PttInv
  <1> SUFFICES ASSUME Ptt!Init PROVE PttInv
    OBVIOUS
  <1>1. Ptt!TypeOK
    BY DEF Ptt!Init, Ptt!TypeOK
  <1>2. OwnersKey /\ DownIsLatched
    BY DEF Ptt!Init, OwnersKey, DownIsLatched
  <1>3. ProgramKeys
    BY ProgramsApart DEF Ptt!Init, ProgramKeys
  <1>4. QED
    BY <1>1, <1>2, <1>3 DEF PttInv

\* The keyboard and the window move the key egui sees, and key nothing.
LEMMA KeyboardInv ==
    ASSUME PttInv, Ptt!Press \/ Ptt!LetGo \/ Ptt!Focus
    PROVE  PttInv' /\ pttUi'.ssb = pttUi.ssb /\ pttUi'.cw = pttUi.cw
  <1>1. UNCHANGED <<owners, radio, keyer, text, cat, conns, mic, keyed>>
    BY DEF Ptt!Press, Ptt!LetGo, Ptt!Focus
  <1>2. pttUi \in PttUis
    BY PttTypes DEF PttInv
  <1>3. pttUi' \in PttUis /\ pttUi'.ssb = pttUi.ssb /\ pttUi'.cw = pttUi.cw
    <2>1. CASE Ptt!Press
      BY <1>2, <2>1 DEF Ptt!Press, PttUis
    <2>2. CASE Ptt!LetGo
      BY <1>2, <2>2 DEF Ptt!LetGo, PttUis
    <2>3. CASE Ptt!Focus
      BY <1>2, <2>3 DEF Ptt!Focus, PttUis
    <2>4. QED
      BY <2>1, <2>2, <2>3
  <1>4. DownIsLatched'
    <2>1. CASE Ptt!Press
      BY <1>2, <2>1 DEF PttInv, DownIsLatched, Ptt!Press, PttUis
    <2>2. CASE Ptt!LetGo
      BY <1>2, <2>2 DEF PttInv, DownIsLatched, Ptt!LetGo, PttUis
    <2>3. CASE Ptt!Focus
      BY <1>2, <2>3 DEF PttInv, DownIsLatched, Ptt!Focus, PttUis
    <2>4. QED
      BY <2>1, <2>2, <2>3
  <1>5. Ptt!TypeOK'
    BY <1>1, <1>3, PttTypes DEF PttInv
  <1>6. OwnersKey' /\ ProgramKeys'
    BY <1>1, <1>3, ProgramsAside DEF PttInv, OwnersKey
  <1>7. QED
    BY <1>3, <1>4, <1>5, <1>6 DEF PttInv

\* Space counts only under a finger.
LEMMA SpaceIsHeld ==
    ASSUME PttInv, NEW typing \in BOOLEAN, Ptt!SpaceHeld(typing)
    PROVE  pttUi.held
  BY DEF PttInv, Ptt!TypeOK, DownIsLatched, Ptt!SpaceHeld, Ptt!Latched

\* What one frame leaves: each message it sends is of the owner it names.
LEMMA FrameInv ==
    ASSUME PttInv, Ptt!UiFrame
    PROVE  PttInv' /\ ((pttUi'.ssb \/ pttUi'.cw) => pttUi.held)
  <1> PICK typing \in BOOLEAN, click \in {"none", "play", "send", "stop"} :
           Ptt!Frame(typing, click)
    BY DEF Ptt!UiFrame
  <1> DEFINE space == Ptt!SpaceHeld(typing)
             wantKey == space /\ radio.acquired /\ radio.mode = "cw"
             wantTx == space /\ radio.acquired /\ radio.mode = "ssb" /\ ~keyer.playing
             play == click = "play" /\ Ptt!MayPlay
             send == click = "send" /\ radio.mode = "cw" /\ ~text.sending
  <1>1. space \in BOOLEAN /\ wantKey \in BOOLEAN /\ wantTx \in BOOLEAN /\ play \in BOOLEAN
        /\ Ptt!Latched \in BOOLEAN
    BY DEF PttInv, Ptt!TypeOK, Ptt!SpaceHeld, Ptt!Latched, Ptt!MayPlay
  <1>2. pttUi' = [pttUi EXCEPT !.needsFresh = Ptt!Latched, !.pressed = FALSE,
                               !.ssb = wantTx, !.cw = wantKey]
    BY DEF Ptt!Frame
  <1>3. keyer' = IF play THEN [playing |-> TRUE, abort |-> FALSE, step |-> "feed"]
                 ELSE [keyer EXCEPT !.abort =
                         @ \/ (keyer.playing /\ (space \/ ~radio.acquired
                                                 \/ radio.mode # "ssb"))]
    BY DEF Ptt!Frame
  <1>4. text' = IF send THEN [sending |-> TRUE, abort |-> FALSE, keyed |-> FALSE]
                ELSE [text EXCEPT !.abort = @ \/ (click = "stop" /\ text.sending)]
    BY DEF Ptt!Frame
  <1>5. mic' = IF play THEN [streaming |-> TRUE, external |-> TRUE]
               ELSE IF wantTx # pttUi.ssb THEN [mic EXCEPT !.streaming = wantTx] ELSE mic
    BY DEF Ptt!Frame
  <1>6. keyed' = [IF play THEN Ptt!MicDown("clip", "none")
                  ELSE IF wantTx = pttUi.ssb THEN keyed
                  ELSE IF wantTx THEN Ptt!MicDown("space", "none") ELSE Ptt!MicUp
                  EXCEPT !.cw = IF wantKey # pttUi.cw THEN Ptt!Asked(wantKey) ELSE @]
    BY DEF Ptt!Frame
  <1>7. UNCHANGED <<owners, radio, cat, conns>>
    BY DEF Ptt!Frame
  <1>8. space => pttUi.held
    BY SpaceIsHeld
  <1>9. DownIsLatched'
    BY <1>2, <1>8 DEF PttInv, DownIsLatched, Ptt!TypeOK, Ptt!Latched
  <1>10. (wantTx \/ wantKey) => pttUi.held
    BY <1>8
  <1> HIDE DEF space, wantKey, wantTx, play, send
  <1>11. Ptt!Asked(wantKey) \in BOOLEAN /\ (Ptt!Asked(wantKey) => wantKey)
    BY <1>1, AskedTyped
  <1>12. pttUi' \in PttUis /\ pttUi'.ssb = wantTx /\ pttUi'.cw = wantKey
    <2>1. pttUi \in PttUis
      BY PttTypes DEF PttInv
    <2> HIDE DEF PttInv
    <2>2. pttUi' \in PttUis
      BY <1>1, <1>2, <2>1 DEF PttUis
    <2>3. pttUi'.ssb = wantTx /\ pttUi'.cw = wantKey
      BY <1>2, <2>1 DEF PttUis
    <2>4. QED
      BY <2>2, <2>3
  <1>13. keyer' \in Keyers
         /\ (play => keyer'.playing /\ keyer'.step = "feed")
         /\ (~play => keyer'.playing = keyer.playing /\ keyer'.step = keyer.step)
    BY <1>1, <1>3 DEF PttInv, Ptt!TypeOK, Keyers
  <1>14. text' \in [sending : BOOLEAN, abort : BOOLEAN, keyed : BOOLEAN]
         /\ text'.keyed = text.keyed /\ (text'.keyed => text'.sending)
    BY <1>4 DEF PttInv, Ptt!TypeOK, OwnersKey, send
  <1>15. mic' \in Rings
    BY <1>1, <1>5 DEF PttInv, Ptt!TypeOK, Rings
  <1>16. /\ keyed' \in Keys
         /\ keyed'.mic = "clip" => play \/ keyed.mic = "clip"
         /\ keyed'.mic = "space" => wantTx \/ (keyed.mic = "space" /\ wantTx = pttUi.ssb)
         /\ \/ keyed'.mic = keyed.mic /\ keyed'.lapse = keyed.lapse
            \/ keyed'.mic \notin Ptt!Programs
         /\ keyed'.cw => wantKey \/ (keyed.cw /\ wantKey = pttUi.cw)
    <2> DEFINE k == IF play THEN Ptt!MicDown("clip", "none")
                    ELSE IF wantTx = pttUi.ssb THEN keyed
                    ELSE IF wantTx THEN Ptt!MicDown("space", "none") ELSE Ptt!MicUp
    <2>1. keyed \in Keys
      BY PttTypes DEF PttInv
    <2>2. /\ k \in Keys /\ k.cw = keyed.cw
          /\ k.mic = "clip" => play \/ keyed.mic = "clip"
          /\ k.mic = "space" => wantTx \/ (keyed.mic = "space" /\ wantTx = pttUi.ssb)
          /\ \/ k.mic = keyed.mic /\ k.lapse = keyed.lapse
             \/ k.mic \notin Ptt!Programs
      <3>1. CASE play
        BY <2>1, <3>1, MicKeyed, ProgramsApart
      <3>2. CASE ~play /\ wantTx = pttUi.ssb
        BY <2>1, <3>2
      <3>3. CASE ~play /\ wantTx # pttUi.ssb /\ wantTx
        BY <2>1, <3>3, MicKeyed, ProgramsApart
      <3>4. CASE ~play /\ wantTx # pttUi.ssb /\ ~wantTx
        BY <2>1, <3>4, MicKeyed, ProgramsApart
      <3>5. QED
        BY <1>1, <3>1, <3>2, <3>3, <3>4
    <2>3. keyed' = [k EXCEPT !.cw = IF wantKey # pttUi.cw THEN Ptt!Asked(wantKey) ELSE @]
      BY <1>6
    <2> HIDE DEF k
    <2>4. /\ keyed' \in Keys /\ keyed'.mic = k.mic /\ keyed'.lapse = k.lapse
          /\ keyed'.cw => wantKey \/ (keyed.cw /\ wantKey = pttUi.cw)
      BY <1>1, <1>11, <2>2, <2>3 DEF Keys
    <2>5. QED
      BY <2>2, <2>4
  <1>17. Ptt!TypeOK'
    BY <1>7, <1>12, <1>13, <1>14, <1>15, <1>16, PttTypes DEF PttInv
  <1>18. OwnersKey'
    BY <1>7, <1>12, <1>13, <1>14, <1>16 DEF PttInv, OwnersKey
  <1>19. ProgramKeys'
    BY <1>7, <1>16, ProgramsAside DEF PttInv
  <1>20. QED
    BY <1>9, <1>10, <1>12, <1>17, <1>18, <1>19 DEF PttInv

\* The threads un-key what they keyed, and only then stop wanting it.
LEMMA ThreadsInv ==
    ASSUME PttInv, \/ Ptt!KeyerStops \/ Ptt!KeyerClears
                   \/ Ptt!TextDown \/ Ptt!TextUp \/ Ptt!TextEnds
    PROVE  PttInv' /\ UNCHANGED pttUi
  <1>1. UNCHANGED <<owners, pttUi, radio, cat, conns>>
    BY DEF Ptt!KeyerStops, Ptt!KeyerClears, Ptt!TextDown, Ptt!TextUp, Ptt!TextEnds
  <1>2. /\ keyed \in Keys /\ keyer \in Keyers /\ mic \in Rings
        /\ text \in [sending : BOOLEAN, abort : BOOLEAN, keyed : BOOLEAN]
    BY PttTypes DEF PttInv
  <1>3. /\ keyed' \in Keys /\ keyer' \in Keyers /\ mic' \in Rings
        /\ text' \in [sending : BOOLEAN, abort : BOOLEAN, keyed : BOOLEAN]
        /\ \/ keyed'.mic = keyed.mic /\ keyed'.lapse = keyed.lapse
           \/ keyed'.mic = "nobody"
        /\ OwnersKey'
    <2>1. CASE Ptt!KeyerStops
      <3>1. keyed' = Ptt!MicUp /\ UNCHANGED <<text, mic>>
            /\ keyer' = [keyer EXCEPT !.step = "streaming"]
        BY <2>1 DEF Ptt!KeyerStops, Ptt!GuardStops
      <3>2. QED
        BY <1>1, <1>2, <3>1, MicKeyed DEF PttInv, OwnersKey, Keyers
    <2>2. CASE Ptt!KeyerClears
      <3>1. keyer.step # "feed" /\ UNCHANGED <<text, keyed>>
        BY <2>2 DEF Ptt!KeyerClears
      <3>2. mic' \in Rings
        BY <1>2, <2>2 DEF Ptt!KeyerClears, Rings
      <3>3. keyer' \in Keyers
        BY <1>2, <2>2 DEF Ptt!KeyerClears, Keyers
      <3>4. QED
        BY <1>1, <1>2, <3>1, <3>2, <3>3 DEF PttInv, OwnersKey
    <2>3. CASE Ptt!TextDown
      <3>1. /\ text.sending /\ text' = [text EXCEPT !.keyed = TRUE]
            /\ keyed' = [keyed EXCEPT !.cw = Ptt!Asked(TRUE)] /\ UNCHANGED <<keyer, mic>>
        BY <2>3 DEF Ptt!TextDown
      <3>2. Ptt!Asked(TRUE) \in BOOLEAN
        BY AskedTyped
      <3>3. keyed' \in Keys /\ keyed'.mic = keyed.mic /\ keyed'.lapse = keyed.lapse
        BY <1>2, <3>1, <3>2 DEF Keys
      <3>4. QED
        BY <1>1, <1>2, <3>1, <3>3 DEF PttInv, OwnersKey
    <2>4. CASE Ptt!TextUp
      <3>1. /\ text' = [text EXCEPT !.keyed = FALSE]
            /\ keyed' = [keyed EXCEPT !.cw = FALSE] /\ UNCHANGED <<keyer, mic>>
        BY <2>4 DEF Ptt!TextUp
      <3>2. keyed' \in Keys /\ keyed'.mic = keyed.mic /\ keyed'.lapse = keyed.lapse
            /\ ~keyed'.cw
        BY <1>2, <3>1 DEF Keys
      <3>3. QED
        BY <1>1, <1>2, <3>1, <3>2 DEF PttInv, OwnersKey
    <2>5. CASE Ptt!TextEnds
      <3>1. /\ ~text.keyed /\ text' = [text EXCEPT !.sending = FALSE]
            /\ UNCHANGED <<keyer, mic, keyed>>
        BY <2>5 DEF Ptt!TextEnds
      <3>2. QED
        BY <1>1, <1>2, <3>1 DEF PttInv, OwnersKey
    <2>6. QED
      BY <2>1, <2>2, <2>3, <2>4, <2>5
  <1>4. Ptt!TypeOK'
    BY <1>1, <1>3, PttTypes DEF PttInv
  <1>5. ProgramKeys'
    BY <1>1, <1>3, ProgramsAside, ProgramsApart DEF PttInv
  <1>6. DownIsLatched'
    BY <1>1 DEF PttInv, DownIsLatched
  <1>7. QED
    BY <1>1, <1>3, <1>4, <1>5, <1>6 DEF PttInv

\* The step of one connection changes that one only.
LEMMA OneConnection ==
    ASSUME PttInv, NEW c \in Ptt!Programs, NEW d \in Conns,
           conns' = [conns EXCEPT ![c] = d]
    PROVE  /\ conns' \in [Ptt!Programs -> Conns] /\ conns'[c] = d
           /\ \A b \in Ptt!Programs \ {c} : conns'[b] = conns[b]
  BY PttTypes DEF PttInv

\* A program un-keys what it keyed, or is told of as gone.
LEMMA ProgramInv ==
    ASSUME PttInv, NEW c \in Ptt!Programs,
           \/ Ptt!Opens(c) \/ Ptt!SetPtt(c) \/ Ptt!Route(c) \/ Ptt!Send(c)
           \/ Ptt!RigctlEnds(c) \/ Ptt!TciEnds(c)
    PROVE  PttInv' /\ UNCHANGED pttUi
  <1>1. UNCHANGED <<owners, pttUi, radio, keyer, text>>
    BY DEF Ptt!Opens, Ptt!SetPtt, Ptt!Route, Ptt!Send, Ptt!RigctlEnds, Ptt!TciEnds
  <1>2. /\ conns \in [Ptt!Programs -> Conns] /\ conns[c] \in Conns /\ keyed \in Keys
        /\ cat \in Cats /\ mic \in Rings
    BY PttTypes DEF PttInv
  <1>3. /\ conns' \in [Ptt!Programs -> Conns] /\ keyed' \in Keys /\ cat' \in Cats
        /\ mic' \in Rings
        /\ keyed'.cw = keyed.cw
        /\ keyed'.mic = keyed.mic \/ keyed'.mic \notin {"space", "clip"}
        /\ ProgramKeys'
    <2>1. CASE Ptt!Opens(c)
      <3>1. conns' = [conns EXCEPT ![c] = [conns[c] EXCEPT !.open = TRUE]]
            /\ UNCHANGED <<cat, mic, keyed>>
        BY <1>2, <2>1 DEF Ptt!Opens
      <3>2. [conns[c] EXCEPT !.open = TRUE] \in Conns
        BY <1>2 DEF Conns
      <3>3. /\ conns' \in [Ptt!Programs -> Conns]
            /\ \A b \in Ptt!Programs : /\ conns'[b].wants = conns[b].wants
                                      /\ conns'[b].step = conns[b].step
        BY <1>2, <3>1, <3>2, OneConnection DEF Conns
      <3>4. QED
        BY <1>2, <3>1, <3>3 DEF PttInv, ProgramKeys, SomeUnkeying, Ptt!Unkeying
    <2>2. CASE Ptt!SetPtt(c)
      <3> PICK want \in BOOLEAN :
             /\ cat' = [cat EXCEPT !.ptt = want]
             /\ conns' = [conns EXCEPT ![c].wants = want, ![c].step = "route"]
        BY <2>2 DEF Ptt!SetPtt
      <3> DEFINE d == [conns[c] EXCEPT !.wants = want, !.step = "route"]
      <3>1. conns[c].step = "idle" /\ UNCHANGED <<mic, keyed>>
        BY <2>2 DEF Ptt!SetPtt
      <3>2. d \in Conns /\ d.wants = want /\ d.step = "route" /\ cat' \in Cats
            /\ cat'.ptt = want
        BY <1>2 DEF Conns, Cats
      <3>3. conns' = [conns EXCEPT ![c] = d]
        BY <1>2
      <3> HIDE DEF d
      <3>4. /\ conns' \in [Ptt!Programs -> Conns] /\ conns'[c] = d
            /\ \A b \in Ptt!Programs \ {c} : conns'[b] = conns[b]
        BY <3>2, <3>3, OneConnection
      <3>5. ~want => SomeUnkeying'
        BY <3>2, <3>4 DEF SomeUnkeying, Ptt!Unkeying
      <3>6. SomeUnkeying => SomeUnkeying'
        BY <3>1, <3>4 DEF SomeUnkeying, Ptt!Unkeying
      <3>7. ProgramKeys'
        BY <3>1, <3>2, <3>4, <3>5, <3>6 DEF PttInv, ProgramKeys
      <3>8. QED
        BY <1>2, <3>1, <3>2, <3>4, <3>7
    <2>3. CASE Ptt!Route(c)
      <3>1. conns' = [conns EXCEPT ![c] = [conns[c] EXCEPT !.step = "send"]]
            /\ conns[c].step = "route" /\ UNCHANGED keyed
        BY <1>2, <2>3 DEF Ptt!Route, Ptt!At
      <3>2. [conns[c] EXCEPT !.step = "send"] \in Conns
        BY <1>2 DEF Conns
      <3>3. /\ conns' \in [Ptt!Programs -> Conns]
            /\ \A b \in Ptt!Programs : /\ conns'[b].wants = conns[b].wants
                                      /\ conns'[b].step = "idle" <=> conns[b].step = "idle"
        BY <1>2, <3>1, <3>2, OneConnection DEF Conns
      <3>4. cat' \in Cats /\ cat'.ptt = cat.ptt
        <4>1. conns[c].wants \in BOOLEAN
          BY <1>2 DEF Conns
        <4>2. \/ cat' = [cat EXCEPT !.digital = conns[c].wants]
              \/ cat' = [cat EXCEPT !.tci = conns[c].wants]
          BY <2>3 DEF Ptt!Route
        <4>3. QED
          BY <1>2, <4>1, <4>2 DEF Cats
      <3>5. mic' \in Rings
        <4>1. conns[c].wants \in BOOLEAN
          BY <1>2 DEF Conns
        <4>2. \/ mic' = [streaming |-> conns[c].wants, external |-> conns[c].wants]
              \/ mic' = mic
          BY <2>3 DEF Ptt!Route
        <4>3. [streaming |-> conns[c].wants, external |-> conns[c].wants] \in Rings
          BY <4>1 DEF Rings
        <4>4. QED
          BY <1>2, <4>2, <4>3
      <3>6. ProgramKeys'
        BY <3>1, <3>3, <3>4 DEF PttInv, ProgramKeys, SomeUnkeying, Ptt!Unkeying
      <3>7. QED
        BY <1>2, <3>1, <3>3, <3>4, <3>5, <3>6
    <2>4. CASE Ptt!Send(c)
      <3>1. conns' = [conns EXCEPT ![c] = [conns[c] EXCEPT !.step = "idle"]]
            /\ conns[c].step = "send" /\ UNCHANGED <<cat, mic>>
        BY <1>2, <2>4 DEF Ptt!Send, Ptt!At
      <3>2. [conns[c] EXCEPT !.step = "idle"] \in Conns
            /\ [conns[c] EXCEPT !.step = "idle"].wants = conns[c].wants
        BY <1>2 DEF Conns
      <3>3. /\ conns' \in [Ptt!Programs -> Conns] /\ conns'[c].wants = conns[c].wants
            /\ \A b \in Ptt!Programs \ {c} : conns'[b] = conns[b]
        BY <3>1, <3>2, OneConnection
      <3>4. CASE conns[c].wants
        <4>1. keyed' = Ptt!MicDown(c, IF cat.ptt THEN "none" ELSE "raced")
          BY <2>4, <3>4 DEF Ptt!Send
        <4>2. /\ keyed' \in Keys /\ keyed'.cw = keyed.cw
              /\ \/ keyed'.mic = c /\ (keyed'.lapse = "none" => cat.ptt)
                 \/ keyed'.mic = "nobody"
          <5>1. CASE cat.ptt
            BY <4>1, <5>1, MicKeyed
          <5>2. CASE ~cat.ptt
            <6>1. keyed' = Ptt!MicDown(c, "raced")
              BY <4>1, <5>2
            <6>2. QED
              BY <6>1, MicKeyed
          <5>3. QED
            BY <5>1, <5>2
        <4>3. QED
          BY <1>2, <3>1, <3>3, <3>4, <4>2, ProgramsApart DEF ProgramKeys
      <3>5. CASE ~conns[c].wants
        <4>1. keyed' = Ptt!MicUp
          BY <2>4, <3>5 DEF Ptt!Send
        <4>2. QED
          BY <1>2, <3>1, <3>3, <4>1, MicKeyed, ProgramsApart DEF ProgramKeys
      <3>6. QED
        BY <3>4, <3>5
    <2>5. CASE Ptt!RigctlEnds(c)
      <3> DEFINE d == [conns[c] EXCEPT !.open = FALSE, !.wants = FALSE]
      <3>1. /\ conns[c].step = "idle" /\ UNCHANGED <<cat, mic>>
            /\ keyed' = IF keyed.mic = c THEN [keyed EXCEPT !.lapse = "left"] ELSE keyed
            /\ conns' = [conns EXCEPT ![c] = d]
        BY <1>2, <2>5 DEF Ptt!RigctlEnds
      <3>2. d \in Conns
        BY <1>2 DEF Conns
      <3> HIDE DEF d
      <3>3. /\ conns' \in [Ptt!Programs -> Conns]
            /\ \A b \in Ptt!Programs \ {c} : conns'[b] = conns[b]
        BY <3>1, <3>2, OneConnection
      <3>4. keyed' \in Keys /\ keyed'.cw = keyed.cw /\ keyed'.mic = keyed.mic
            /\ IF keyed.mic = c THEN keyed'.lapse = "left" ELSE keyed'.lapse = keyed.lapse
        BY <1>2, <3>1 DEF Keys
      <3>5. SomeUnkeying => SomeUnkeying'
        BY <3>1, <3>3 DEF SomeUnkeying, Ptt!Unkeying
      <3>6. ProgramKeys'
        BY <3>1, <3>3, <3>4, <3>5 DEF PttInv, ProgramKeys
      <3>7. QED
        BY <1>2, <3>1, <3>3, <3>4, <3>6
    <2>6. CASE Ptt!TciEnds(c)
      <3> DEFINE d == [conns[c] EXCEPT !.open = FALSE, !.wants = FALSE,
                                       !.step = IF cat.ptt THEN "route" ELSE "idle"]
      <3>1. /\ conns[c].step = "idle" /\ UNCHANGED <<mic, keyed>>
            /\ cat' = [cat EXCEPT !.ptt = FALSE]
            /\ conns' = [conns EXCEPT ![c] = d]
        BY <1>2, <2>6 DEF Ptt!TciEnds
      <3>2. d \in Conns /\ ~d.wants /\ (cat.ptt => d.step = "route")
        BY <1>2 DEF Conns
      <3> HIDE DEF d
      <3>3. /\ conns' \in [Ptt!Programs -> Conns] /\ conns'[c] = d
            /\ \A b \in Ptt!Programs \ {c} : conns'[b] = conns[b]
        BY <3>1, <3>2, OneConnection
      <3>4. cat' \in Cats
        BY <1>2, <3>1 DEF Cats
      <3>5. SomeUnkeying => SomeUnkeying'
        BY <3>1, <3>3 DEF SomeUnkeying, Ptt!Unkeying
      <3>6. cat.ptt => SomeUnkeying'
        BY <3>2, <3>3 DEF SomeUnkeying, Ptt!Unkeying
      <3>7. ProgramKeys'
        BY <3>1, <3>5, <3>6 DEF PttInv, ProgramKeys
      <3>8. QED
        BY <1>2, <3>1, <3>3, <3>4, <3>7
    <2>7. QED
      BY <2>1, <2>2, <2>3, <2>4, <2>5, <2>6
  <1>4. Ptt!TypeOK'
    BY <1>1, <1>3, PttTypes DEF PttInv
  <1>5. OwnersKey' /\ DownIsLatched'
    BY <1>1, <1>3 DEF PttInv, OwnersKey, DownIsLatched
  <1>6. QED
    BY <1>1, <1>3, <1>4, <1>5 DEF PttInv

\* A release un-keys; an acquire and a change of mode send nothing.
LEMMA PttRadioInv ==
    ASSUME PttInv, Ptt!Acquire \/ Ptt!Release \/ Ptt!ChangeMode
    PROVE  PttInv' /\ UNCHANGED pttUi
  <1>1. UNCHANGED <<owners, pttUi, keyer, text, cat, conns, mic>>
    BY DEF Ptt!Acquire, Ptt!Release, Ptt!ChangeMode
  <1>2. radio' \in [acquired : BOOLEAN, mode : {"ssb", "cw"}]
    BY DEF PttInv, Ptt!TypeOK, Ptt!Acquire, Ptt!Release, Ptt!ChangeMode
  <1>3. /\ keyed' \in Keys /\ (keyed'.cw => keyed.cw)
        /\ \/ keyed'.mic = keyed.mic /\ keyed'.lapse = keyed.lapse
           \/ keyed'.mic = "nobody"
    <2>1. CASE Ptt!Release
      <3>1. keyed' = [Ptt!MicUp EXCEPT !.cw = FALSE]
        BY <2>1 DEF Ptt!Release
      <3>2. QED
        BY <3>1, MicKeyed DEF Keys
    <2>2. CASE Ptt!Acquire \/ Ptt!ChangeMode
      <3>1. UNCHANGED keyed
        BY <2>2 DEF Ptt!Acquire, Ptt!ChangeMode
      <3>2. QED
        BY <3>1, PttTypes DEF PttInv
    <2>3. QED
      BY <2>1, <2>2
  <1>4. Ptt!TypeOK'
    BY <1>1, <1>2, <1>3, PttTypes DEF PttInv
  <1>5. OwnersKey' /\ DownIsLatched'
    BY <1>1, <1>3 DEF PttInv, OwnersKey, DownIsLatched
  <1>6. ProgramKeys'
    BY <1>1, <1>3, ProgramsAside, ProgramsApart DEF PttInv
  <1>7. QED
    BY <1>1, <1>4, <1>5, <1>6 DEF PttInv

\* Every step keeps the invariant, and keys for Space only under a finger.
LEMMA PttNextInv ==
    ASSUME PttInv, [Ptt!Next]_pttVars
    PROVE  PttInv' /\ Ptt!KeysUnderFinger
  <1>1. CASE UNCHANGED pttVars
    <2>1. UNCHANGED <<owners, pttUi, radio, keyer, text, cat, conns, mic, keyed>>
      BY <1>1 DEF pttVars
    <2>2. Ptt!TypeOK'
      BY <2>1, PttTypes DEF PttInv
    <2>3. ProgramKeys'
      BY <2>1, ProgramsAside DEF PttInv
    <2>4. QED
      BY <2>1, <2>2, <2>3 DEF PttInv, OwnersKey, DownIsLatched, Ptt!KeysUnderFinger
  <1>2. CASE Ptt!Press \/ Ptt!LetGo \/ Ptt!Focus
    BY <1>2, KeyboardInv DEF Ptt!KeysUnderFinger
  <1>3. CASE Ptt!UiFrame
    BY <1>3, FrameInv DEF Ptt!KeysUnderFinger
  <1>4. CASE \/ Ptt!KeyerStops \/ Ptt!KeyerClears \/ Ptt!TextDown \/ Ptt!TextUp
             \/ Ptt!TextEnds
    BY <1>4, ThreadsInv DEF Ptt!KeysUnderFinger
  <1>5. CASE \E c \in Ptt!Programs :
               \/ Ptt!Opens(c) \/ Ptt!SetPtt(c) \/ Ptt!Route(c) \/ Ptt!Send(c)
               \/ Ptt!RigctlEnds(c) \/ Ptt!TciEnds(c)
    BY <1>5, ProgramInv DEF Ptt!KeysUnderFinger
  <1>6. CASE Ptt!Acquire \/ Ptt!Release \/ Ptt!ChangeMode
    BY <1>6, PttRadioInv DEF Ptt!KeysUnderFinger
  <1>7. QED
    BY <1>1, <1>2, <1>3, <1>4, <1>5, <1>6 DEF Ptt!Next

\* Whoever the last key message is of wants it still.
LEMMA OwnersWantIt == PttInv => Ptt!KeyedByOwner
  BY DEF PttInv, OwnersKey, ProgramKeys, SomeUnkeying, Ptt!KeyedByOwner

(***************************************************************************)
(* What is stored for an operator.                                         *)
(***************************************************************************)

\* A bundle holds what operator o chose, or the stock values.
OwnBundle(o, b) == b # None => {b.prefs, b.smooth} \subseteq {o, None}

\* What the client shows and keeps is of the operator it runs for, whose file is not of
\* a newer build: it was loaded.
ShownIsOwn ==
    /\ {storeUi.prefs, storeUi.smooth} \subseteq {storeUi.op, None}
    /\ \A r \in Radios : mirror[r] # None =>
         {mirror[r].prefs, mirror[r].smooth} \subseteq {storeUi.op, None}
    /\ storeUi.op # None => file[storeUi.op].kind # "newer"

\* No operator, radio or bundle is None.
LEMMA StoreApart ==
    None \notin Operators /\ None \notin Radios /\ None \notin Store!Bundles
  BY PanelsAssumption DEF PanelsAssumption, Store!StoreAssumption

\* A settings file with everything in it.
Files == [kind : Store!Kinds, prefs : Store!Values, smooth : Store!Values,
          radios : [Radios -> Store!Bundles \union {None}]]

\* A file that holds what operator o chose.
OwnFile(o, f) == /\ f \in Files
                 /\ {f.prefs, f.smooth} \subseteq {o, None}
                 /\ \A r \in Radios : OwnBundle(o, f.radios[r])

\* Loading, migrating and rewriting a file of o gives a file of o; one of a newer build
\* is left as it is, and what was loaded is not of a newer build.
LEMMA FileFacts ==
    ASSUME NEW o \in Operators, NEW f, OwnFile(o, f), diskOk \in BOOLEAN
    PROVE  /\ OwnFile(o, Store!Loaded(f)) /\ OwnFile(o, Store!AfterLoad(f))
           /\ OwnFile(o, Store!NoFile)
           /\ \A g : OwnFile(o, g) => OwnFile(o, Store!Rewritten(f, g))
           /\ f.kind = "newer" => /\ ~Store!Loads(f) /\ Store!AfterLoad(f) = f
                                  /\ \A g : Store!Rewritten(f, g) = f
           /\ Store!Loads(f) => /\ Store!Loaded(f).kind # "newer"
                                /\ Store!AfterLoad(f).kind # "newer"
           /\ f.kind # "newer" =>
                /\ Store!Loaded(f).kind = "current" /\ Store!AfterLoad(f).kind # "newer"
                /\ \A g : g.kind = "current" => Store!Rewritten(f, g).kind # "newer"
  <1> USE DEF OwnFile, OwnBundle, Files, Store!Kinds, Store!Values
  <1>1. OwnFile(o, Store!Fresh) /\ OwnFile(o, Store!NoFile)
        /\ Store!Fresh.kind = "current" /\ Store!NoFile.kind = "missing"
    BY DEF Store!Fresh, Store!NoFile, Store!NoBundles
  <1>2. /\ OwnFile(o, Store!Migrate(f))
        /\ f.kind = "old" => Store!Migrate(f).kind = "current"
        /\ f.kind # "old" => Store!Migrate(f).kind = f.kind
    BY DEF Store!Migrate
  <1> HIDE DEF OwnFile, OwnBundle
  <1>3. f.kind \in {"missing", "corrupt", "old", "current", "newer"}
    BY DEF OwnFile
  <1>4. /\ OwnFile(o, Store!Loaded(f))
        /\ f.kind # "newer" => Store!Loaded(f).kind = "current"
    BY <1>1, <1>2, <1>3 DEF Store!Loaded, Store!Resettable
  <1>5. /\ OwnFile(o, Store!AfterLoad(f))
        /\ f.kind # "newer" => Store!AfterLoad(f).kind # "newer"
    BY <1>1, <1>3, <1>4 DEF Store!AfterLoad
  <1>6. f.kind = "newer" => ~Store!Loads(f) /\ Store!AfterLoad(f) = f
    BY <1>2 DEF Store!Loads, Store!Readable, Store!Resettable, Store!AfterLoad
  <1>7. /\ \A g : OwnFile(o, g) => OwnFile(o, Store!Rewritten(f, g))
        /\ f.kind = "newer" => \A g : Store!Rewritten(f, g) = f
        /\ f.kind # "newer" =>
             \A g : g.kind = "current" => Store!Rewritten(f, g).kind # "newer"
    BY <1>5, <1>6 DEF Store!Rewritten
  <1>8. QED
    BY <1>1, <1>4, <1>5, <1>6, <1>7

\* The files are typed, and each is its operator's own.
FilesOK == file \in [Operators -> Files] /\ Store!OwnPreferences

\* What the disk, the app state and the session hold beside them.
SessionOK ==
    /\ app \in [ok : BOOLEAN, known : SUBSET Operators, last : Store!Values]
    /\ diskOk \in BOOLEAN /\ due \in BOOLEAN /\ (due => acquired # None)
    /\ acquired \in Radios \union {None} /\ selected \in Radios \union {None}

\* UiState and its copy of the radios' settings.
ShownOK ==
    /\ storeUi \in [up : BOOLEAN, op : Store!Values, prefs : Store!Values,
                    smooth : Store!Values]
    /\ mirror \in [Radios -> Store!Bundles \union {None}]

StoreInv == FilesOK /\ SessionOK /\ ShownOK /\ ShownIsOwn

\* Which says of every variable that it has its type.
LEMMA StoreTypes == StoreInv => Store!TypeOK /\ Store!OwnPreferences
  BY DEF StoreInv, Store!TypeOK, FilesOK, SessionOK, ShownOK, Files

\* Files that are their operators' own make the part about them.
LEMMA FilesOwn ==
    /\ FilesOK => \A o \in Operators : OwnFile(o, file[o])
    /\ file' \in [Operators -> Files] /\ (\A o \in Operators : OwnFile(o, file'[o]))
         => FilesOK'
  BY DEF FilesOK, Store!OwnPreferences, OwnFile, OwnBundle

\* Rewriting the file of one operator with a file of the same leaves the others alone.
LEMMA OneFileWritten ==
    ASSUME FilesOK, NEW o \in Operators, NEW g, OwnFile(o, g),
           file[o].kind = "newer" => g = file[o], file' = [file EXCEPT ![o] = g]
    PROVE  /\ FilesOK' /\ file'[o] = g /\ Store!KeepsNewer
           /\ \A p \in Operators \ {o} : file'[p] = file[p]
  <1>1. file \in [Operators -> Files] /\ g \in Files
    BY DEF FilesOK, OwnFile
  <1>2. file' \in [Operators -> Files] /\ file'[o] = g
        /\ \A p \in Operators \ {o} : file'[p] = file[p]
    BY <1>1
  <1>3. \A p \in Operators : OwnFile(p, file'[p])
    BY <1>2, FilesOwn
  <1>4. Store!KeepsNewer
    BY <1>2 DEF Store!KeepsNewer
  <1>5. QED
    BY <1>2, <1>3, <1>4, FilesOwn

\* The client takes over what was loaded for o.
LEMMA ApplyFacts ==
    ASSUME StoreInv, NEW o \in Operators, NEW f, OwnFile(o, f), Store!Apply(o, f)
    PROVE  /\ ShownOK' /\ storeUi'.op = o /\ {storeUi'.prefs, storeUi'.smooth} \subseteq {o, None}
           /\ \A r \in Radios : mirror'[r] # None =>
                {mirror'[r].prefs, mirror'[r].smooth} \subseteq {o, None}
  BY DEF StoreInv, Store!Apply, OwnFile, OwnBundle, Files, Store!Values, ShownOK

\* Whose file is then not of a newer build.
LEMMA TakesOver ==
    ASSUME StoreInv, NEW o \in Operators, Store!Loads(file[o]),
           Store!Apply(o, Store!Loaded(file[o])),
           FilesOK', SessionOK', file'[o].kind # "newer"
    PROVE  StoreInv'
  <1>1. OwnFile(o, Store!Loaded(file[o]))
    BY FilesOwn, FileFacts DEF StoreInv, SessionOK
  <1>2. ShownOK' /\ ShownIsOwn'
    BY <1>1, ApplyFacts DEF ShownIsOwn
  <1>3. QED
    BY <1>2 DEF StoreInv

\* The client shows nobody's settings.
LEMMA ShowsNone ==
    ASSUME Store!Reset \/ (storeUi' = Store!NotRunning /\ mirror' = Store!NoBundles),
           FilesOK', SessionOK'
    PROVE  StoreInv'
  <1>1. /\ storeUi' \in [up : BOOLEAN, op : {None}, prefs : {None}, smooth : {None}]
        /\ mirror' = [r \in Radios |-> None]
    <2>1. Store!NotRunning \in [up : BOOLEAN, op : {None}, prefs : {None}, smooth : {None}]
      BY DEF Store!NotRunning
    <2>2. [Store!NotRunning EXCEPT !.up = TRUE]
            \in [up : BOOLEAN, op : {None}, prefs : {None}, smooth : {None}]
      BY <2>1
    <2>3. QED
      BY <2>1, <2>2 DEF Store!Reset, Store!NoBundles
  <1>2. ShownOK'
    BY <1>1 DEF ShownOK, Store!Values
  <1>3. ShownIsOwn'
    BY <1>1 DEF ShownIsOwn
  <1>4. QED
    BY <1>2, <1>3 DEF StoreInv

\* The client goes on for the operator it runs for.
LEMMA GoesOn ==
    ASSUME StoreInv, FilesOK', SessionOK', ShownOK', storeUi'.op = storeUi.op,
           {storeUi'.prefs, storeUi'.smooth} \subseteq {storeUi.op, None},
           \A r \in Radios : mirror'[r] # None =>
               {mirror'[r].prefs, mirror'[r].smooth} \subseteq {storeUi.op, None},
           storeUi.op # None => file'[storeUi.op].kind # "newer"
    PROVE  StoreInv'
  <1>1. ShownIsOwn'
    BY DEF ShownIsOwn
  <1>2. QED
    BY <1>1 DEF StoreInv

\* What the app state becomes is an app state.
LEMMA AppFacts ==
    ASSUME SessionOK
    PROVE  /\ Store!AppLoaded \in [ok : BOOLEAN, known : SUBSET Operators,
                                   last : Store!Values]
           /\ \A a : /\ a \in [ok : BOOLEAN, known : SUBSET Operators, last : Store!Values]
                     /\ Store!WriteApp(a)
                     => app' \in [ok : BOOLEAN, known : SUBSET Operators,
                                  last : Store!Values]
  BY DEF SessionOK, Store!AppLoaded, Store!NoApp, Store!Values, Store!WriteApp

\* A fresh start finds files without preferences.
LEMMA StoreInitInv == Store!Init => StoreInv
  <1> SUFFICES ASSUME Store!Init PROVE StoreInv
    OBVIOUS
  <1>1. FilesOK
    BY DEF Store!Init, FilesOK, Files, Store!OwnPreferences, Store!NoBundles, Store!Values
  <1>2. SessionOK
    <2>1. app \in [ok : BOOLEAN, known : SUBSET Operators, last : Store!Values]
      <3>1. Store!NoApp \in [ok : BOOLEAN, known : SUBSET Operators, last : Store!Values]
        BY DEF Store!NoApp, Store!Values
      <3>2. [Store!NoApp EXCEPT !.ok = FALSE]
              \in [ok : BOOLEAN, known : SUBSET Operators, last : Store!Values]
        BY <3>1
      <3>3. QED
        BY <3>1, <3>2 DEF Store!Init
    <2>2. QED
      BY <2>1 DEF Store!Init, SessionOK
  <1>3. ShownOK /\ ShownIsOwn
    BY DEF Store!Init, ShownOK, ShownIsOwn, Store!NotRunning, Store!NoBundles, Store!Values
  <1>4. QED
    BY <1>1, <1>2, <1>3 DEF StoreInv

\* Loading the settings of o, and the file that leaves.
LEMMA LoadFacts ==
    ASSUME StoreInv, NEW o \in Operators, Store!Loads(file[o]),
           NEW g \in {Store!AfterLoad(file[o]), Store!Loaded(file[o])}
    PROVE  OwnFile(o, g) /\ g.kind # "newer" /\ file[o].kind # "newer"
  BY FilesOwn, FileFacts DEF StoreInv, SessionOK

\* The client starts for the last operator, or for none.
LEMMA StartInv ==
    ASSUME StoreInv, Store!Start
    PROVE  StoreInv' /\ Store!KeepsNewer
  <1> DEFINE o == Store!AppLoaded.last
  <1>1. FilesOK /\ SessionOK
    BY DEF StoreInv
  <1>2. SessionOK' /\ (o = None \/ o \in Operators)
    BY <1>1, AppFacts DEF Store!Start, Store!Values, Store!session, SessionOK
  <1>3. CASE o = None
    <2>1. file' = file /\ Store!Reset
      BY <1>3 DEF Store!Start
    <2>2. FilesOK' /\ Store!KeepsNewer
      BY <1>1, <2>1 DEF FilesOK, Store!OwnPreferences, Store!KeepsNewer
    <2>3. QED
      BY <1>2, <2>1, <2>2, ShowsNone
  <1>4. CASE o \in Operators
    <2>1. Store!Loads(file[o]) /\ file' = [file EXCEPT ![o] = Store!AfterLoad(file[o])]
          /\ Store!Apply(o, Store!Loaded(file[o]))
      BY <1>4, StoreApart DEF Store!Start
    <2> HIDE DEF o
    <2>2. FilesOK' /\ file'[o] = Store!AfterLoad(file[o]) /\ Store!KeepsNewer
      BY <1>1, <1>4, <2>1, LoadFacts, OneFileWritten
    <2>3. QED
      BY <1>2, <1>4, <2>1, <2>2, LoadFacts, TakesOver
  <1>5. QED
    BY <1>2, <1>3, <1>4

\* It ends, or the disk changes its mind.
LEMMA QuitInv ==
    ASSUME StoreInv, Store!Quit \/ Store!DiskChanges
    PROVE  StoreInv' /\ Store!KeepsNewer
  <1>1. FilesOK /\ SessionOK /\ ShownOK /\ ShownIsOwn
    BY DEF StoreInv
  <1>2. file' = file /\ app' = app
    BY DEF Store!Quit, Store!DiskChanges, Store!disk
  <1>3. FilesOK' /\ Store!KeepsNewer
    BY <1>1, <1>2 DEF FilesOK, Store!OwnPreferences, Store!KeepsNewer
  <1>4. SessionOK'
    <2>1. CASE Store!Quit
      BY <1>1, <1>2, <2>1 DEF SessionOK, Store!Quit
    <2>2. CASE Store!DiskChanges
      <3>1. diskOk' \in BOOLEAN /\ UNCHANGED <<acquired, selected, due>>
        BY <1>1, <2>2 DEF SessionOK, Store!DiskChanges, Store!session
      <3>2. QED
        BY <1>1, <1>2, <3>1 DEF SessionOK
    <2>3. QED
      BY <2>1, <2>2
  <1>5. CASE Store!Quit
    BY <1>3, <1>4, <1>5, ShowsNone DEF Store!Quit
  <1>6. CASE Store!DiskChanges
    <2>1. ShownOK' /\ ShownIsOwn'
      BY <1>1, <1>2, <1>6 DEF ShownOK, ShownIsOwn, Store!DiskChanges
    <2>2. QED
      BY <1>3, <1>4, <2>1 DEF StoreInv
  <1>7. QED
    BY <1>3, <1>5, <1>6

\* Another operator is chosen, or one is added, also if the program ends on the way.
LEMMA OperatorInv ==
    ASSUME StoreInv, NEW o \in Operators,
           Store!SwitchOperator(o) \/ Store!AddOperator(o) \/ Store!AddOperatorCut(o)
    PROVE  StoreInv' /\ Store!KeepsNewer
  <1>1. FilesOK /\ SessionOK
    BY DEF StoreInv
  <1>2. PICK g \in {Store!AfterLoad(file[o]), Store!Loaded(file[o])} :
          file' = [file EXCEPT ![o] = g]
    BY DEF Store!SwitchOperator, Store!AddOperator, Store!AddOperatorCut
  <1>3. Store!Loads(file[o])
    BY DEF Store!SwitchOperator, Store!AddOperator, Store!AddOperatorCut
  <1>4. FilesOK' /\ file'[o].kind # "newer" /\ Store!KeepsNewer
    BY <1>1, <1>2, <1>3, LoadFacts, OneFileWritten
  <1>5. Store!AppLoaded \in [ok : BOOLEAN, known : SUBSET Operators, last : Store!Values]
    BY <1>1, AppFacts
  <1>6. CASE Store!SwitchOperator(o)
    <2>1. [Store!AppLoaded EXCEPT !.last = o]
            \in [ok : BOOLEAN, known : SUBSET Operators, last : Store!Values]
      BY <1>5 DEF Store!Values
    <2>2. app' \in [ok : BOOLEAN, known : SUBSET Operators, last : Store!Values]
      BY <1>1, <1>6, <2>1, AppFacts DEF Store!SwitchOperator
    <2>3. SessionOK'
      BY <1>1, <1>6, <2>2 DEF Store!SwitchOperator, SessionOK, Store!session
    <2>4. QED
      BY <1>3, <1>4, <1>6, <2>3, TakesOver DEF Store!SwitchOperator
  <1>7. CASE Store!AddOperator(o)
    <2>1. app' \in [ok : BOOLEAN, known : SUBSET Operators, last : Store!Values]
      BY <1>5, <1>7 DEF Store!AddOperator, Store!Values
    <2>2. due' \in BOOLEAN /\ (due' => acquired # None)
      BY <1>1, <1>7 DEF Store!AddOperator, Store!Noticed, SessionOK
    <2>3. SessionOK'
      BY <1>1, <1>7, <2>1, <2>2 DEF Store!AddOperator, SessionOK
    <2>4. QED
      BY <1>3, <1>4, <1>7, <2>3, TakesOver DEF Store!AddOperator
  <1>8. CASE Store!AddOperatorCut(o)
    <2>1. SessionOK'
      BY <1>1, <1>8 DEF Store!AddOperatorCut, SessionOK
    <2>2. QED
      BY <1>4, <1>8, <2>1, ShowsNone DEF Store!AddOperatorCut
  <1>9. QED
    BY <1>6, <1>7, <1>8

\* The operator the client runs for is deleted, and another may take over: the deleted
\* file was one this build had read.
LEMMA DeleteInv ==
    ASSUME StoreInv, NEW o \in Operators, Store!DeleteOperator(o)
    PROVE  StoreInv' /\ Store!KeepsNewer
  <1>1. FilesOK /\ SessionOK /\ ShownOK /\ ShownIsOwn
    BY DEF StoreInv
  <1> DEFINE rest == Store!AppLoaded.known \ {o}
             gone == [file EXCEPT ![o] = Store!NoFile]
  <1>2. PICK heir \in IF rest = {} THEN {None} ELSE rest :
          /\ Store!WriteApp([Store!AppLoaded EXCEPT !.known = rest, !.last = heir])
          /\ IF ~diskOk \/ (heir # None /\ ~Store!Loads(file[heir]))
             THEN file' = gone /\ UNCHANGED <<storeUi, mirror, Store!session>>
             ELSE IF heir = None
             THEN file' = gone /\ Store!Reset /\ acquired' = None /\ selected' = None
                  /\ due' = FALSE
             ELSE file' = [gone EXCEPT ![heir] = Store!AfterLoad(@)]
                  /\ Store!Apply(heir, Store!Loaded(file[heir])) /\ Store!Noticed
                  /\ UNCHANGED <<acquired, selected>>
    BY Zenon DEF Store!DeleteOperator
  <1>3. storeUi.op = o /\ o # None /\ diskOk' = diskOk /\ file[o].kind # "newer"
    BY <1>1 DEF Store!DeleteOperator, ShownIsOwn
  <1>4. Store!AppLoaded \in [ok : BOOLEAN, known : SUBSET Operators, last : Store!Values]
    BY <1>1, AppFacts
  <1>5. heir = None \/ heir \in Operators \ {o}
    BY <1>4
  <1>6. app' \in [ok : BOOLEAN, known : SUBSET Operators, last : Store!Values]
    <2>1. [Store!AppLoaded EXCEPT !.known = rest, !.last = heir]
            \in [ok : BOOLEAN, known : SUBSET Operators, last : Store!Values]
      BY <1>4, <1>5 DEF Store!Values
    <2> HIDE DEF rest
    <2>2. QED
      BY <1>1, <1>2, <2>1, AppFacts
  <1>7. OwnFile(o, Store!NoFile) /\ Store!NoFile.kind = "missing"
    BY <1>1, FilesOwn, FileFacts DEF Store!NoFile, SessionOK
  <1>8. file \in [Operators -> Files] /\ gone \in [Operators -> Files]
        /\ gone[o] = Store!NoFile /\ \A p \in Operators \ {o} : gone[p] = file[p]
    BY <1>1, <1>7 DEF FilesOK, OwnFile
  <1> HIDE DEF rest
  <1>9. ASSUME file' = gone
        PROVE  FilesOK' /\ file'[o].kind # "newer" /\ Store!KeepsNewer
    BY <1>1, <1>3, <1>7, <1>9, OneFileWritten
  <1>10. CASE ~diskOk \/ (heir # None /\ ~Store!Loads(file[heir]))
    <2>1. file' = gone /\ UNCHANGED <<storeUi, mirror, Store!session>>
      BY <1>2, <1>10
    <2>2. SessionOK' /\ ShownOK'
      BY <1>1, <1>3, <1>6, <2>1 DEF SessionOK, ShownOK, Store!session
    <2>3. QED
      BY <1>1, <1>3, <1>9, <2>1, <2>2, GoesOn DEF ShownIsOwn
  <1>11. CASE diskOk /\ heir = None
    <2>1. file' = gone /\ Store!Reset /\ acquired' = None /\ selected' = None /\ due' = FALSE
      BY <1>2, <1>11
    <2>2. SessionOK'
      BY <1>1, <1>3, <1>6, <2>1 DEF SessionOK
    <2>3. QED
      BY <1>9, <2>1, <2>2, ShowsNone
  <1>12. CASE diskOk /\ heir \in Operators \ {o} /\ Store!Loads(file[heir])
    <2>1. file' = [gone EXCEPT ![heir] = Store!AfterLoad(@)]
          /\ Store!Apply(heir, Store!Loaded(file[heir])) /\ Store!Noticed
          /\ UNCHANGED <<acquired, selected>>
      BY <1>2, <1>12, StoreApart
    <2>2. SessionOK'
      BY <1>1, <1>3, <1>6, <2>1 DEF SessionOK, Store!Noticed
    <2>3. OwnFile(heir, Store!AfterLoad(file[heir]))
          /\ Store!AfterLoad(file[heir]).kind # "newer" /\ file[heir].kind # "newer"
      BY <1>12, LoadFacts
    <2>4. file' \in [Operators -> Files] /\ file'[heir] = Store!AfterLoad(file[heir])
          /\ file'[o] = Store!NoFile
          /\ \A p \in Operators \ {o, heir} : file'[p] = file[p]
      BY <1>8, <1>12, <2>1, <2>3 DEF OwnFile
    <2> HIDE DEF gone
    <2>5. FilesOK' /\ Store!KeepsNewer
      <3>1. \A p \in Operators : OwnFile(p, file'[p])
        BY <1>1, <1>7, <2>3, <2>4, FilesOwn
      <3>2. Store!KeepsNewer
        BY <1>3, <2>3, <2>4 DEF Store!KeepsNewer
      <3>3. QED
        BY <2>4, <3>1, <3>2, FilesOwn
    <2>6. QED
      BY <1>12, <2>1, <2>2, <2>3, <2>4, <2>5, TakesOver
  <1>13. QED
    BY <1>5, <1>10, <1>11, <1>12

\* The bundle of what is shown is the operator's.
LEMMA BundleFacts ==
    ASSUME ShownOK, ShownIsOwn
    PROVE  /\ Store!Bundle \in Store!Bundles
           /\ {Store!Bundle.prefs, Store!Bundle.smooth} \subseteq {storeUi.op, None}
  BY DEF ShownOK, ShownIsOwn, Store!Bundle, Store!Bundles

\* A save for the operator the client runs for rewrites that file with what is the
\* operator's own.
LEMMA SavedOwn ==
    ASSUME StoreInv, storeUi.op # None, NEW g, OwnFile(storeUi.op, g), g.kind = "current",
           file' = [file EXCEPT ![storeUi.op] = Store!Rewritten(file[storeUi.op], g)]
    PROVE  FilesOK' /\ file'[storeUi.op].kind # "newer" /\ Store!KeepsNewer
  <1>1. FilesOK /\ SessionOK /\ ShownOK /\ ShownIsOwn
    BY DEF StoreInv
  <1> DEFINE o == storeUi.op
  <1>2. o \in Operators /\ file[o].kind # "newer"
    BY <1>1 DEF ShownOK, ShownIsOwn, Store!Values
  <1> HIDE DEF o
  <1>3. OwnFile(o, Store!Rewritten(file[o], g)) /\ Store!Rewritten(file[o], g).kind # "newer"
    BY <1>1, <1>2, FilesOwn, FileFacts DEF SessionOK, o
  <1>4. FilesOK' /\ file'[o] = Store!Rewritten(file[o], g) /\ Store!KeepsNewer
    BY <1>1, <1>2, <1>3, OneFileWritten DEF o
  <1>5. QED
    BY <1>3, <1>4 DEF o

\* The operator's file as it is loaded, to be changed and saved.
LEMMA LoadedOwn ==
    ASSUME StoreInv, storeUi.op # None
    PROVE  /\ storeUi.op \in Operators
           /\ OwnFile(storeUi.op, Store!Loaded(file[storeUi.op]))
           /\ Store!Loaded(file[storeUi.op]).kind = "current"
  <1>1. FilesOK /\ SessionOK /\ ShownOK /\ ShownIsOwn
    BY DEF StoreInv
  <1> DEFINE o == storeUi.op
  <1>2. o \in Operators /\ file[o].kind # "newer"
    BY <1>1 DEF ShownOK, ShownIsOwn, Store!Values
  <1> HIDE DEF o
  <1>3. OwnFile(o, Store!Loaded(file[o])) /\ Store!Loaded(file[o]).kind = "current"
    BY <1>1, <1>2, FilesOwn, FileFacts DEF SessionOK
  <1>4. QED
    BY <1>2, <1>3 DEF o

\* An edit that is saved at once.
LEMMA EditPrefsInv ==
    ASSUME StoreInv, Store!EditPrefs
    PROVE  StoreInv' /\ Store!KeepsNewer
  <1>1. FilesOK /\ SessionOK /\ ShownOK /\ ShownIsOwn
    BY DEF StoreInv
  <1>2. PICK s \in {storeUi.smooth, storeUi.op} :
          /\ storeUi' = [storeUi EXCEPT !.prefs = storeUi.op, !.smooth = s]
          /\ file' = [file EXCEPT ![storeUi.op] =
                        Store!Rewritten(@, [Store!Loaded(@) EXCEPT
                                              !.prefs = storeUi.op, !.smooth = s])]
    BY DEF Store!EditPrefs
  <1> DEFINE g == [Store!Loaded(file[storeUi.op]) EXCEPT !.prefs = storeUi.op, !.smooth = s]
  <1>3. storeUi.op # None /\ UNCHANGED <<app, diskOk, mirror, acquired, selected>>
        /\ Store!Noticed
    BY DEF Store!EditPrefs
  <1>4. s \in {storeUi.op, None} /\ s \in Store!Values /\ storeUi.op \in Store!Values
    BY <1>1 DEF ShownOK, ShownIsOwn
  <1>5. OwnFile(storeUi.op, g) /\ g.kind = "current"
    BY <1>3, <1>4, LoadedOwn DEF OwnFile, OwnBundle, Files
  <1>6. file' = [file EXCEPT ![storeUi.op] = Store!Rewritten(file[storeUi.op], g)]
    BY <1>1, <1>2, <1>3, LoadedOwn DEF FilesOK
  <1> HIDE DEF g
  <1>7. FilesOK' /\ file'[storeUi.op].kind # "newer" /\ Store!KeepsNewer
    BY <1>3, <1>5, <1>6, SavedOwn
  <1>8. SessionOK'
    BY <1>1, <1>3 DEF SessionOK, Store!Noticed
  <1>9. ShownOK' /\ storeUi'.op = storeUi.op
        /\ {storeUi'.prefs, storeUi'.smooth} \subseteq {storeUi.op, None}
    BY <1>1, <1>2, <1>3, <1>4 DEF ShownOK
  <1>10. QED
    BY <1>1, <1>3, <1>7, <1>8, <1>9, GoesOn DEF ShownIsOwn

\* An edit that is left to the autosave; a radio acquired, selected or released.
LEMMA UnsavedInv ==
    ASSUME StoreInv, \/ Store!ApplyBookmark \/ Store!Release
                     \/ \E r \in Radios : Store!Acquire(r) \/ Store!Select(r)
    PROVE  StoreInv' /\ Store!KeepsNewer
  <1>1. FilesOK /\ SessionOK /\ ShownOK /\ ShownIsOwn
    BY DEF StoreInv
  <1>2. UNCHANGED <<file, app, diskOk, mirror>>
    BY DEF Store!ApplyBookmark, Store!Release, Store!Acquire, Store!Select, Store!disk
  <1>3. FilesOK' /\ Store!KeepsNewer
    BY <1>1, <1>2 DEF FilesOK, Store!OwnPreferences, Store!KeepsNewer
  <1>4. SessionOK'
    <2>1. /\ acquired' \in Radios \union {None} /\ selected' \in Radios \union {None}
          /\ due' \in BOOLEAN /\ (due' => acquired' # None)
      <3>1. CASE Store!ApplyBookmark
        BY <1>1, <3>1 DEF SessionOK, Store!ApplyBookmark, Store!Noticed
      <3>2. CASE Store!Release
        BY <1>1, <3>2 DEF SessionOK, Store!Release
      <3>3. ASSUME NEW r \in Radios, Store!Acquire(r) \/ Store!Select(r)
            PROVE  /\ acquired' \in Radios \union {None} /\ selected' \in Radios \union {None}
                   /\ due' \in BOOLEAN /\ (due' => acquired' # None)
        <4>1. CASE Store!Acquire(r)
          <5>1. acquired' = r /\ selected' = r /\ due' = TRUE /\ r # None
            BY <4>1, StoreApart DEF Store!Acquire
          <5>2. QED
            BY <5>1
        <4>2. CASE Store!Select(r)
          BY <1>1, <4>2 DEF SessionOK, Store!Select
        <4>3. QED
          BY <3>3, <4>1, <4>2
      <3>4. QED
        BY <3>1, <3>2, <3>3
    <2>2. QED
      BY <1>1, <1>2, <2>1 DEF SessionOK
  <1>5. /\ ShownOK' /\ storeUi'.op = storeUi.op
        /\ {storeUi'.prefs, storeUi'.smooth} \subseteq {storeUi.op, None}
    <2>1. CASE Store!ApplyBookmark
      BY <1>1, <1>2, <2>1 DEF ShownOK, ShownIsOwn, Store!ApplyBookmark
    <2>2. CASE storeUi' = storeUi
      BY <1>1, <1>2, <2>2 DEF ShownOK, ShownIsOwn
    <2>3. ASSUME NEW r \in Radios, Store!Acquire(r), mirror[r] # None
          PROVE  /\ ShownOK' /\ storeUi'.op = storeUi.op
                 /\ {storeUi'.prefs, storeUi'.smooth} \subseteq {storeUi.op, None}
      <3>1. mirror[r] \in Store!Bundles
            /\ {mirror[r].prefs, mirror[r].smooth} \subseteq {storeUi.op, None}
        BY <1>1, <2>3 DEF ShownOK, ShownIsOwn
      <3>2. storeUi' = [storeUi EXCEPT !.prefs = mirror[r].prefs]
            /\ mirror[r].prefs \in Store!Values
        BY <2>3, <3>1 DEF Store!Acquire, Store!Bundles
      <3>3. QED
        BY <1>1, <1>2, <3>1, <3>2 DEF ShownOK, ShownIsOwn
    <2>4. QED
      BY <2>1, <2>2, <2>3 DEF Store!Release, Store!Acquire, Store!Select
  <1>6. QED
    BY <1>1, <1>2, <1>3, <1>4, <1>5, GoesOn DEF ShownIsOwn

\* The autosave files the bundle of what is shown, first in memory.
LEMMA AutosaveInv ==
    ASSUME StoreInv, Store!Autosave
    PROVE  StoreInv' /\ Store!KeepsNewer
  <1>1. FilesOK /\ SessionOK /\ ShownOK /\ ShownIsOwn
    BY DEF StoreInv
  <1>2. UNCHANGED <<app, diskOk, storeUi, acquired, selected>> /\ due' = FALSE
    BY DEF Store!Autosave
  <1>3. SessionOK'
    BY <1>1, <1>2 DEF SessionOK
  <1>4. CASE UNCHANGED <<file, mirror>>
    <2>1. FilesOK' /\ Store!KeepsNewer /\ ShownOK' /\ ShownIsOwn'
      BY <1>1, <1>2, <1>4 DEF FilesOK, Store!OwnPreferences, Store!KeepsNewer, ShownOK,
         ShownIsOwn
    <2>2. QED
      BY <1>3, <2>1 DEF StoreInv
  <1>5. CASE selected # None /\ storeUi.op # None /\ mirror[selected] # Store!Bundle
    <2> DEFINE b == Store!Bundle
               g == [Store!Loaded(file[storeUi.op]) EXCEPT !.radios[selected] = b]
    <2>1. selected \in Radios /\ b \in Store!Bundles
          /\ {b.prefs, b.smooth} \subseteq {storeUi.op, None}
      BY <1>1, <1>5, BundleFacts DEF SessionOK
    <2>2. mirror' = [mirror EXCEPT ![selected] = b]
          /\ file' = [file EXCEPT ![storeUi.op] = Store!Rewritten(@,
                        [Store!Loaded(@) EXCEPT !.radios[selected] = b])]
      BY <1>5 DEF Store!Autosave
    <2> HIDE DEF b
    <2>3. OwnFile(storeUi.op, g) /\ g.kind = "current"
      BY <1>5, <2>1, LoadedOwn DEF OwnFile, OwnBundle, Files
    <2>4. file' = [file EXCEPT ![storeUi.op] = Store!Rewritten(file[storeUi.op], g)]
      BY <1>1, <1>5, <2>2, LoadedOwn DEF FilesOK
    <2> HIDE DEF g
    <2>5. FilesOK' /\ file'[storeUi.op].kind # "newer" /\ Store!KeepsNewer
      BY <1>5, <2>3, <2>4, SavedOwn
    <2>6. ShownOK' /\ \A r \in Radios : mirror'[r] # None =>
            {mirror'[r].prefs, mirror'[r].smooth} \subseteq {storeUi.op, None}
      BY <1>1, <1>2, <2>1, <2>2 DEF ShownOK, ShownIsOwn
    <2>7. QED
      BY <1>1, <1>2, <1>3, <2>5, <2>6, GoesOn DEF ShownIsOwn
  <1>6. QED
    BY <1>4, <1>5 DEF Store!Autosave

\* The whole of what is shown, and the copies of the radios' settings.
LEMMA SaveAllInv ==
    ASSUME StoreInv, Store!SaveAll
    PROVE  StoreInv' /\ Store!KeepsNewer
  <1>1. FilesOK /\ SessionOK /\ ShownOK /\ ShownIsOwn
    BY DEF StoreInv
  <1> DEFINE g == [Store!Loaded(file[storeUi.op]) EXCEPT
                     !.prefs = storeUi.prefs, !.radios = mirror]
  <1>2. storeUi.op # None /\ UNCHANGED <<app, diskOk, storeUi, mirror, Store!session>>
        /\ file' = [file EXCEPT ![storeUi.op] = Store!Rewritten(@,
                      [Store!Loaded(@) EXCEPT !.prefs = storeUi.prefs, !.radios = mirror])]
    BY DEF Store!SaveAll
  <1>3. OwnFile(storeUi.op, g) /\ g.kind = "current"
    BY <1>1, <1>2, LoadedOwn DEF OwnFile, OwnBundle, Files, ShownOK, ShownIsOwn
  <1>4. file' = [file EXCEPT ![storeUi.op] = Store!Rewritten(file[storeUi.op], g)]
    BY <1>1, <1>2, LoadedOwn DEF FilesOK
  <1> HIDE DEF g
  <1>5. FilesOK' /\ file'[storeUi.op].kind # "newer" /\ Store!KeepsNewer
    BY <1>2, <1>3, <1>4, SavedOwn
  <1>6. SessionOK' /\ ShownOK'
    BY <1>1, <1>2 DEF SessionOK, ShownOK, Store!session
  <1>7. QED
    BY <1>1, <1>2, <1>5, <1>6, GoesOn DEF ShownIsOwn

\* Every step keeps the invariant and the files of newer builds.
LEMMA StoreNextInv ==
    ASSUME StoreInv, [Store!Next]_storeVars
    PROVE  StoreInv' /\ Store!KeepsNewer
  <1>1. CASE UNCHANGED storeVars
    BY <1>1 DEF storeVars, StoreInv, FilesOK, SessionOK, ShownOK, ShownIsOwn,
       Store!OwnPreferences, Store!KeepsNewer
  <1>2. CASE Store!Next
    BY <1>2, StartInv, QuitInv, OperatorInv, DeleteInv, EditPrefsInv, UnsavedInv,
       AutosaveInv, SaveAllInv DEF Store!Next
  <1>3. QED
    BY <1>1, <1>2

(***************************************************************************)
(* The settings of the source.                                             *)
(***************************************************************************)

Fields == {"mode", "gain", "other"}

\* The commands for one setting, and those that give it the value v.
SourceTo(f) == {m \in Source!Messages : m.field = f}
SourceSets(f, v) == {m \in SourceTo(f) : m.value = v}

\* The settings the worker has once it has taken all that is under way.
Bound(goal) ==
    \A f \in Fields : Lands(sourceUp, SourceTo(f), SourceSets(f, goal[f]), control[f], goal[f])

\* What the panel shows once the echoes under way have arrived.
Shown == IF sourceDown = <<>> THEN sourceUi ELSE sourceDown[Len(sourceDown)]

\* A setting is shown as it will be, or as the forwarder last told.
ShownAsBound(goal) ==
    \A f \in Fields : \/ Shown[f] = goal[f]
                      \/ sourceFwd.last # None /\ Shown[f] = sourceFwd.last[f]

\* And saved as it will be, but for the time between an edit and its save.
SavedAsBound(goal) ==
    ~sourceHasty => IF edited THEN sourceUi = goal ELSE saved \in {None, goal}

\* The tuner has the gain that was applied.
TunerAsApplied ==
    own = applied.gain /\ (applied.mode = "manual" => tuner = {applied.gain})

\* The last echo under way is what the forwarder saw last, and that is the status unless
\* there is a fresh one.
EchoesAsSeen ==
    /\ sourceDown # <<>> => sourceFwd.last = sourceDown[Len(sourceDown)]
    /\ sourceFwd.last # None /\ ~sourceFwd.fresh => sourceFwd.last = sourceStatus

\* Until the saved settings are replayed nothing is under way.
ReplayPending ==
    /\ sourceUi = saved /\ sourceUp = <<>> /\ sourceDown = <<>> /\ ~edited
    /\ sourceStatus = control /\ sourceFwd.last \in {None, control}

\* The user, the messages and the worker are bound for the same settings.
SourceBound ==
    /\ ~on => sourceUp = <<>> /\ ~edited
    /\ on /\ replay => ReplayPending
    /\ on /\ ~replay => \E goal \in Source!Settings :
                          Bound(goal) /\ ShownAsBound(goal) /\ SavedAsBound(goal)

SourceInv == Source!TypeOK /\ TunerAsApplied /\ EchoesAsSeen /\ SourceBound

\* None is no settings and no value of one.
LEMMA SourceFacts ==
    /\ None \notin Source!Settings /\ None \notin Source!GainModes /\ None \notin Gains
    /\ None \notin Others /\ 0 \in Gains /\ 0 \in Others
  BY PanelsAssumption DEF PanelsAssumption, Source!SourceAssumption

\* Settings are known by their three fields.
LEMMA SettingsFields ==
    /\ \A s \in Source!Settings : DOMAIN s = Fields
    /\ \A s, t \in Source!Settings : (\A f \in Fields : s[f] = t[f]) => s = t
    /\ \A m \in Source!Messages : m.field \in Fields
  BY DEF Source!Settings, Source!Messages, Fields

\* Setting one field to the value of a message.
LEMMA SettingsExcept ==
    ASSUME NEW s \in Source!Settings, NEW m \in Source!Messages
    PROVE  /\ [s EXCEPT ![m.field] = m.value] \in Source!Settings
           /\ \A f \in Fields : [s EXCEPT ![m.field] = m.value][f]
                                  = IF f = m.field THEN m.value ELSE s[f]
  BY DEF Source!Settings, Source!Messages, Fields

\* What was opened is settings of the source.
LEMMA SourceInitInv == Source!Init => SourceInv
  <1> SUFFICES ASSUME Source!Init
               PROVE  SourceInv
    OBVIOUS
  <1>1. control \in Source!Settings
    BY SourceFacts DEF Source!Init, Source!Settings, Source!GainModes
  <1>2. Source!TypeOK
    <2>1. sourceFwd.last = None /\ sourceFwd.fresh = FALSE
      BY DEF Source!Init
    <2>2. sourceUp \in Seq(Source!Messages) /\ sourceDown \in Seq(Source!Settings)
      BY DEF Source!Init
    <2>3. own \in Gains /\ tuner \subseteq Gains
      BY SourceFacts DEF Source!Init, Source!Tuner
    <2>4. {control, applied, sourceStatus, sourceUi} \subseteq Source!Settings
      BY <1>1 DEF Source!Init
    <2>5. QED
      BY <2>1, <2>2, <2>3, <2>4 DEF Source!Init, Source!TypeOK
  <1>3. TunerAsApplied /\ EchoesAsSeen
    BY DEF Source!Init, TunerAsApplied, EchoesAsSeen
  <1>4. SourceBound
    BY DEF Source!Init, SourceBound
  <1>5. QED
    BY <1>2, <1>3, <1>4 DEF SourceInv

\* Every step keeps the types.
LEMMA SourceTypes ==
    ASSUME Source!TypeOK, Source!Next
    PROVE  Source!TypeOK'
  <1> USE DEF Source!TypeOK, Source!client, Source!server, Source!hardware
  <1>1. CASE Source!Acquire
    <2>1. PICK s \in Source!Opened :
            /\ control' = s /\ applied' = s /\ sourceStatus' = s
            /\ own' = s.gain /\ tuner' = Source!Tuner(s)
            /\ sourceUi' = IF saved = None THEN s ELSE saved
      BY <1>1 DEF Source!Acquire
    <2>2. s \in Source!Settings /\ s.gain \in Gains
      BY DEF Source!Opened, Source!Settings
    <2>3. tuner' \subseteq Gains
      BY <2>1, <2>2 DEF Source!Tuner
    <2>4. {control, applied, sourceStatus, sourceUi}' \subseteq Source!Settings
      BY <2>1, <2>2
    <2>5. sourceFwd'.last = None /\ sourceFwd'.fresh = FALSE
          /\ {replay, edited, on, sourceHasty}' \subseteq BOOLEAN
          /\ UNCHANGED <<saved, sourceUp, sourceDown>>
      BY <1>1 DEF Source!Acquire
    <2>6. QED
      BY <2>1, <2>2, <2>3, <2>4, <2>5
  <1>2. CASE Source!Release
    <2>1. sourceUp' \in Seq(Source!Messages)
      BY <1>2 DEF Source!Release
    <2>2. UNCHANGED <<control, sourceStatus, sourceFwd, applied, own, tuner, sourceDown,
                      sourceUi, saved, replay, edited, sourceHasty>> /\ on' = FALSE
      BY <1>2 DEF Source!Release
    <2>3. QED
      BY <2>1, <2>2
  <1>3. CASE Source!Replay
    <2>1. sourceUi \in Source!Settings
      OBVIOUS
    <2>2. Source!Replayed(sourceUi) \in Seq(Source!Messages)
      BY <2>1 DEF Source!Replayed, Source!Message, Source!Settings, Source!Messages
    <2>3. sourceUp' \in Seq(Source!Messages)
      BY <1>3, <2>2 DEF Source!Replay, Source!Forwarded
    <2>4. UNCHANGED <<control, sourceStatus, sourceFwd, applied, own, tuner, sourceDown,
                      sourceUi, saved, on, edited, sourceHasty>> /\ replay' = FALSE
      BY <1>3 DEF Source!Replay
    <2>5. QED
      BY <2>3, <2>4
  <1>4. ASSUME NEW f, NEW v, Source!Message(f, v) \in Source!Messages, Source!Edit(f, v)
        PROVE  Source!TypeOK'
    <2> DEFINE m == Source!Message(f, v)
    <2>1. m.field = f /\ m.value = v
      BY DEF Source!Message
    <2>2. sourceUi' = [sourceUi EXCEPT ![m.field] = m.value]
          /\ sourceUp' = sourceUp \o <<m>>
      BY <1>4, <2>1 DEF Source!Edit, Source!Forwarded
    <2> HIDE DEF m
    <2>3. sourceUi' \in Source!Settings
      BY <1>4, <2>2, SettingsExcept DEF m
    <2>4. sourceUp' \in Seq(Source!Messages)
      BY <1>4, <2>2 DEF m
    <2>5. UNCHANGED <<control, sourceStatus, sourceFwd, applied, own, tuner, sourceDown,
                      saved, on, replay>> /\ edited' = TRUE /\ sourceHasty' \in BOOLEAN
      BY <1>4 DEF Source!Edit
    <2>6. QED
      BY <2>3, <2>4, <2>5
  <1>5. CASE Source!EditMode \/ Source!EditGain \/ Source!EditOther
    BY <1>4, <1>5 DEF Source!EditMode, Source!EditGain, Source!EditOther, Source!Message,
                      Source!Messages
  <1>6. CASE Source!Save
    BY <1>6 DEF Source!Save
  <1>7. CASE Source!Receive
    <2>1. sourceUi' \in Source!Settings /\ sourceDown' \in Seq(Source!Settings)
      BY <1>7, HeadTailProperties DEF Source!Receive
    <2>2. UNCHANGED <<control, sourceStatus, sourceFwd, applied, own, tuner, sourceUp,
                      saved, on, edited, replay>> /\ sourceHasty' \in BOOLEAN
      BY <1>7 DEF Source!Receive
    <2>3. QED
      BY <2>1, <2>2
  <1>8. CASE Source!TakeCommand
    <2>1. sourceUp # <<>> /\ sourceUp' = Tail(sourceUp)
          /\ control' = [control EXCEPT ![Head(sourceUp).field] = Head(sourceUp).value]
      BY <1>8 DEF Source!TakeCommand
    <2>2. Head(sourceUp) \in Source!Messages /\ sourceUp' \in Seq(Source!Messages)
      BY <2>1, HeadTailProperties
    <2>3. control' \in Source!Settings
      BY <2>1, <2>2, SettingsExcept
    <2>4. UNCHANGED <<sourceStatus, sourceFwd, applied, own, tuner, sourceDown, sourceUi,
                      saved, on, edited, replay, sourceHasty>>
      BY <1>8 DEF Source!TakeCommand
    <2>5. QED
      BY <2>2, <2>3, <2>4
  <1>9. CASE Source!Capture
    <2>1. PICK ok \in SUBSET {f \in DOMAIN control : control[f] # applied[f]} \ {{}} :
            /\ applied' = [f \in DOMAIN control |->
                              IF f \in ok THEN control[f] ELSE applied[f]]
            /\ \/ "gain" \in ok /\ Source!SetGain(control.gain)
               \/ "gain" \notin ok /\ "mode" \in ok /\ Source!SetMode(control.mode)
               \/ ok = {"other"} /\ UNCHANGED <<tuner, own>>
      BY <1>9 DEF Source!Capture
    <2>2. applied' \in Source!Settings
      BY <2>1 DEF Source!Settings
    <2>3. control.gain \in Gains
      BY DEF Source!Settings
    <2>4. own' \in Gains /\ tuner' \subseteq Gains
      BY <2>1, <2>3 DEF Source!SetGain, Source!SetMode
    <2>5. UNCHANGED <<control, sourceStatus, sourceFwd, sourceUp, sourceDown, sourceUi,
                      saved, on, edited, replay, sourceHasty>>
      BY <1>9 DEF Source!Capture
    <2>6. QED
      BY <2>2, <2>4, <2>5
  <1>10. CASE Source!Publish
    <2>1. sourceFwd'.last \in Source!Settings \cup {None} /\ sourceFwd'.fresh \in BOOLEAN
      BY <1>10 DEF Source!Publish
    <2>2. QED
      BY <1>10, <2>1 DEF Source!Publish
  <1>11. CASE Source!Forward
    <2>1. sourceDown' \in Seq(Source!Settings)
      BY <1>11 DEF Source!Forward
    <2>2. sourceFwd'.last = sourceStatus /\ sourceFwd'.fresh = FALSE
      BY <1>11 DEF Source!Forward
    <2>3. QED
      BY <1>11, <2>1, <2>2 DEF Source!Forward
  <1>12. QED
    BY <1>1, <1>2, <1>3, <1>5, <1>6, <1>7, <1>8, <1>9, <1>10, <1>11 DEF Source!Next

\* The gain that was applied is the one the tuner has.
LEMMA TunerStep ==
    ASSUME Source!TypeOK, TunerAsApplied, Source!Next
    PROVE  TunerAsApplied'
  <1> USE DEF TunerAsApplied, Source!client, Source!server, Source!hardware
  <1>1. CASE Source!Acquire
    <2>1. PICK s \in Source!Opened :
            /\ applied' = s /\ own' = s.gain /\ tuner' = Source!Tuner(s)
      BY <1>1 DEF Source!Acquire
    <2>2. QED
      BY <2>1 DEF Source!Tuner
  <1>2. CASE Source!Capture
    <2>1. PICK ok \in SUBSET {f \in DOMAIN control : control[f] # applied[f]} \ {{}} :
            /\ applied' = [f \in DOMAIN control |->
                              IF f \in ok THEN control[f] ELSE applied[f]]
            /\ \/ "gain" \in ok /\ Source!SetGain(control.gain)
               \/ "gain" \notin ok /\ "mode" \in ok /\ Source!SetMode(control.mode)
               \/ ok = {"other"} /\ UNCHANGED <<tuner, own>>
      BY <1>2 DEF Source!Capture
    <2>2. applied'.gain = (IF "gain" \in ok THEN control.gain ELSE applied.gain)
          /\ applied'.mode = (IF "mode" \in ok THEN control.mode ELSE applied.mode)
      BY <2>1 DEF Source!TypeOK, Source!Settings
    <2>3. QED
      BY <2>1, <2>2 DEF Source!SetGain, Source!SetMode
  <1>3. CASE Source!Release \/ Source!Replay \/ Source!Save \/ Source!Receive
             \/ Source!TakeCommand \/ Source!Publish \/ Source!Forward
    BY <1>3 DEF Source!Release, Source!Replay, Source!Save, Source!Receive,
                Source!TakeCommand, Source!Publish, Source!Forward
  <1>4. CASE Source!EditMode \/ Source!EditGain \/ Source!EditOther
    BY <1>4 DEF Source!EditMode, Source!EditGain, Source!EditOther, Source!Edit
  <1>5. QED
    BY <1>1, <1>2, <1>3, <1>4 DEF Source!Next

\* The echoes under way are of what the forwarder saw.
LEMMA EchoesStep ==
    ASSUME Source!TypeOK, EchoesAsSeen, Source!Next
    PROVE  EchoesAsSeen'
  <1> USE DEF EchoesAsSeen, Source!client, Source!server, Source!hardware
  <1>1. CASE Source!Acquire
    BY <1>1 DEF Source!Acquire
  <1>2. CASE Source!Receive
    <2>1. Len(sourceDown) \in Nat /\ sourceDown' = Tail(sourceDown) /\ sourceDown # <<>>
          /\ UNCHANGED <<sourceFwd, sourceStatus>>
      BY <1>2 DEF Source!Receive, Source!TypeOK
    <2>2. ASSUME sourceDown' # <<>>
          PROVE  sourceDown'[Len(sourceDown')] = sourceDown[Len(sourceDown)]
      BY <2>1, <2>2 DEF Source!TypeOK
    <2>3. QED
      BY <2>1, <2>2
  <1>3. CASE Source!Publish
    BY <1>3 DEF Source!Publish, Source!TypeOK
  <1>4. CASE Source!Forward
    <2>1. sourceFwd'.last = sourceStatus /\ sourceStatus' = sourceStatus
          /\ sourceDown' = IF sourceFwd.last \in {None, sourceStatus} THEN sourceDown
                           ELSE Append(sourceDown, sourceStatus)
      BY <1>4 DEF Source!Forward
    <2>2. CASE sourceFwd.last \in {None, sourceStatus}
      <3>1. sourceDown' # <<>> => sourceFwd.last # None
        <4>1. ASSUME sourceDown # <<>>
              PROVE  sourceDown[Len(sourceDown)] \in Source!Settings
          BY <4>1 DEF Source!TypeOK
        <4>2. QED
          BY <2>1, <2>2, <4>1, SourceFacts
      <3>2. QED
        BY <2>1, <2>2, <3>1
    <2>3. CASE sourceFwd.last \notin {None, sourceStatus}
      <3>1. sourceDown' = Append(sourceDown, sourceStatus)
        BY <2>1, <2>3
      <3>2. sourceDown'[Len(sourceDown')] = sourceStatus
        BY <3>1 DEF Source!TypeOK
      <3>3. QED
        BY <2>1, <3>2
    <2>4. QED
      BY <2>2, <2>3
  <1>5. CASE Source!Release \/ Source!Replay \/ Source!Save \/ Source!TakeCommand
             \/ Source!Capture
    BY <1>5 DEF Source!Release, Source!Replay, Source!Save, Source!TakeCommand,
                Source!Capture
  <1>6. CASE Source!EditMode \/ Source!EditGain \/ Source!EditOther
    BY <1>6 DEF Source!EditMode, Source!EditGain, Source!EditOther, Source!Edit
  <1>7. QED
    BY <1>1, <1>2, <1>3, <1>4, <1>5, <1>6 DEF Source!Next

\* A new goal in one setting, for a message that was just sent.
LEMMA BoundEdited ==
    ASSUME Source!TypeOK, NEW m \in Source!Messages, NEW goal \in Source!Settings,
           Bound(goal), sourceUp' = sourceUp \o <<m>>, control' = control
    PROVE  \A f \in Fields :
             Lands(sourceUp', SourceTo(f),
                   SourceSets(f, IF f = m.field THEN m.value ELSE goal[f]), control'[f],
                   IF f = m.field THEN m.value ELSE goal[f])
  <1>1. sourceUp' = Append(sourceUp, m) /\ sourceUp \in Seq(Source!Messages)
    BY DEF Source!TypeOK
  <1> SUFFICES ASSUME NEW f \in Fields
               PROVE  Lands(Append(sourceUp, m), SourceTo(f),
                            SourceSets(f, IF f = m.field THEN m.value ELSE goal[f]),
                            control[f], IF f = m.field THEN m.value ELSE goal[f])
    BY <1>1
  <1>2. CASE f = m.field
    <2>1. m \in SourceSets(f, m.value)
      BY <1>2 DEF SourceSets, SourceTo
    <2>2. Lands(Append(sourceUp, m), SourceTo(f), SourceSets(f, m.value), control[f],
                m.value)
      BY <1>1, <2>1, LandsAppendThis
    <2>3. QED
      BY <1>2, <2>2
  <1>3. CASE f # m.field
    <2>1. m \notin SourceTo(f)
      BY <1>3 DEF SourceTo
    <2>2. Lands(sourceUp, SourceTo(f), SourceSets(f, goal[f]), control[f], goal[f])
      BY DEF Bound
    <2>3. Lands(Append(sourceUp, m), SourceTo(f), SourceSets(f, goal[f]), control[f], goal[f])
      BY <1>1, <2>1, <2>2, LandsAppendOther
    <2>4. QED
      BY <1>3, <2>3
  <1>4. QED
    BY <1>2, <1>3

\* What the panel shows follows an edit, and stays with the echoes.
LEMMA ShownIsSettings ==
    ASSUME Source!TypeOK
    PROVE  Shown \in Source!Settings
  <1>1. CASE sourceDown = <<>>
    BY <1>1 DEF Shown, Source!TypeOK
  <1>2. CASE sourceDown # <<>>
    BY <1>2 DEF Shown, Source!TypeOK
  <1>3. QED
    BY <1>1, <1>2

\* An edit gives user and worker a new goal.
LEMMA SourceEditStep ==
    ASSUME SourceInv, NEW f, NEW v, Source!Message(f, v) \in Source!Messages,
           Source!Edit(f, v)
    PROVE  SourceBound'
  <1> DEFINE m == Source!Message(f, v)
  <1>1. m.field = f /\ m.value = v
    BY DEF Source!Message
  <1> HIDE DEF m
  <1>2. /\ on /\ ~replay /\ ~edited /\ edited' = TRUE /\ UNCHANGED <<on, replay>>
        /\ sourceUi' = [sourceUi EXCEPT ![m.field] = m.value]
        /\ sourceUp' = sourceUp \o <<m>>
        /\ sourceHasty' = (sourceHasty \/ ~Source!Settled)
        /\ control' = control /\ sourceDown' = sourceDown /\ sourceFwd' = sourceFwd
    BY <1>1 DEF Source!Edit, Source!Forwarded, Source!server, m
  <1>3. m \in Source!Messages /\ Source!TypeOK
    BY DEF m, SourceInv
  <1>4. PICK goal \in Source!Settings : Bound(goal) /\ ShownAsBound(goal) /\ SavedAsBound(goal)
    BY <1>2 DEF SourceInv, SourceBound
  <1> DEFINE next == [goal EXCEPT ![m.field] = m.value]
  <1>5. next \in Source!Settings
        /\ \A g \in Fields : next[g] = IF g = m.field THEN m.value ELSE goal[g]
    BY <1>3, <1>4, SettingsExcept
  <1>6. sourceUi' \in Source!Settings
        /\ \A g \in Fields : sourceUi'[g] = IF g = m.field THEN m.value ELSE sourceUi[g]
    <2> DEFINE edit == [sourceUi EXCEPT ![m.field] = m.value]
    <2>1. sourceUi \in Source!Settings
      BY <1>3 DEF Source!TypeOK
    <2>2. edit \in Source!Settings
          /\ \A g \in Fields : edit[g] = IF g = m.field THEN m.value ELSE sourceUi[g]
      BY <1>3, <2>1, SettingsExcept
    <2>3. sourceUi' = edit
      BY <1>2
    <2> HIDE DEF edit
    <2>4. QED
      BY <2>2, <2>3
  <1> HIDE DEF next
  <1>7. Bound(next)'
    <2>1. SUFFICES ASSUME NEW g \in Fields
                   PROVE  Lands(sourceUp', SourceTo(g), SourceSets(g, next[g]), control'[g],
                                next[g])
      BY DEF Bound
    <2>2. QED
      BY <1>2, <1>3, <1>4, <1>5, BoundEdited
  <1>8. ShownAsBound(next)'
    <2>1. CASE sourceDown = <<>>
      <3>1. Shown' = sourceUi' /\ Shown = sourceUi
        BY <1>2, <2>1 DEF Shown
      <3>2. QED
        BY <1>2, <1>4, <1>5, <1>6, <3>1 DEF ShownAsBound
    <2>2. CASE sourceDown # <<>>
      <3>1. Shown' = sourceFwd.last /\ sourceFwd.last \in Source!Settings
        BY <1>2, <1>3, <2>2 DEF Shown, EchoesAsSeen, SourceInv, Source!TypeOK
      <3>2. QED
        BY <1>2, <3>1, SourceFacts DEF ShownAsBound
    <2>3. QED
      BY <2>1, <2>2
  <1>9. SavedAsBound(next)'
    <2>1. ASSUME ~sourceHasty'
          PROVE  sourceUi' = next
      <3>1. Source!Settled
        BY <1>2, <2>1
      <3>2. \A g \in Fields : control[g] = goal[g]
        BY <1>4, <3>1, LandsEmpty DEF Source!Settled, Bound
      <3>3. sourceFwd.last \in {None, control}
        BY <1>3, <3>1 DEF Source!Settled, SourceInv, EchoesAsSeen
      <3>4. Shown = sourceUi
        BY <3>1 DEF Source!Settled, Shown
      <3>5. \A g \in Fields : sourceUi[g] = goal[g]
        BY <1>4, <3>2, <3>3, <3>4 DEF ShownAsBound
      <3>6. QED
        BY <1>5, <1>6, <3>5, SettingsFields
    <2>2. QED
      BY <1>2, <2>1 DEF SavedAsBound
  <1>10. QED
    BY <1>2, <1>5, <1>7, <1>8, <1>9 DEF SourceBound

\* Every other step leaves user and worker bound for the same settings.
LEMMA SourceBoundStep ==
    ASSUME SourceInv, Source!Next
    PROVE  SourceBound'
  <1> USE DEF Source!client, Source!server, Source!hardware
  <1>1. Source!TypeOK
    BY DEF SourceInv
  <1>2. CASE Source!Acquire
    <2>1. PICK s \in Source!Opened :
            /\ control' = s /\ sourceStatus' = s
            /\ sourceUi' = IF saved = None THEN s ELSE saved
      BY <1>2 DEF Source!Acquire
    <2>2. /\ ~on /\ on' = TRUE /\ sourceDown = <<>> /\ sourceDown' = <<>>
          /\ sourceFwd' = [last |-> None, fresh |-> FALSE]
          /\ replay' = (saved # None)
          /\ UNCHANGED <<sourceUp, saved, edited, sourceHasty>>
      BY <1>2 DEF Source!Acquire
    <2>3. sourceUp = <<>> /\ ~edited
      BY <2>2 DEF SourceInv, SourceBound
    <2>4. CASE saved # None
      <3>1. ReplayPending'
        BY <2>1, <2>2, <2>3, <2>4 DEF ReplayPending
      <3>2. QED
        BY <2>2, <2>4, <3>1 DEF SourceBound
    <2>5. CASE saved = None
      <3>1. s \in Source!Settings
        BY DEF Source!Opened
      <3>2. Bound(s)'
        BY <2>1, <2>2, <2>3, LandsEmpty DEF Bound
      <3>3. ShownAsBound(s)'
        BY <2>1, <2>2, <2>5 DEF ShownAsBound, Shown
      <3>4. SavedAsBound(s)'
        BY <2>2, <2>3, <2>5 DEF SavedAsBound
      <3>5. QED
        BY <2>2, <2>5, <3>1, <3>2, <3>3, <3>4 DEF SourceBound
    <2>6. QED
      BY <2>4, <2>5
  <1>3. CASE Source!Release
    BY <1>3 DEF Source!Release, SourceBound
  <1>4. CASE Source!Replay
    <2>1. /\ on /\ replay /\ replay' = FALSE /\ on' = on
          /\ sourceUp' = sourceUp \o Source!Replayed(sourceUi)
          /\ UNCHANGED <<control, sourceDown, sourceUi, saved, edited>>
      BY <1>4 DEF Source!Replay, Source!Forwarded
    <2>2. ReplayPending
      BY <2>1 DEF SourceInv, SourceBound
    <2>3. PICK u \in Source!Settings : u = sourceUi
      BY <1>1 DEF Source!TypeOK
    <2> DEFINE q == Source!Replayed(u)
    <2>4. sourceUp' = q
      BY <2>1, <2>2, <2>3 DEF ReplayPending, Source!Replayed
    <2>5. Len(q) = 3 /\ q[1] = [field |-> "mode", value |-> u.mode]
          /\ q[2] = [field |-> "gain", value |-> u.gain]
          /\ q[3] = [field |-> "other", value |-> u.other]
      BY DEF Source!Replayed, Source!Message
    <2>6. {q[1], q[2], q[3]} \subseteq Source!Messages
      BY <2>3, <2>5 DEF Source!Messages, Source!Settings
    <2> HIDE DEF q
    <2>7. Bound(u)'
      <3>1. Lands(q, SourceTo("mode"), SourceSets("mode", u["mode"]), control["mode"],
                  u["mode"])
        <4>1. 1 \in 1..Len(q) /\ q[1] \in SourceSets("mode", u["mode"])
              /\ \A j \in 1+1..Len(q) : q[j] \notin SourceTo("mode")
          BY <2>5, <2>6 DEF SourceSets, SourceTo
        <4>2. QED
          BY <4>1 DEF Lands
      <3>2. Lands(q, SourceTo("gain"), SourceSets("gain", u["gain"]), control["gain"],
                  u["gain"])
        <4>1. 2 \in 1..Len(q) /\ q[2] \in SourceSets("gain", u["gain"])
              /\ \A j \in 2+1..Len(q) : q[j] \notin SourceTo("gain")
          BY <2>5, <2>6 DEF SourceSets, SourceTo
        <4>2. QED
          BY <4>1 DEF Lands
      <3>3. Lands(q, SourceTo("other"), SourceSets("other", u["other"]), control["other"],
                  u["other"])
        <4>1. 3 \in 1..Len(q) /\ q[3] \in SourceSets("other", u["other"])
              /\ \A j \in 3+1..Len(q) : q[j] \notin SourceTo("other")
          BY <2>5, <2>6 DEF SourceSets, SourceTo
        <4>2. QED
          BY <4>1 DEF Lands
      <3>4. \A f \in Fields : Lands(q, SourceTo(f), SourceSets(f, u[f]), control[f], u[f])
        BY <3>1, <3>2, <3>3 DEF Fields
      <3>5. QED
        BY <2>1, <2>4, <3>4 DEF Bound
    <2>8. ShownAsBound(u)' /\ SavedAsBound(u)'
      BY <2>1, <2>2, <2>3 DEF ShownAsBound, SavedAsBound, Shown, ReplayPending
    <2>9. QED
      BY <2>1, <2>3, <2>7, <2>8 DEF SourceBound
  <1>5. CASE Source!EditMode \/ Source!EditGain \/ Source!EditOther
    BY <1>5, SourceEditStep DEF Source!EditMode, Source!EditGain, Source!EditOther,
                                Source!Message, Source!Messages
  <1>6. CASE Source!Save
    <2>1. /\ edited /\ edited' = FALSE /\ saved' = sourceUi
          /\ UNCHANGED <<control, sourceFwd, sourceUp, sourceDown, sourceUi, replay, on,
                         sourceHasty>>
      BY <1>6 DEF Source!Save
    <2>2. on /\ ~replay
      BY <2>1 DEF SourceInv, SourceBound, ReplayPending, Source!TypeOK
    <2>3. PICK goal \in Source!Settings :
             Bound(goal) /\ ShownAsBound(goal) /\ SavedAsBound(goal)
      BY <2>2 DEF SourceInv, SourceBound
    <2>4. Bound(goal)' /\ ShownAsBound(goal)' /\ SavedAsBound(goal)'
      BY <2>1, <2>3 DEF Bound, ShownAsBound, Shown, SavedAsBound
    <2>5. QED
      BY <2>1, <2>2, <2>4 DEF SourceBound
  <1>7. CASE Source!Receive
    <2>1. /\ sourceDown # <<>> /\ sourceUi' = Head(sourceDown)
          /\ sourceDown' = Tail(sourceDown)
          /\ sourceHasty' = (sourceHasty \/ edited)
          /\ UNCHANGED <<control, sourceFwd, sourceUp, saved, replay, edited, on>>
      BY <1>7 DEF Source!Receive
    <2>2. ~(on /\ replay)
      BY <2>1 DEF SourceInv, SourceBound, ReplayPending
    <2>3. Shown' = Shown
      <3>1. sourceDown \in Seq(Source!Settings)
        BY <1>1 DEF Source!TypeOK
      <3>2. CASE Tail(sourceDown) = <<>>
        <4>1. Len(Tail(sourceDown)) = 0 /\ Len(Tail(sourceDown)) = Len(sourceDown) - 1
              /\ Len(sourceDown) \in Nat
          BY <2>1, <3>1, <3>2, HeadTailProperties, LenProperties
        <4>2. Len(sourceDown) = 1
          BY <4>1
        <4>3. Head(sourceDown) = sourceDown[Len(sourceDown)]
          BY <3>1, <4>2
        <4>4. QED
          BY <2>1, <3>2, <4>3 DEF Shown
      <3>3. CASE Tail(sourceDown) # <<>>
        <4>1. sourceDown'[Len(sourceDown')] = sourceDown[Len(sourceDown)]
          BY <2>1, <3>1, <3>3
        <4>2. QED
          BY <2>1, <3>3, <4>1 DEF Shown
      <3>4. QED
        BY <3>2, <3>3
    <2>4. ASSUME on
          PROVE  \E goal \in Source!Settings :
                   Bound(goal)' /\ ShownAsBound(goal)' /\ SavedAsBound(goal)'
      <3>1. PICK goal \in Source!Settings :
               Bound(goal) /\ ShownAsBound(goal) /\ SavedAsBound(goal)
        BY <2>2, <2>4, <1>1 DEF SourceInv, SourceBound
      <3>2. Bound(goal)' /\ ShownAsBound(goal)' /\ SavedAsBound(goal)'
        BY <2>1, <2>3, <3>1 DEF Bound, ShownAsBound, SavedAsBound
      <3>3. QED
        BY <3>2
    <2>5. (~on => sourceUp = <<>> /\ ~edited)'
      BY <2>1 DEF SourceInv, SourceBound
    <2>6. QED
      BY <2>1, <2>2, <2>4, <2>5 DEF SourceBound
  <1>8. CASE Source!TakeCommand
    <2>1. /\ on /\ sourceUp # <<>> /\ sourceUp' = Tail(sourceUp)
          /\ control' = [control EXCEPT ![Head(sourceUp).field] = Head(sourceUp).value]
          /\ UNCHANGED <<sourceFwd, sourceDown, sourceUi, saved, replay, edited, on,
                         sourceHasty>>
      BY <1>8 DEF Source!TakeCommand
    <2>2. ~replay
      BY <1>1, <2>1 DEF SourceInv, SourceBound, ReplayPending, Source!TypeOK
    <2>3. PICK goal \in Source!Settings :
             Bound(goal) /\ ShownAsBound(goal) /\ SavedAsBound(goal)
      BY <2>1, <2>2 DEF SourceInv, SourceBound
    <2> DEFINE c == Head(sourceUp)
    <2>4. c \in Source!Messages /\ sourceUp \in Seq(Source!Messages)
          /\ control \in Source!Settings
      BY <1>1, <2>1, HeadTailProperties DEF Source!TypeOK
    <2> HIDE DEF c
    <2>5. \A f \in Fields : control'[f] = IF f = c.field THEN c.value ELSE control[f]
      BY <2>1, <2>4, SettingsExcept DEF c
    <2>6. ASSUME NEW f \in Fields
          PROVE  Lands(Tail(sourceUp), SourceTo(f), SourceSets(f, goal[f]), control'[f],
                       goal[f])
      <3>1. Lands(sourceUp, SourceTo(f), SourceSets(f, goal[f]), control[f], goal[f])
        BY <2>3 DEF Bound
      <3>2. c \notin SourceTo(f) => control'[f] = control[f]
        BY <2>4, <2>5 DEF SourceTo
      <3>3. c \in SourceSets(f, goal[f]) => control'[f] = goal[f]
        BY <2>5 DEF SourceTo, SourceSets
      <3>4. QED
        BY <2>1, <2>4, <3>1, <3>2, <3>3, LandsTail DEF c
    <2>7. Bound(goal)'
      BY <2>1, <2>6 DEF Bound
    <2>8. ShownAsBound(goal)' /\ SavedAsBound(goal)'
      BY <2>1, <2>3 DEF ShownAsBound, Shown, SavedAsBound
    <2>9. QED
      BY <2>1, <2>2, <2>7, <2>8 DEF SourceBound
  <1>9. CASE Source!Capture
    <2>1. UNCHANGED <<control, sourceStatus, sourceFwd, sourceUp, sourceDown, sourceUi,
                      saved, on, edited, replay, sourceHasty>>
      BY <1>9 DEF Source!Capture
    <2>2. QED
      BY <2>1 DEF SourceInv, SourceBound, Bound, ShownAsBound, Shown, SavedAsBound,
                  ReplayPending
  <1>10. CASE Source!Publish
    <2>1. /\ on /\ sourceStatus' = control /\ sourceFwd'.last = sourceFwd.last
          /\ UNCHANGED <<control, sourceUp, sourceDown, sourceUi, saved, on, edited, replay,
                         sourceHasty>>
      BY <1>1, <1>10 DEF Source!Publish
    <2>2. replay => ReplayPending'
      BY <2>1 DEF SourceInv, SourceBound, ReplayPending
    <2>3. QED
      BY <2>1, <2>2 DEF SourceInv, SourceBound, Bound, ShownAsBound, Shown, SavedAsBound
  <1>11. CASE Source!Forward
    <2>1. /\ on /\ sourceFwd' = [last |-> sourceStatus, fresh |-> FALSE]
          /\ sourceDown' = IF sourceFwd.last \in {None, sourceStatus} THEN sourceDown
                           ELSE Append(sourceDown, sourceStatus)
          /\ UNCHANGED <<control, sourceStatus, sourceUp, sourceUi, saved, on, edited, replay,
                         sourceHasty>>
      BY <1>11 DEF Source!Forward
    <2>2. sourceFwd'.last = sourceStatus /\ sourceStatus \in Source!Settings
      BY <1>1, <2>1 DEF Source!TypeOK
    <2>3. CASE replay
      <3>1. ReplayPending'
        BY <2>1, <2>2, <2>3 DEF SourceInv, SourceBound, ReplayPending
      <3>2. QED
        BY <2>1, <2>3, <3>1 DEF SourceBound
    <2>4. CASE ~replay
      <3>1. PICK goal \in Source!Settings :
               Bound(goal) /\ ShownAsBound(goal) /\ SavedAsBound(goal)
        BY <2>1, <2>4 DEF SourceInv, SourceBound
      <3>2. Bound(goal)' /\ SavedAsBound(goal)'
        BY <2>1, <3>1 DEF Bound, SavedAsBound
      <3>3. ShownAsBound(goal)'
        <4>1. CASE sourceFwd.last = None
          BY <2>1, <3>1, <4>1 DEF ShownAsBound, Shown
        <4>2. CASE sourceFwd.last = sourceStatus
          BY <2>1, <2>2, <3>1, <4>2 DEF ShownAsBound, Shown
        <4>3. CASE sourceFwd.last \notin {None, sourceStatus}
          <5>1. sourceDown' = Append(sourceDown, sourceStatus)
                /\ sourceDown \in Seq(Source!Settings)
            BY <1>1, <2>1, <4>3 DEF Source!TypeOK
          <5>2. Shown' = sourceStatus
            BY <2>2, <5>1 DEF Shown
          <5>3. QED
            BY <2>2, <5>2, SourceFacts DEF ShownAsBound
        <4>4. QED
          BY <4>1, <4>2, <4>3
      <3>4. QED
        BY <2>1, <2>4, <3>2, <3>3 DEF SourceBound
    <2>5. QED
      BY <1>1, <2>3, <2>4 DEF Source!TypeOK
  <1>12. QED
    BY <1>2, <1>3, <1>4, <1>5, <1>6, <1>7, <1>8, <1>9, <1>10, <1>11 DEF Source!Next

\* The invariant is kept.
LEMMA SourceNextInv == SourceInv /\ Source!Next => SourceInv'
  BY SourceTypes, TunerStep, EchoesStep, SourceBoundStep DEF SourceInv

\* At rest the settings the two are bound for are those of the worker.
LEMMA SourceIsShown == SourceInv => Source!SourceAsShown
  <1> SUFFICES ASSUME SourceInv
               PROVE  Source!SourceAsShown
    OBVIOUS
  <1>1. Source!TypeOK
    BY DEF SourceInv
  <1>2. ASSUME Source!Rest
        PROVE  sourceUi = control /\ (sourceHasty \/ saved \in {None, sourceUi})
    <2>1. PICK goal \in Source!Settings :
             Bound(goal) /\ ShownAsBound(goal) /\ SavedAsBound(goal)
      BY <1>2 DEF SourceInv, SourceBound, Source!Rest
    <2>2. \A f \in Fields : control[f] = goal[f]
      BY <1>2, <2>1, LandsEmpty DEF Source!Rest, Source!Settled, Bound
    <2>3. sourceFwd.last \in {None, control} /\ Shown = sourceUi
      BY <1>2 DEF Source!Rest, Source!Settled, Shown, SourceInv, EchoesAsSeen
    <2>4. \A f \in Fields : sourceUi[f] = goal[f]
      BY <2>1, <2>2, <2>3 DEF ShownAsBound
    <2>5. control = goal /\ sourceUi = goal
      BY <1>1, <2>2, <2>4, SettingsFields DEF Source!TypeOK
    <2>6. QED
      BY <1>2, <2>1, <2>5 DEF SavedAsBound, Source!Rest
  <1>3. QED
    BY <1>2 DEF SourceInv, TunerAsApplied, Source!SourceAsShown

(***************************************************************************)
(* The settings that live on both sides.                                   *)
(***************************************************************************)

\* The commands of one kind, and those for the mode v.
CommandsOf(kind) == {c \in Sync!Commands : c.kind = kind}
CommandsTo(kind, v) == {c \in CommandsOf(kind) : c.mode = v}
PitchOrMode == CommandsOf("pitch") \cup CommandsOf("mode")

\* The echoes that tell of a mode, and of the mode v.
Told == {m \in Sync!Messages : m.kind = "changed" /\ m.mode # None}
ToldAs(v) == {m \in Told : m.mode = v}

\* The filter will be the one for the mode whose controls the panel applied last.
FilterLands ==
    ui.acq /\ ~ui.pend =>
      Lands(up, CommandsOf("filter"), CommandsTo("filter", ui.seen), ctl.filter, ui.seen)

\* The mode will be the one the user asked for.
ModeLands ==
    asked # None =>
      /\ ~ui.replay
      /\ Lands(up, CommandsOf("mode"), CommandsTo("mode", asked), ctl.mode, asked)

\* So will the pitch, once its controls were applied: the command for it comes after
\* that for the mode, which it is filed under.
PitchLands ==
    asked # None /\ asked \in PitchModes /\ ui.seen = asked =>
      Lands(up, PitchOrMode, CommandsTo("pitch", asked), ctl.pitch[asked], asked)

\* The last mode the echoes under way tell of is the one the forwarder saw last.
EchoesAsTold ==
    IF fwd.last = None THEN \A i \in 1..Len(down) : down[i] \notin Told
    ELSE Lands(down, Told, ToldAs(fwd.last.mode), fwd.last.mode, fwd.last.mode)

NoSnapshot == \A i \in 1..Len(down) : down[i].kind # "snapshot"

\* The mode the client will show is the one asked for, or the one the forwarder saw last.
ModeShown ==
    asked # None /\ NoSnapshot =>
      \E v \in {asked} \cup (IF fwd.last = None THEN {} ELSE {fwd.last.mode}) :
         Lands(down, Told, ToldAs(v), ui.mode, v)

\* The forwarder saw the status last published, or has it to look at.
ForwarderSees ==
    /\ status # None /\ ~fwd.fresh => fwd.last = status
    /\ fwd.fresh => status # None

SyncInv ==
    /\ Sync!TypeOK /\ ForwarderSees /\ (frame # None => ui.acq)
    /\ FilterLands /\ ModeLands /\ PitchLands /\ EchoesAsTold /\ ModeShown

\* None is no mode and no status.
LEMMA SyncFacts == None \notin SyncModes /\ None \notin Sync!Statuses /\ SyncClicks \in Nat
  BY PanelsAssumption DEF PanelsAssumption, Sync!SyncAssumption

\* Before anything was sent.
LEMMA SyncInitInv == Sync!Init => SyncInv
  <1> SUFFICES ASSUME Sync!Init
               PROVE  SyncInv
    OBVIOUS
  <1>1. ctl \in [mode : SyncModes, filter : SyncModes \union {None}, tele : {0, 1},
                 pitch : [PitchModes -> SyncModes \union {None}]] /\ ctl.filter = None
    BY DEF Sync!Init
  <1>2. ui \in [acq : BOOLEAN, mode : SyncModes, tele : {0, 1}, pend : BOOLEAN,
                replay : BOOLEAN, seen : SyncModes \union {None}] /\ ui.acq = FALSE
    BY DEF Sync!Init
  <1>3. fwd \in [at : {"starting", "ready", "forwarding"}, last : Sync!Statuses \union {None},
                 fresh : BOOLEAN] /\ fwd.last = None /\ fwd.fresh = FALSE
    BY DEF Sync!Init
  <1>4. up \in Seq(Sync!Commands) /\ down \in Seq(Sync!Messages) /\ down = <<>>
    BY DEF Sync!Init
  <1>5. status = None /\ bundle \in SyncModes \union {None} /\ frame = None /\ asked = None
        /\ clicks \in 0..SyncClicks
    BY SyncFacts DEF Sync!Init
  <1>6. Sync!TypeOK
    BY <1>1, <1>2, <1>3, <1>4, <1>5 DEF Sync!TypeOK
  <1>7. ForwarderSees /\ FilterLands /\ ModeLands /\ PitchLands /\ ModeShown
    BY <1>2, <1>3, <1>5 DEF ForwarderSees, FilterLands, ModeLands, PitchLands, ModeShown
  <1>8. EchoesAsTold
    BY <1>3, <1>4 DEF EchoesAsTold
  <1>9. QED
    BY <1>5, <1>6, <1>7, <1>8 DEF SyncInv

\* What the worker publishes is a status.
LEMMA RuntimeIsStatus == Sync!TypeOK => Sync!Runtime \in Sync!Statuses
  BY DEF Sync!TypeOK, Sync!Runtime, Sync!Statuses

\* The difference of two statuses, and what it tells.
LEMMA ChangedTells ==
    ASSUME NEW old \in Sync!Statuses, NEW new \in Sync!Statuses
    PROVE  /\ Sync!Changed(old, new) \in Sync!Messages
           /\ Sync!Changed(old, new).kind = "changed"
           /\ Sync!Changed(old, new) \in Told => new.mode # old.mode
           /\ new.mode # old.mode => Sync!Changed(old, new) \in ToldAs(new.mode)
  <1> DEFINE m == Sync!Changed(old, new)
  <1>1. m = [kind |-> "changed", mode |-> IF new.mode = old.mode THEN None ELSE new.mode,
             tele |-> IF new.tele = old.tele THEN None ELSE new.tele]
    BY DEF Sync!Changed
  <1>2. old.mode \in SyncModes /\ new.mode \in SyncModes /\ old.tele \in {0, 1}
        /\ new.tele \in {0, 1}
    BY DEF Sync!Statuses
  <1> HIDE DEF m
  <1>3. m.kind = "changed" /\ m.mode = (IF new.mode = old.mode THEN None ELSE new.mode)
    BY <1>1
  <1>4. m \in [kind : {"changed"}, mode : SyncModes \union {None}, tele : {0, 1, None}]
    BY <1>1, <1>2
  <1>5. m \in Sync!Messages
    BY <1>4 DEF Sync!Messages
  <1>6. QED
    BY <1>2, <1>3, <1>5, SyncFacts DEF m, Told, ToldAs

\* Two messages sent one after the other.
LEMMA OneAndOne ==
    ASSUME NEW T, NEW a \in T, NEW b \in T
    PROVE  <<a>> \o <<b>> = <<a, b>>
  <1>1. <<a>> \in Seq(T) /\ <<b>> \in Seq(T) /\ <<a, b>> \in Seq(T)
    OBVIOUS
  <1> DEFINE t == <<a>> \o <<b>>
  <1>2. t \in Seq(T) /\ Len(t) = 2 /\ t[1] = a /\ t[2] = b
    OBVIOUS
  <1> HIDE DEF t
  <1>3. t = <<a, b>>
    BY <1>1, <1>2
  <1>4. QED
    BY <1>3 DEF t

\* The controls of a mode: its filter, and its pitch after that.
LEMMA ControlsOf ==
    ASSUME NEW m \in SyncModes
    PROVE  /\ Sync!ModeControls(m) \in Seq(Sync!Commands)
           /\ Sync!ModeControls(m) = IF m \in PitchModes
                THEN <<[kind |-> "filter", mode |-> m], [kind |-> "pitch", mode |-> m]>>
                ELSE <<[kind |-> "filter", mode |-> m]>>
  <1> DEFINE c(kind) == [kind |-> kind, mode |-> m]
  <1>1. c("filter") \in Sync!Commands /\ c("pitch") \in Sync!Commands
    BY DEF Sync!Commands
  <1>2. Sync!ModeControls(m) = <<c("filter")>> \o IF m \in PitchModes THEN <<c("pitch")>> ELSE <<>>
    BY DEF Sync!ModeControls, Sync!Cmd
  <1> HIDE DEF c
  <1>3. CASE m \in PitchModes
    <2>1. <<c("filter")>> \o <<c("pitch")>> = <<c("filter"), c("pitch")>>
      BY <1>1, OneAndOne
    <2>2. <<c("filter"), c("pitch")>> \in Seq(Sync!Commands)
      BY <1>1
    <2>3. QED
      BY <1>2, <1>3, <2>1, <2>2 DEF c
  <1>4. CASE m \notin PitchModes
    <2>1. <<c("filter")>> \o <<>> = <<c("filter")>> /\ <<c("filter")>> \in Seq(Sync!Commands)
      BY <1>1, ConcatEmptySeq
    <2>2. QED
      BY <1>2, <1>4, <2>1 DEF c
  <1>5. QED
    BY <1>3, <1>4

\* What the panel of one frame sends, in three steps: the controls of the mode m the frame
\* was drawn for, the mode that was saved, and the mode chosen.
Drawn(c, s1, s2, apply, m) ==
    /\ m = frame /\ m \in SyncModes /\ frame' = None
    /\ apply \in BOOLEAN /\ apply = (ui.pend \/ ui.seen # m)
    /\ s1 \in Seq(Sync!Commands) /\ s2 \in Seq(Sync!Commands) /\ up' \in Seq(Sync!Commands)
    /\ IF apply THEN s1 = up \o Sync!ModeControls(m) ELSE s1 = up
    /\ IF ui.replay THEN s2 = s1 \o <<Sync!Cmd("mode", m)>> ELSE s2 = s1
    /\ IF c # m THEN up' = s2 \o <<Sync!Cmd("mode", c)>> ELSE up' = s2
    /\ ui' = [ui EXCEPT !.pend = FALSE, !.replay = FALSE, !.seen = m,
                        !.mode = IF c # m THEN c ELSE ui.mode]
    /\ asked' = IF c # m THEN c ELSE asked
    /\ clicks' = IF c # m THEN clicks + 1 ELSE clicks
    /\ (c # m => clicks < SyncClicks)
    /\ UNCHANGED <<ctl, status, fwd, down, bundle>>

\* That is what it sends.
LEMMA DrawnSends ==
    ASSUME Sync!TypeOK, NEW c \in SyncModes, Sync!DrawPanel(c)
    PROVE  \E s1, s2, apply, m : Drawn(c, s1, s2, apply, m)
  <1> DEFINE fm == frame
             due0 == ui.pend \/ ui.seen # fm
             A == IF due0 THEN Sync!ModeControls(fm) ELSE <<>>
             R == IF ui.replay THEN <<Sync!Cmd("mode", fm)>> ELSE <<>>
             C == IF c # fm THEN <<Sync!Cmd("mode", c)>> ELSE <<>>
             q1 == up \o A
             q2 == q1 \o R
  <1>1. fm \in SyncModes /\ frame' = None
    BY DEF Sync!DrawPanel, Sync!TypeOK
  <1>2. up' = ((up \o A) \o R) \o C
    BY DEF Sync!DrawPanel
  <1>3. /\ (c # fm => clicks < SyncClicks)
        /\ asked' = (IF c # fm THEN c ELSE asked)
        /\ clicks' = (IF c # fm THEN clicks + 1 ELSE clicks)
        /\ UNCHANGED <<ctl, status, fwd, down, bundle>>
    BY DEF Sync!DrawPanel, Sync!server
  <1>4. Sync!Cmd("mode", fm) \in Sync!Commands /\ Sync!Cmd("mode", c) \in Sync!Commands
    BY <1>1 DEF Sync!Cmd, Sync!Commands
  <1>5. up \in Seq(Sync!Commands) /\ ui.pend \in BOOLEAN /\ ui.replay \in BOOLEAN
        /\ ui \in [acq : BOOLEAN, mode : SyncModes, tele : {0, 1}, pend : BOOLEAN,
                   replay : BOOLEAN, seen : SyncModes \union {None}]
    BY DEF Sync!TypeOK
  <1>6. ui' = [ui EXCEPT !.pend = FALSE, !.replay = FALSE, !.seen = fm,
                         !.mode = IF c # fm THEN c ELSE ui.mode]
    <2>1. ui' = [ui EXCEPT !.pend = FALSE, !.replay = FALSE,
                           !.seen = IF due0 THEN fm ELSE @, !.mode = IF c # fm THEN c ELSE @]
      BY DEF Sync!DrawPanel
    <2>2. QED
      BY <1>5, <2>1
  <1>7. q1 \in Seq(Sync!Commands) /\ (IF due0 THEN q1 = up \o Sync!ModeControls(fm) ELSE q1 = up)
    <2>1. CASE due0
      BY <1>1, <1>5, <2>1, ControlsOf, ConcatProperties
    <2>2. CASE ~due0
      BY <1>5, <2>2, ConcatEmptySeq
    <2>3. QED
      BY <2>1, <2>2
  <1> HIDE DEF q1
  <1>8. q2 \in Seq(Sync!Commands)
        /\ (IF ui.replay THEN q2 = q1 \o <<Sync!Cmd("mode", fm)>> ELSE q2 = q1)
    <2>1. CASE ui.replay
      BY <1>4, <1>7, <2>1
    <2>2. CASE ~ui.replay
      BY <1>7, <2>2, ConcatEmptySeq
    <2>3. QED
      BY <2>1, <2>2
  <1>9. up' = q2 \o C
    BY <1>2 DEF q1
  <1> HIDE DEF q2
  <1>10. up' \in Seq(Sync!Commands)
         /\ (IF c # fm THEN up' = q2 \o <<Sync!Cmd("mode", c)>> ELSE up' = q2)
    <2>1. CASE c # fm
      BY <1>4, <1>8, <1>9, <2>1
    <2>2. CASE c = fm
      BY <1>8, <1>9, <2>2, ConcatEmptySeq
    <2>3. QED
      BY <2>1, <2>2
  <1> HIDE DEF A, R, C
  <1>11. due0 \in BOOLEAN /\ due0 = (ui.pend \/ ui.seen # fm)
    BY <1>5
  <1> HIDE DEF due0, fm
  <1>12. fm = frame /\ due0 = (ui.pend \/ ui.seen # fm)
    BY <1>11 DEF fm
  <1>13. WITNESS q1, q2, due0, fm
  <1>14. QED
    BY <1>1, <1>3, <1>6, <1>7, <1>8, <1>10, <1>11, <1>12 DEF Drawn

\* Every step keeps the types.
LEMMA SyncTypes ==
    ASSUME Sync!TypeOK, fwd.fresh => status # None, Sync!Next
    PROVE  Sync!TypeOK'
  <1> USE DEF Sync!server, Sync!user
  <1>1. CASE Sync!WorkerReady
    BY <1>1 DEF Sync!WorkerReady, Sync!TypeOK
  <1>2. CASE Sync!FirstStatus \/ Sync!Publish
    <2>1. status' = Sync!Runtime /\ Sync!Runtime \in Sync!Statuses
          /\ fwd' = [fwd EXCEPT !.fresh = TRUE]
          /\ UNCHANGED <<ctl, up, down, ui, frame, bundle, asked, clicks>>
      BY <1>2, RuntimeIsStatus DEF Sync!FirstStatus, Sync!Publish
    <2>2. status' # None
      BY <2>1, SyncFacts
    <2>3. fwd' \in [at : {"starting", "ready", "forwarding"}, last : Sync!Statuses \union {None},
                    fresh : BOOLEAN]
      BY <2>1 DEF Sync!TypeOK
    <2>4. QED
      BY <2>1, <2>2, <2>3 DEF Sync!TypeOK
  <1>3. CASE Sync!TakeCommand
    <2> DEFINE c == Head(up)
    <2>1. /\ up # <<>> /\ status # None /\ up' = Tail(up)
          /\ ctl' = CASE c.kind = "filter" -> [ctl EXCEPT !.filter = c.mode]
                      [] c.kind = "mode" -> [ctl EXCEPT !.mode = c.mode]
                      [] c.kind = "pitch" /\ ctl.mode \in PitchModes ->
                             [ctl EXCEPT !.pitch[ctl.mode] = c.mode]
                      [] OTHER -> ctl
          /\ UNCHANGED <<status, fwd, down, ui, frame, bundle, asked, clicks>>
      BY <1>3 DEF Sync!TakeCommand
    <2>2. c \in Sync!Commands /\ up' \in Seq(Sync!Commands)
      BY <2>1, HeadTailProperties DEF Sync!TypeOK
    <2> HIDE DEF c
    <2>3. c.kind \in {"filter", "pitch", "mode"} /\ c.mode \in SyncModes
      BY <2>2 DEF Sync!Commands
    <2>4. ctl' \in [mode : SyncModes, filter : SyncModes \union {None}, tele : {0, 1},
                    pitch : [PitchModes -> SyncModes \union {None}]]
      <3>1. CASE c.kind = "filter"
        BY <2>1, <2>3, <3>1 DEF Sync!TypeOK
      <3>2. CASE c.kind = "mode"
        BY <2>1, <2>3, <3>2 DEF Sync!TypeOK
      <3>3. CASE c.kind = "pitch" /\ ctl.mode \in PitchModes
        BY <2>1, <2>3, <3>3 DEF Sync!TypeOK
      <3>4. CASE c.kind = "pitch" /\ ctl.mode \notin PitchModes
        BY <2>1, <2>3, <3>4 DEF Sync!TypeOK
      <3>5. QED
        BY <2>3, <3>1, <3>2, <3>3, <3>4
    <2>5. UNCHANGED <<status, fwd, down, ui, frame, bundle, asked, clicks>> /\ status # None
      BY <2>1
    <2>6. QED
      BY <2>2, <2>4, <2>5 DEF Sync!TypeOK
  <1>4. CASE Sync!Telemetry
    <2>1. ctl' = [ctl EXCEPT !.tele = 1]
          /\ UNCHANGED <<status, fwd, up, down, ui, frame, bundle, asked, clicks>>
      BY <1>4 DEF Sync!Telemetry
    <2>2. ctl' \in [mode : SyncModes, filter : SyncModes \union {None}, tele : {0, 1},
                    pitch : [PitchModes -> SyncModes \union {None}]]
          /\ ctl'.filter = ctl.filter
      BY <2>1 DEF Sync!TypeOK
    <2>3. QED
      BY <2>1, <2>2 DEF Sync!TypeOK
  <1>5. CASE Sync!SendSnapshot
    <2>1. /\ fwd' = [fwd EXCEPT !.at = "forwarding"]
          /\ down' = Append(down, [kind |-> "acquired"]) \o
                       IF status = None THEN <<>> ELSE <<Sync!Snapshot>>
          /\ UNCHANGED <<ctl, status, up, ui, frame, bundle, asked, clicks>>
      BY <1>5 DEF Sync!SendSnapshot
    <2>2. [kind |-> "acquired"] \in Sync!Messages
      BY DEF Sync!Messages
    <2>3. status # None => Sync!Snapshot \in Sync!Messages
      BY DEF Sync!Messages, Sync!Snapshot, Sync!TypeOK
    <2>4. Append(down, [kind |-> "acquired"]) \in Seq(Sync!Messages)
      BY <2>2 DEF Sync!TypeOK
    <2>5. (IF status = None THEN <<>> ELSE <<Sync!Snapshot>>) \in Seq(Sync!Messages)
      BY <2>3
    <2>6. down' \in Seq(Sync!Messages)
      BY <2>1, <2>4, <2>5, ConcatProperties
    <2>7. fwd' \in [at : {"starting", "ready", "forwarding"}, last : Sync!Statuses \union {None},
                    fresh : BOOLEAN]
      BY <2>1 DEF Sync!TypeOK
    <2>8. UNCHANGED <<ctl, status, up, ui, frame, bundle, asked, clicks>>
      BY <2>1
    <2>9. QED
      BY <2>6, <2>7, <2>8 DEF Sync!TypeOK
  <1>6. CASE Sync!Forward
    <2>1. /\ fwd' = [fwd EXCEPT !.last = status, !.fresh = FALSE] /\ status # None
          /\ down' = IF fwd.last \in {None, status} THEN down
                     ELSE Append(down, Sync!Changed(fwd.last, status))
          /\ UNCHANGED <<ctl, status, up, ui, frame, bundle, asked, clicks>>
      BY <1>6 DEF Sync!Forward
    <2>2. down' \in Seq(Sync!Messages)
      BY <2>1, ChangedTells DEF Sync!TypeOK
    <2>3. fwd' \in [at : {"starting", "ready", "forwarding"}, last : Sync!Statuses \union {None},
                    fresh : BOOLEAN]
      BY <2>1 DEF Sync!TypeOK
    <2>4. UNCHANGED <<ctl, status, up, ui, frame, bundle, asked, clicks>>
      BY <2>1
    <2>5. QED
      BY <2>2, <2>3, <2>4 DEF Sync!TypeOK
  <1>7. CASE Sync!Receive
    <2> DEFINE m == Head(down)
    <2>1. down # <<>> /\ down' = Tail(down)
          /\ UNCHANGED <<ctl, status, fwd, up, frame, bundle, clicks>>
      BY <1>7 DEF Sync!Receive
    <2>2. m \in Sync!Messages /\ down' \in Seq(Sync!Messages)
      BY <2>1, HeadTailProperties DEF Sync!TypeOK
    <2>3. \/ ui' = [ui EXCEPT !.acq = TRUE, !.pend = TRUE] /\ asked' = asked
          \/ m.kind = "snapshot" /\ Sync!ApplySnapshot(m)
          \/ m.kind = "changed" /\ Sync!ApplyChanged(m)
      BY <1>7 DEF Sync!Receive
    <2> HIDE DEF m
    <2> DEFINE U == [acq : BOOLEAN, mode : SyncModes, tele : {0, 1}, pend : BOOLEAN,
                     replay : BOOLEAN, seen : SyncModes \union {None}]
    <2>4. ui \in U /\ bundle \in SyncModes \union {None}
          /\ asked \in SyncModes \union {None}
      BY DEF Sync!TypeOK
    <2>5. m.kind = "snapshot" => m.of \in Sync!Statuses
      BY <2>2 DEF Sync!Messages
    <2>6. m.kind = "changed" => m.mode \in SyncModes \union {None} /\ m.tele \in {0, 1, None}
      BY <2>2 DEF Sync!Messages
    <2>7. ui' \in U /\ asked' \in SyncModes \union {None}
      <3>1. CASE ui' = [ui EXCEPT !.acq = TRUE, !.pend = TRUE] /\ asked' = asked
        BY <2>4, <3>1
      <3>2. CASE m.kind = "snapshot" /\ Sync!ApplySnapshot(m)
        <4>1. m.of.mode \in SyncModes /\ m.of.tele \in {0, 1}
          BY <2>5, <3>2 DEF Sync!Statuses
        <4>2. QED
          BY <2>4, <3>2, <4>1 DEF Sync!ApplySnapshot
      <3>3. CASE m.kind = "changed" /\ Sync!ApplyChanged(m)
        <4>1. asked' = asked
              /\ ui' = [ui EXCEPT !.mode = IF m.mode = None THEN @ ELSE m.mode,
                                  !.tele = IF m.tele = None THEN @ ELSE m.tele,
                                  !.pend = @ \/ m.mode \notin {None, ui.mode}]
          BY <3>3 DEF Sync!ApplyChanged
        <4>2. (ui.pend \/ m.mode \notin {None, ui.mode}) \in BOOLEAN
          BY <2>4
        <4>3. QED
          BY <2>4, <2>6, <3>3, <4>1, <4>2
      <3>4. QED
        BY <2>3, <3>1, <3>2, <3>3
    <2>8. QED
      BY <2>1, <2>2, <2>7 DEF Sync!TypeOK
  <1>8. CASE Sync!BeginFrame
    BY <1>8 DEF Sync!BeginFrame, Sync!TypeOK
  <1>9. ASSUME NEW c \in SyncModes, Sync!DrawPanel(c)
        PROVE  Sync!TypeOK'
    <2>1. PICK s1, s2, apply, m : Drawn(c, s1, s2, apply, m)
      BY <1>9, DrawnSends
    <2> USE DEF Drawn
    <2>2. clicks' \in 0..SyncClicks
      BY <2>1, SyncFacts DEF Sync!TypeOK
    <2>3. ui' \in [acq : BOOLEAN, mode : SyncModes, tele : {0, 1}, pend : BOOLEAN,
                   replay : BOOLEAN, seen : SyncModes \union {None}]
      BY <2>1 DEF Sync!TypeOK
    <2>4. QED
      BY <2>1, <2>2, <2>3 DEF Sync!TypeOK
  <1>10. QED
    BY <1>1, <1>2, <1>3, <1>4, <1>5, <1>6, <1>7, <1>8, <1>9 DEF Sync!Next

\* The forwarder, and a frame is drawn of an acquired radio only.
LEMMA ForwarderStep ==
    ASSUME Sync!TypeOK, ForwarderSees, frame # None => ui.acq, Sync!Next
    PROVE  ForwarderSees' /\ (frame # None => ui.acq)'
  <1> USE DEF Sync!server, Sync!user, ForwarderSees
  <1>1. CASE Sync!WorkerReady \/ Sync!Telemetry \/ Sync!SendSnapshot \/ Sync!TakeCommand
    <2>1. fwd'.last = fwd.last /\ fwd'.fresh = fwd.fresh /\ UNCHANGED <<status, frame, ui>>
      BY <1>1 DEF Sync!WorkerReady, Sync!Telemetry, Sync!SendSnapshot, Sync!TakeCommand,
                  Sync!TypeOK
    <2>2. QED
      BY <2>1
  <1>2. CASE Sync!FirstStatus \/ Sync!Publish
    <2>1. status' \in Sync!Statuses /\ fwd'.fresh = TRUE /\ UNCHANGED <<frame, ui>>
      BY <1>2, RuntimeIsStatus DEF Sync!FirstStatus, Sync!Publish, Sync!TypeOK
    <2>2. QED
      BY <2>1, SyncFacts
  <1>3. CASE Sync!Forward
    <2>1. status' = status /\ fwd'.last = status /\ fwd'.fresh = FALSE
          /\ UNCHANGED <<frame, ui>>
      BY <1>3 DEF Sync!Forward, Sync!TypeOK
    <2>2. QED
      BY <2>1
  <1>4. CASE Sync!Receive
    <2>1. UNCHANGED <<status, fwd, frame>>
      BY <1>4 DEF Sync!Receive
    <2>2. ui.acq => ui'.acq
      <3>1. ui \in [acq : BOOLEAN, mode : SyncModes, tele : {0, 1}, pend : BOOLEAN,
                    replay : BOOLEAN, seen : SyncModes \union {None}]
        BY DEF Sync!TypeOK
      <3>2. QED
        BY <1>4, <3>1 DEF Sync!Receive, Sync!ApplySnapshot, Sync!ApplyChanged
    <2>3. QED
      BY <2>1, <2>2
  <1>5. CASE Sync!BeginFrame
    BY <1>5 DEF Sync!BeginFrame
  <1>6. ASSUME NEW c \in SyncModes, Sync!DrawPanel(c)
        PROVE  ForwarderSees' /\ (frame # None => ui.acq)'
    BY <1>6 DEF Sync!DrawPanel
  <1>7. QED
    BY <1>1, <1>2, <1>3, <1>4, <1>5, <1>6 DEF Sync!Next

\* A frame of the panel.
LEMMA DrawnStep ==
    ASSUME SyncInv, NEW c \in SyncModes, Sync!DrawPanel(c)
    PROVE  FilterLands' /\ ModeLands' /\ PitchLands' /\ EchoesAsTold' /\ ModeShown'
  <1>1. Sync!TypeOK /\ ui.acq
    BY DEF SyncInv, Sync!DrawPanel
  <1>2. PICK s1, s2, apply, m : Drawn(c, s1, s2, apply, m)
    BY <1>1, DrawnSends
  <1> DEFINE A == Sync!ModeControls(m)
             R == <<Sync!Cmd("mode", m)>>
             C == <<Sync!Cmd("mode", c)>>
             filter == [kind |-> "filter", mode |-> m]
             pitch == [kind |-> "pitch", mode |-> m]
  <1>3. up \in Seq(Sync!Commands) /\ s1 \in Seq(Sync!Commands) /\ s2 \in Seq(Sync!Commands)
        /\ m \in SyncModes /\ apply \in BOOLEAN /\ ui.replay \in BOOLEAN
    BY <1>1, <1>2 DEF Drawn, Sync!TypeOK
  <1>4. /\ R \in Seq(Sync!Commands) /\ Len(R) = 1 /\ R[1] \in CommandsTo("mode", m)
        /\ R[1].kind = "mode"
        /\ C \in Seq(Sync!Commands) /\ Len(C) = 1 /\ C[1] \in CommandsTo("mode", c)
        /\ C[1].kind = "mode"
    BY <1>3 DEF Sync!Cmd, Sync!Commands, CommandsTo, CommandsOf
  <1>5. /\ A \in Seq(Sync!Commands) /\ Len(A) \in {1, 2}
        /\ A[1] = filter
        /\ Len(A) = 2 => A[2] = pitch
        /\ (Len(A) = 2) <=> m \in PitchModes
    <2>1. A \in Seq(Sync!Commands)
          /\ A = IF m \in PitchModes THEN <<filter, pitch>> ELSE <<filter>>
      BY <1>3, ControlsOf
    <2> HIDE DEF A, filter, pitch
    <2>2. CASE m \in PitchModes
      <3>1. A = <<filter, pitch>>
        BY <2>1, <2>2
      <3>2. QED
        BY <2>1, <2>2, <3>1
    <2>3. CASE m \notin PitchModes
      <3>1. A = <<filter>>
        BY <2>1, <2>3
      <3>2. QED
        BY <2>1, <2>3, <3>1
    <2>4. QED
      BY <2>2, <2>3
  <1>6. filter \in CommandsTo("filter", m) /\ pitch \in CommandsTo("pitch", m)
        /\ filter.kind = "filter" /\ pitch.kind = "pitch"
    BY <1>3 DEF Sync!Commands, CommandsTo, CommandsOf
  <1>7. /\ ui'.seen = m /\ ui'.pend = FALSE /\ ui'.replay = FALSE /\ ui'.acq = ui.acq
        /\ ui'.mode = (IF c # m THEN c ELSE ui.mode)
    BY <1>1, <1>2 DEF Drawn, Sync!TypeOK
  <1>8. /\ IF apply THEN s1 = up \o A ELSE s1 = up
        /\ IF ui.replay THEN s2 = s1 \o R ELSE s2 = s1
        /\ IF c # m THEN up' = s2 \o C ELSE up' = s2
        /\ asked' = (IF c # m THEN c ELSE asked)
        /\ apply = (ui.pend \/ ui.seen # m)
        /\ UNCHANGED <<ctl, fwd, down>>
    BY <1>2 DEF Drawn
  <1> HIDE DEF A, R, C, filter, pitch
  <1>9. FilterLands'
    <2> DEFINE F == CommandsOf("filter")
               S == CommandsTo("filter", m)
    <2>1. \A i \in 1..Len(R) : R[i] \notin F
      BY <1>4 DEF CommandsOf
    <2>2. \A i \in 1..Len(C) : C[i] \notin F
      BY <1>4 DEF CommandsOf
    <2>3. Lands(s1, F, S, ctl.filter, m)
      <3>1. CASE apply
        <4>1. 1 \in 1..Len(A) /\ A[1] \in S /\ \A j \in 1+1..Len(A) : A[j] \notin F
          BY <1>5, <1>6 DEF CommandsOf
        <4> HIDE DEF F, S
        <4>2. QED
          BY <1>3, <1>5, <1>8, <3>1, <4>1, LandsConcatThis
      <3>2. CASE ~apply
        <4>1. ui.acq /\ ~ui.pend /\ ui.seen = m /\ s1 = up
          BY <1>1, <1>8, <3>2
        <4>2. QED
          BY <4>1 DEF SyncInv, FilterLands
      <3>3. QED
        BY <1>3, <3>1, <3>2
    <2>4. Lands(s2, F, S, ctl.filter, m)
      <3> HIDE DEF F, S
      <3>1. QED
        BY <1>3, <1>4, <1>8, <2>1, <2>3, LandsConcatOther
    <2>5. Lands(up', F, S, ctl.filter, m)
      <3> HIDE DEF F, S
      <3>1. QED
        BY <1>3, <1>4, <1>8, <2>2, <2>4, LandsConcatOther
    <2>6. QED
      BY <1>7, <1>8, <2>5 DEF FilterLands
  <1>10. ModeLands'
    <2> DEFINE F == CommandsOf("mode")
               S == CommandsTo("mode", asked')
    <2>1. CASE c # m
      <3>1. 1 \in 1..Len(C) /\ C[1] \in S /\ \A j \in 1+1..Len(C) : C[j] \notin F
        BY <1>4, <1>8, <2>1
      <3>2. up' = s2 \o C
        BY <1>8, <2>1
      <3>3. Lands(up', F, S, ctl.mode, asked')
        <4> HIDE DEF F, S
        <4>1. QED
          BY <1>3, <1>4, <3>1, <3>2, LandsConcatThis
      <3>4. QED
        BY <1>7, <1>8, <3>3 DEF ModeLands
    <2>2. CASE c = m /\ asked # None
      <3>1. ~ui.replay /\ asked' = asked /\ Lands(up, F, S, ctl.mode, asked)
        BY <1>8, <2>2 DEF SyncInv, ModeLands
      <3>2. up' = s1
        BY <1>8, <2>2, <3>1
      <3>3. \A i \in 1..Len(A) : A[i] \notin F
        BY <1>5, <1>6 DEF CommandsOf
      <3>4. Lands(s1, F, S, ctl.mode, asked)
        <4> HIDE DEF F, S
        <4>1. QED
          BY <1>3, <1>5, <1>8, <3>1, <3>3, LandsConcatOther
      <3>5. QED
        BY <1>7, <1>8, <3>1, <3>2, <3>4 DEF ModeLands
    <2>3. QED
      BY <1>8, <2>1, <2>2 DEF ModeLands
  <1>11. PitchLands'
    <2> SUFFICES ASSUME asked' # None, asked' \in PitchModes, ui'.seen = asked'
                 PROVE  Lands(up', PitchOrMode, CommandsTo("pitch", asked'),
                              ctl'.pitch[asked'], asked')
      BY DEF PitchLands
    <2>1. c = m /\ asked' = asked /\ m = asked /\ asked \in PitchModes /\ asked # None
      BY <1>7, <1>8
    <2>2. ~ui.replay
      BY <2>1 DEF SyncInv, ModeLands
    <2>3. up' = s1
      BY <1>8, <2>1, <2>2
    <2> DEFINE F == PitchOrMode
               S == CommandsTo("pitch", asked)
    <2>4. CASE apply
      <3>1. 2 \in 1..Len(A) /\ A[2] \in S /\ \A j \in 2+1..Len(A) : A[j] \notin F
        BY <1>5, <1>6, <2>1
      <3>2. Lands(s1, F, S, ctl.pitch[asked], asked)
        <4> HIDE DEF F, S
        <4>1. QED
          BY <1>3, <1>5, <1>8, <2>4, <3>1, LandsConcatThis
      <3>3. QED
        BY <1>8, <2>1, <2>3, <3>2
    <2>5. CASE ~apply
      <3>1. ui.seen = asked /\ s1 = up
        BY <1>8, <2>1, <2>5
      <3>2. Lands(up, F, S, ctl.pitch[asked], asked)
        BY <2>1, <3>1 DEF SyncInv, PitchLands
      <3>3. QED
        BY <1>8, <2>1, <2>3, <3>1, <3>2
    <2>6. QED
      BY <1>3, <2>4, <2>5
  <1>12. EchoesAsTold'
    BY <1>8 DEF SyncInv, EchoesAsTold
  <1>13. ModeShown'
    <2> SUFFICES ASSUME asked' # None, NoSnapshot
                 PROVE  \E v \in {asked'} \cup (IF fwd.last = None THEN {} ELSE {fwd.last.mode}) :
                          Lands(down, Told, ToldAs(v), ui'.mode, v)
      BY <1>8 DEF ModeShown, NoSnapshot
    <2>1. CASE c # m
      <3>1. ui'.mode = c /\ asked' = c
        BY <1>7, <1>8, <2>1
      <3>2. CASE \A i \in 1..Len(down) : down[i] \notin Told
        <4>1. Lands(down, Told, ToldAs(c), c, c)
          BY <3>2 DEF Lands
        <4>2. QED
          BY <3>1, <4>1
      <3>3. CASE ~ \A i \in 1..Len(down) : down[i] \notin Told
        <4>1. fwd.last # None
              /\ Lands(down, Told, ToldAs(fwd.last.mode), fwd.last.mode, fwd.last.mode)
          BY <3>3 DEF SyncInv, EchoesAsTold
        <4>2. Lands(down, Told, ToldAs(fwd.last.mode), c, fwd.last.mode)
          BY <3>3, <4>1 DEF Lands
        <4>3. QED
          BY <3>1, <4>1, <4>2
      <3>4. QED
        BY <3>2, <3>3
    <2>2. CASE c = m
      <3>1. ui'.mode = ui.mode /\ asked' = asked
        BY <1>7, <1>8, <2>2
      <3>2. QED
        BY <3>1 DEF SyncInv, ModeShown
    <2>3. QED
      BY <2>1, <2>2
  <1>14. QED
    BY <1>9, <1>10, <1>11, <1>12, <1>13

\* A command is taken.
LEMMA TakenStep ==
    ASSUME SyncInv, Sync!TakeCommand
    PROVE  FilterLands' /\ ModeLands' /\ PitchLands' /\ EchoesAsTold' /\ ModeShown'
  <1> DEFINE c == Head(up)
  <1>1. /\ up # <<>> /\ up' = Tail(up)
        /\ ctl' = CASE c.kind = "filter" -> [ctl EXCEPT !.filter = c.mode]
                    [] c.kind = "mode" -> [ctl EXCEPT !.mode = c.mode]
                    [] c.kind = "pitch" /\ ctl.mode \in PitchModes ->
                           [ctl EXCEPT !.pitch[ctl.mode] = c.mode]
                    [] OTHER -> ctl
        /\ UNCHANGED <<fwd, down, ui, asked>>
    BY DEF Sync!TakeCommand, Sync!user
  <1>2. up \in Seq(Sync!Commands) /\ c \in Sync!Commands /\ Len(up) \in Nat /\ up[1] = c
        /\ ctl \in [mode : SyncModes, filter : SyncModes \union {None}, tele : {0, 1},
                    pitch : [PitchModes -> SyncModes \union {None}]]
    BY <1>1, HeadTailProperties DEF SyncInv, Sync!TypeOK
  <1>3. c.kind \in {"filter", "pitch", "mode"} /\ c.mode \in SyncModes
    BY <1>2 DEF Sync!Commands
  <1>4. c.kind \in {"filter", "pitch", "mode"} /\ Head(up) = c
    BY <1>3
  <1> HIDE DEF c
  <1>6. ctl'.filter = IF c.kind = "filter" THEN c.mode ELSE ctl.filter
    BY <1>1, <1>2, <1>3
  <1>7. ctl'.mode = IF c.kind = "mode" THEN c.mode ELSE ctl.mode
    BY <1>1, <1>2, <1>3
  <1>8. \A p \in PitchModes :
          ctl'.pitch[p] = IF c.kind = "pitch" /\ p = ctl.mode THEN c.mode ELSE ctl.pitch[p]
    <2>1. CASE c.kind = "pitch" /\ ctl.mode \in PitchModes
      BY <1>1, <1>2, <2>1
    <2>2. CASE c.kind = "pitch" /\ ctl.mode \notin PitchModes
      <3>1. ctl' = ctl
        BY <1>1, <2>2
      <3>2. QED
        BY <2>2, <3>1
    <2>3. CASE c.kind \in {"filter", "mode"}
      <3>1. ctl'.pitch = ctl.pitch
        BY <1>1, <1>2, <2>3
      <3>2. QED
        BY <2>3, <3>1
    <2>4. QED
      BY <1>3, <2>1, <2>2, <2>3
  <1>9. FilterLands'
    <2> SUFFICES ASSUME ui.acq, ~ui.pend
                 PROVE  Lands(Tail(up), CommandsOf("filter"), CommandsTo("filter", ui.seen),
                              ctl'.filter, ui.seen)
      BY <1>1 DEF FilterLands
    <2>1. Lands(up, CommandsOf("filter"), CommandsTo("filter", ui.seen), ctl.filter, ui.seen)
      BY DEF SyncInv, FilterLands
    <2>2. c \notin CommandsOf("filter") => ctl'.filter = ctl.filter
      BY <1>2, <1>6 DEF CommandsOf
    <2>3. c \in CommandsTo("filter", ui.seen) => ctl'.filter = ui.seen
      BY <1>6 DEF CommandsTo, CommandsOf
    <2>4. QED
      BY <1>1, <1>2, <1>4, <2>1, <2>2, <2>3, LandsTail
  <1>10. ModeLands'
    <2> SUFFICES ASSUME asked # None
                 PROVE  Lands(Tail(up), CommandsOf("mode"), CommandsTo("mode", asked),
                              ctl'.mode, asked) /\ ~ui.replay
      BY <1>1 DEF ModeLands
    <2>1. Lands(up, CommandsOf("mode"), CommandsTo("mode", asked), ctl.mode, asked)
          /\ ~ui.replay
      BY DEF SyncInv, ModeLands
    <2>2. c \notin CommandsOf("mode") => ctl'.mode = ctl.mode
      BY <1>2, <1>7 DEF CommandsOf
    <2>3. c \in CommandsTo("mode", asked) => ctl'.mode = asked
      BY <1>7 DEF CommandsTo, CommandsOf
    <2>4. QED
      BY <1>1, <1>2, <1>4, <2>1, <2>2, <2>3, LandsTail
  <1>11. PitchLands'
    <2> SUFFICES ASSUME asked # None, asked \in PitchModes, ui.seen = asked
                 PROVE  Lands(Tail(up), PitchOrMode, CommandsTo("pitch", asked),
                              ctl'.pitch[asked], asked)
      BY <1>1 DEF PitchLands
    <2>1. Lands(up, PitchOrMode, CommandsTo("pitch", asked), ctl.pitch[asked], asked)
      BY DEF SyncInv, PitchLands
    <2>2. c \notin PitchOrMode => ctl'.pitch[asked] = ctl.pitch[asked]
      BY <1>2, <1>8 DEF CommandsOf, PitchOrMode
    <2>3. ASSUME c \in CommandsTo("pitch", asked), \A j \in 2..Len(up) : up[j] \notin PitchOrMode
          PROVE  ctl'.pitch[asked] = asked
      <3>1. c.kind = "pitch" /\ c.mode = asked
        BY <2>3 DEF CommandsTo, CommandsOf
      <3>2. \A i \in 1..Len(up) : up[i] \notin CommandsOf("mode")
        <4>1. c \notin CommandsOf("mode")
          BY <3>1 DEF CommandsOf
        <4>2. \A j \in 2..Len(up) : up[j] \notin CommandsOf("mode")
          BY <2>3 DEF PitchOrMode
        <4>3. QED
          BY <1>2, <4>1, <4>2
      <3>3. CommandsTo("mode", asked) \subseteq CommandsOf("mode")
        BY DEF CommandsTo
      <3>4. Lands(up, CommandsOf("mode"), CommandsTo("mode", asked), ctl.mode, asked)
        BY DEF SyncInv, ModeLands
      <3>5. ctl.mode = asked
        BY <3>2, <3>3, <3>4 DEF Lands
      <3>6. QED
        BY <1>8, <3>1, <3>5
    <2>4. QED
      BY <1>1, <1>2, <1>4, <2>1, <2>2, <2>3, LandsTail
  <1>12. EchoesAsTold' /\ ModeShown'
    BY <1>1 DEF SyncInv, EchoesAsTold, ModeShown, NoSnapshot
  <1>13. QED
    BY <1>9, <1>10, <1>11, <1>12

\* The forwarder tells of a new status.
LEMMA ForwardedStep ==
    ASSUME SyncInv, Sync!Forward
    PROVE  FilterLands' /\ ModeLands' /\ PitchLands' /\ EchoesAsTold' /\ ModeShown'
  <1>1. /\ fwd' = [fwd EXCEPT !.last = status, !.fresh = FALSE]
        /\ down' = IF fwd.last \in {None, status} THEN down
                   ELSE Append(down, Sync!Changed(fwd.last, status))
        /\ UNCHANGED <<ctl, up, ui, asked>> /\ fwd.fresh
    BY DEF Sync!Forward, Sync!user
  <1>2. status \in Sync!Statuses /\ fwd'.last = status /\ status # None
        /\ fwd.last \in Sync!Statuses \cup {None} /\ down \in Seq(Sync!Messages)
    BY <1>1, SyncFacts DEF SyncInv, ForwarderSees, Sync!TypeOK
  <1>3. FilterLands' /\ ModeLands' /\ PitchLands'
    BY <1>1 DEF SyncInv, FilterLands, ModeLands, PitchLands
  <1> DEFINE new == status.mode
             old == fwd.last.mode
             m == Sync!Changed(fwd.last, status)
  <1>4. CASE fwd.last = None
    <2>1. down' = down /\ fwd'.last # None /\ \A i \in 1..Len(down) : down[i] \notin Told
      BY <1>1, <1>2, <1>4 DEF SyncInv, EchoesAsTold
    <2>2. EchoesAsTold'
      BY <2>1 DEF EchoesAsTold, Lands
    <2>3. ModeShown'
      <3>1. SUFFICES ASSUME asked # None, NoSnapshot
                     PROVE  Lands(down, Told, ToldAs(asked), ui.mode, asked)
        BY <1>1, <2>1 DEF ModeShown, NoSnapshot
      <3>2. QED
        BY <1>4, <3>1 DEF SyncInv, ModeShown
    <2>4. QED
      BY <1>3, <2>2, <2>3
  <1>5. CASE fwd.last = status
    <2>1. down' = down /\ fwd'.last = fwd.last
      BY <1>1, <1>2, <1>5
    <2>2. QED
      BY <1>1, <1>3, <2>1 DEF SyncInv, EchoesAsTold, ModeShown, NoSnapshot
  <1>6. CASE fwd.last \notin {None, status}
    <2>1. down' = Append(down, m)
      BY <1>1, <1>6
    <2>2. /\ m \in Sync!Messages /\ m.kind = "changed"
          /\ m \in Told => new # old
          /\ new # old => m \in ToldAs(new)
      BY <1>2, <1>6, ChangedTells
    <2>3. fwd'.last # None /\ fwd'.last.mode = new
      BY <1>2
    <2>4. Lands(down, Told, ToldAs(old), old, old)
      BY <1>6 DEF SyncInv, EchoesAsTold
    <2> HIDE DEF new, old, m
    <2>6. Lands(down', Told, ToldAs(new), new, new)
      <3>1. CASE new = old
        BY <1>2, <2>1, <2>2, <2>4, <3>1, LandsAppendOther
      <3>2. CASE new # old
        BY <1>2, <2>1, <2>2, <3>2, LandsAppendThis
      <3>3. QED
        BY <3>1, <3>2
    <2>7. EchoesAsTold'
      BY <2>3, <2>6 DEF EchoesAsTold
    <2>8. ModeShown'
      <3>1. SUFFICES ASSUME asked # None, NoSnapshot'
                     PROVE  \E v \in {asked, new} : Lands(down', Told, ToldAs(v), ui.mode, v)
        BY <1>1, <2>3 DEF ModeShown
      <3>2. NoSnapshot
        <4>1. \A i \in 1..Len(down) : i \in 1..Len(down') /\ down'[i] = down[i]
          BY <1>2, <2>1, <2>2, AppendProperties
        <4>2. QED
          BY <3>1, <4>1 DEF NoSnapshot
      <3>3. PICK v \in {asked, old} : Lands(down, Told, ToldAs(v), ui.mode, v)
        BY <1>6, <3>1, <3>2 DEF SyncInv, ModeShown, old
      <3>4. CASE new = old
        <4>1. Lands(down', Told, ToldAs(v), ui.mode, v)
          BY <1>2, <2>1, <2>2, <3>3, <3>4, LandsAppendOther
        <4>2. QED
          BY <3>4, <4>1
      <3>5. CASE new # old
        <4>1. Lands(down', Told, ToldAs(new), ui.mode, new)
          BY <1>2, <2>1, <2>2, <3>5, LandsAppendThis
        <4>2. QED
          BY <4>1
      <3>6. QED
        BY <3>4, <3>5
    <2>9. QED
      BY <1>3, <2>7, <2>8
  <1>7. QED
    BY <1>4, <1>5, <1>6

\* The snapshot is sent.
LEMMA SnapshotStep ==
    ASSUME SyncInv, Sync!SendSnapshot
    PROVE  FilterLands' /\ ModeLands' /\ PitchLands' /\ EchoesAsTold' /\ ModeShown'
  <1> DEFINE a == [kind |-> "acquired"]
             r == IF status = None THEN <<>> ELSE <<Sync!Snapshot>>
             t == Append(down, a)
  <1>1. /\ down' = t \o r /\ fwd'.last = fwd.last /\ UNCHANGED <<ctl, up, ui, asked>>
    BY DEF Sync!SendSnapshot, Sync!user, SyncInv, Sync!TypeOK
  <1>2. a \in Sync!Messages /\ a.kind = "acquired" /\ a \notin Told
    BY DEF Sync!Messages, Told
  <1>3. /\ r \in Seq(Sync!Messages)
        /\ \A i \in 1..Len(r) : r[i].kind = "snapshot" /\ r[i] \notin Told
    <2>1. CASE status = None
      BY <2>1
    <2>2. CASE status # None
      <3>1. Sync!Snapshot \in Sync!Messages /\ Sync!Snapshot.kind = "snapshot"
        BY <2>2 DEF Sync!Messages, Sync!Snapshot, SyncInv, Sync!TypeOK
      <3>2. r = <<Sync!Snapshot>>
        BY <2>2
      <3> HIDE DEF r
      <3>3. QED
        BY <3>1, <3>2 DEF Told
    <2>3. QED
      BY <2>1, <2>2
  <1>4. down \in Seq(Sync!Messages)
    BY DEF SyncInv, Sync!TypeOK
  <1> HIDE DEF a, r
  <1>5. /\ t \in Seq(Sync!Messages) /\ Len(t) = Len(down) + 1 /\ Len(down) \in Nat
        /\ t[Len(down) + 1] = a
        /\ \A i \in 1..Len(down) : t[i] = down[i]
    BY <1>2, <1>4, AppendProperties
  <1>6. ASSUME NEW v, NEW d, Lands(down, Told, ToldAs(v), d, v)
        PROVE  Lands(down', Told, ToldAs(v), d, v)
    <2>1. Lands(t, Told, ToldAs(v), d, v)
      BY <1>2, <1>4, <1>6, LandsAppendOther
    <2> HIDE DEF t
    <2>2. QED
      BY <1>1, <1>3, <1>5, <2>1, LandsConcatOther
  <1>7. ASSUME \A i \in 1..Len(down) : down[i] \notin Told
        PROVE  \A i \in 1..Len(down') : down'[i] \notin Told
    <2>1. \A i \in 1..Len(t) : t[i] \notin Told
      BY <1>2, <1>5, <1>7
    <2> HIDE DEF t
    <2>2. /\ Len(t) \in Nat /\ Len(r) \in Nat /\ Len(t \o r) = Len(t) + Len(r)
          /\ \A i \in 1..Len(t) + Len(r) :
               (t \o r)[i] = IF i <= Len(t) THEN t[i] ELSE r[i - Len(t)]
      BY <1>3, <1>5, ConcatProperties, LenProperties
    <2>3. ASSUME NEW i \in 1..Len(t \o r)
          PROVE  (t \o r)[i] \notin Told
      <3>1. CASE i <= Len(t)
        BY <2>1, <2>2, <3>1
      <3>2. CASE i > Len(t)
        <4>1. i - Len(t) \in 1..Len(r) /\ (t \o r)[i] = r[i - Len(t)]
          BY <2>2, <3>2
        <4>2. QED
          BY <1>3, <4>1
      <3>3. QED
        BY <2>2, <3>1, <3>2
    <2>4. QED
      BY <1>1, <2>3
  <1>8. NoSnapshot' => NoSnapshot
    <2> HIDE DEF t
    <2>1. /\ Len(t \o r) = Len(t) + Len(r) /\ Len(t) \in Nat /\ Len(r) \in Nat
          /\ \A i \in 1..Len(t) + Len(r) :
               (t \o r)[i] = IF i <= Len(t) THEN t[i] ELSE r[i - Len(t)]
      BY <1>3, <1>5, ConcatProperties, LenProperties
    <2>2. \A i \in 1..Len(down) : i \in 1..Len(down') /\ down'[i] = down[i]
      BY <1>1, <1>5, <2>1
    <2>3. QED
      BY <2>2 DEF NoSnapshot
  <1>9. EchoesAsTold'
    <2>1. CASE fwd.last = None
      BY <1>1, <1>7, <2>1 DEF SyncInv, EchoesAsTold
    <2>2. CASE fwd.last # None
      <3>1. Lands(down, Told, ToldAs(fwd.last.mode), fwd.last.mode, fwd.last.mode)
        BY <2>2 DEF SyncInv, EchoesAsTold
      <3>2. Lands(down', Told, ToldAs(fwd.last.mode), fwd.last.mode, fwd.last.mode)
        BY <1>6, <3>1
      <3>3. QED
        BY <1>1, <2>2, <3>2 DEF EchoesAsTold
    <2>3. QED
      BY <2>1, <2>2
  <1>10. ModeShown'
    <2> SUFFICES ASSUME asked # None, NoSnapshot'
                 PROVE  \E v \in {asked} \cup (IF fwd.last = None THEN {} ELSE {fwd.last.mode}) :
                          Lands(down', Told, ToldAs(v), ui.mode, v)
      BY <1>1 DEF ModeShown
    <2>1. PICK v \in {asked} \cup (IF fwd.last = None THEN {} ELSE {fwd.last.mode}) :
            Lands(down, Told, ToldAs(v), ui.mode, v)
      BY <1>8 DEF SyncInv, ModeShown
    <2>2. Lands(down', Told, ToldAs(v), ui.mode, v)
      BY <1>6, <2>1
    <2>3. QED
      BY <2>2
  <1>11. FilterLands' /\ ModeLands' /\ PitchLands'
    BY <1>1 DEF SyncInv, FilterLands, ModeLands, PitchLands
  <1>12. QED
    BY <1>9, <1>10, <1>11

\* A message reaches the client.
LEMMA ReceivedStep ==
    ASSUME SyncInv, Sync!Receive
    PROVE  FilterLands' /\ ModeLands' /\ PitchLands' /\ EchoesAsTold' /\ ModeShown'
  <1> DEFINE m == Head(down)
  <1>1. down # <<>> /\ down' = Tail(down) /\ UNCHANGED <<ctl, fwd, up>>
    BY DEF Sync!Receive, Sync!server
  <1>2. /\ down \in Seq(Sync!Messages) /\ m \in Sync!Messages /\ Len(down) \in Nat \ {0}
        /\ down[1] = m /\ Len(down') = Len(down) - 1
        /\ \A i \in 1..Len(down') : down'[i] = down[i + 1]
    BY <1>1, HeadTailProperties DEF SyncInv, Sync!TypeOK
  <1>3. \/ m.kind = "acquired" /\ ui' = [ui EXCEPT !.acq = TRUE, !.pend = TRUE]
           /\ UNCHANGED asked
        \/ m.kind = "snapshot" /\ Sync!ApplySnapshot(m)
        \/ m.kind = "changed" /\ Sync!ApplyChanged(m)
    BY DEF Sync!Receive
  <1>4. Head(down) = m
    OBVIOUS
  <1> HIDE DEF m
  <1>5. ui \in [acq : BOOLEAN, mode : SyncModes, tele : {0, 1}, pend : BOOLEAN,
                replay : BOOLEAN, seen : SyncModes \union {None}]
    BY DEF SyncInv, Sync!TypeOK
  <1>6. EchoesAsTold'
    <2>1. CASE fwd.last = None
      <3>1. \A i \in 1..Len(down) : down[i] \notin Told
        BY <2>1 DEF SyncInv, EchoesAsTold
      <3>2. \A i \in 1..Len(down') : down'[i] \notin Told
        BY <1>2, <3>1
      <3>3. QED
        BY <1>1, <2>1, <3>2 DEF EchoesAsTold
    <2>2. CASE fwd.last # None
      <3>1. Lands(down, Told, ToldAs(fwd.last.mode), fwd.last.mode, fwd.last.mode)
        BY <2>2 DEF SyncInv, EchoesAsTold
      <3>2. Lands(down', Told, ToldAs(fwd.last.mode), fwd.last.mode, fwd.last.mode)
        BY <1>1, <1>2, <3>1, LandsTail
      <3>3. QED
        BY <1>1, <2>2, <3>2 DEF EchoesAsTold
    <2>3. QED
      BY <2>1, <2>2
  <1>7. CASE m.kind = "snapshot"
    <2>1. asked' = None /\ ui'.pend = TRUE
      BY <1>3, <1>5, <1>7 DEF Sync!ApplySnapshot
    <2>2. QED
      BY <1>6, <2>1 DEF FilterLands, ModeLands, PitchLands, ModeShown
  <1>8. CASE m.kind \in {"acquired", "changed"}
    <2>1. /\ asked' = asked /\ ui'.replay = ui.replay /\ ui'.seen = ui.seen
          /\ ui'.pend = FALSE => ui.pend = FALSE /\ m.kind = "changed"
          /\ m.kind = "changed" => ui'.acq = ui.acq
          /\ ui'.pend \in BOOLEAN
          /\ ui'.mode = IF m.kind = "changed" /\ m.mode # None THEN m.mode ELSE ui.mode
      <3>1. CASE m.kind = "acquired"
        BY <1>3, <1>5, <3>1
      <3>2. CASE m.kind = "changed"
        <4>1. asked' = asked
              /\ ui' = [ui EXCEPT !.mode = IF m.mode = None THEN @ ELSE m.mode,
                                  !.tele = IF m.tele = None THEN @ ELSE m.tele,
                                  !.pend = @ \/ m.mode \notin {None, ui.mode}]
          BY <1>3, <3>2 DEF Sync!ApplyChanged
        <4>2. QED
          BY <1>5, <3>2, <4>1
      <3>3. QED
        BY <1>8, <3>1, <3>2
    <2>2. FilterLands'
      BY <1>1, <1>5, <2>1 DEF SyncInv, FilterLands
    <2>3. ModeLands' /\ PitchLands'
      BY <1>1, <2>1 DEF SyncInv, ModeLands, PitchLands
    <2>4. NoSnapshot' => NoSnapshot
      <3>1. ASSUME NoSnapshot', NEW i \in 1..Len(down)
            PROVE  down[i].kind # "snapshot"
        <4>1. CASE i = 1
          BY <1>2, <1>8, <4>1
        <4>2. CASE i # 1
          <5>1. i - 1 \in 1..Len(down') /\ down'[i - 1] = down[i]
            BY <1>2, <4>2
          <5>2. QED
            BY <3>1, <5>1 DEF NoSnapshot
        <4>3. QED
          BY <4>1, <4>2
      <3>2. QED
        BY <3>1 DEF NoSnapshot
    <2>5. ModeShown'
      <3> SUFFICES ASSUME asked # None, NoSnapshot'
                   PROVE  \E v \in {asked} \cup (IF fwd.last = None THEN {} ELSE {fwd.last.mode}) :
                            Lands(down', Told, ToldAs(v), ui'.mode, v)
        BY <1>1, <2>1 DEF ModeShown
      <3>1. PICK v \in {asked} \cup (IF fwd.last = None THEN {} ELSE {fwd.last.mode}) :
              Lands(down, Told, ToldAs(v), ui.mode, v)
        BY <2>4 DEF SyncInv, ModeShown
      <3>2. m \notin Told => ui'.mode = ui.mode
        BY <1>2, <2>1 DEF Told
      <3>3. m \in ToldAs(v) => ui'.mode = v
        BY <2>1 DEF Told, ToldAs
      <3>4. Lands(down', Told, ToldAs(v), ui'.mode, v)
        BY <1>1, <1>2, <1>4, <3>1, <3>2, <3>3, LandsTail
      <3>5. QED
        BY <3>4
    <2>6. QED
      BY <1>6, <2>2, <2>3, <2>5
  <1>9. QED
    BY <1>3, <1>7, <1>8

\* The invariant is kept.
LEMMA SyncNextInv == SyncInv /\ Sync!Next => SyncInv'
  <1> SUFFICES ASSUME SyncInv, Sync!Next
               PROVE  SyncInv'
    OBVIOUS
  <1>1. Sync!TypeOK' /\ ForwarderSees' /\ (frame # None => ui.acq)'
    BY SyncTypes, ForwarderStep DEF SyncInv, ForwarderSees
  <1>2. FilterLands' /\ ModeLands' /\ PitchLands' /\ EchoesAsTold' /\ ModeShown'
    <2>1. CASE Sync!WorkerReady \/ Sync!FirstStatus \/ Sync!Publish \/ Sync!Telemetry
               \/ Sync!BeginFrame
      <3>1. UNCHANGED <<up, down, ui, asked>> /\ fwd'.last = fwd.last
            /\ ctl'.filter = ctl.filter /\ ctl'.mode = ctl.mode /\ ctl'.pitch = ctl.pitch
        BY <2>1 DEF Sync!WorkerReady, Sync!FirstStatus, Sync!Publish, Sync!Telemetry,
                    Sync!BeginFrame, Sync!user, Sync!server, SyncInv, Sync!TypeOK
      <3>2. QED
        BY <3>1 DEF SyncInv, FilterLands, ModeLands, PitchLands, EchoesAsTold, ModeShown,
                    NoSnapshot
    <2>2. QED
      BY <2>1, TakenStep, ForwardedStep, SnapshotStep, ReceivedStep, DrawnStep DEF Sync!Next
  <1>3. QED
    BY <1>1, <1>2 DEF SyncInv

\* Once nothing is under way the mode asked for is the one on both sides, and the filter
\* is the one for the mode shown.
LEMMA SyncFollows == SyncInv => Sync!LastClickWins /\ Sync!FilterFollowsMode
  <1> SUFFICES ASSUME SyncInv, Sync!Quiet
               PROVE  /\ ctl.filter = ui.mode
                      /\ asked # None => /\ ctl.mode = asked /\ ui.mode = asked
                                         /\ ctl.filter = asked
                                         /\ asked \in PitchModes => ctl.pitch[asked] = asked
    BY DEF Sync!LastClickWins, Sync!FilterFollowsMode
  <1>1. up = <<>> /\ down = <<>> /\ ui.seen = ui.mode
    BY DEF Sync!Quiet
  <1>2. ctl.filter = ui.mode
    BY <1>1, LandsEmpty DEF SyncInv, FilterLands, Sync!Quiet
  <1>3. ASSUME asked # None
        PROVE  ctl.mode = asked
    BY <1>1, <1>3, LandsEmpty DEF SyncInv, ModeLands
  <1>4. ASSUME asked # None
        PROVE  ui.mode = asked
    <2>1. NoSnapshot
      BY <1>1 DEF NoSnapshot
    <2>2. PICK v \in {asked} \cup (IF fwd.last = None THEN {} ELSE {fwd.last.mode}) :
            Lands(<<>>, Told, ToldAs(v), ui.mode, v)
      BY <1>1, <1>4, <2>1 DEF SyncInv, ModeShown
    <2>3. ui.mode = v
      BY <2>2, LandsEmpty
    <2>4. status = Sync!Runtime /\ status # None /\ fwd.last = status
      BY RuntimeIsStatus, SyncFacts DEF Sync!Quiet, SyncInv, ForwarderSees
    <2>5. fwd.last.mode = asked
      BY <1>3, <1>4, <2>4 DEF Sync!Runtime
    <2>6. QED
      BY <2>2, <2>3, <2>5
  <1>5. ASSUME asked # None, asked \in PitchModes
        PROVE  ctl.pitch[asked] = asked
    <2>1. ui.seen = asked
      BY <1>1, <1>4, <1>5
    <2>2. QED
      BY <1>1, <1>5, <2>1, LandsEmpty DEF SyncInv, PitchLands
  <1>6. QED
    BY <1>2, <1>3, <1>4, <1>5

(***************************************************************************)
(* The dial.                                                               *)
(***************************************************************************)

Ends == {"center", "target"}

\* The messages that tell of one end of the dial, and those that put it at v.
Tells(f) == {m \in Tuning!Messages : m[f] # None}
Says(f, v) == {m \in Tells(f) : m[f] = v}

\* The server's dial will be at v, and the one shown; or the one shown was just set to v by
\* the client, and an older echo is still to come.
Tuned(f, v) == Lands(dialUp, Tells(f), Says(f, v), server[f], v)
Showing(f, v) == Lands(dialDown, Tells(f), Says(f, v), dialUi[f], v)
Displays(f, v) == Showing(f, published[f]) \/ Showing(f, v)

\* The last echo under way is of what was published.
EchoesPublished ==
    \A f \in Ends :
        Lands(dialDown, Tells(f), Says(f, published[f]), published[f], published[f])

\* The target shown will be where the server's will, or was when it last published.
TargetShown == ~held => \E v \in Tuning!Freqs : Tuned("target", v) /\ Displays("target", v)

\* So will the centre be, and that is the one sent last.
CenterTuned == Tuned("center", lastOut)
CenterShown == ~strayed => Displays("center", lastOut)

\* No message was sent.
Untouched ==
    /\ lastSent = 0 /\ open /\ dialUp = <<>> /\ dialDown = <<>>
    /\ dialUi = server /\ published = server /\ server.center = server.target
    /\ shot = dialUi /\ lastOut = dialUi.center

\* A drag alone remembers the LO it sent, and leaves none unsent past a throttled frame.
DragSent ==
    paths = {"drag"} => /\ Untouched \/ lastSent = lastOut
                        /\ strayed => held

\* Who neither turns the wheel nor drags sends every LO.
Guiltless == paths \cap {"wheel", "drag"} = {} => ~strayed

DialKept ==
    /\ EchoesPublished /\ TargetShown /\ CenterTuned /\ CenterShown
    /\ DragSent /\ Guiltless
    /\ "drag" \notin paths => ~drag /\ fling = 0

DialInv == Tuning!TypeOK /\ DialKept

\* What the dial is made of.
LEMMA DialFacts ==
    /\ MaxFreq \in Nat /\ Half \in Nat /\ Soft \in Nat /\ Soft > 0 /\ MaxMoves \in Nat
    /\ None \notin Tuning!Freqs
    /\ Tuning!Freqs = 0..MaxFreq
  BY PanelsAssumption DEF PanelsAssumption, Tuning!DialAssumption, Tuning!Freqs

\* The larger and the smaller of two.
LEMMA TwoNumbers ==
    ASSUME NEW a \in Int, NEW b \in Int
    PROVE  /\ Tuning!Max({a, b}) = IF a >= b THEN a ELSE b
           /\ Tuning!Min({a, b}) = IF a <= b THEN a ELSE b
  <1>1. \E x \in {a, b} : \A y \in {a, b} : x >= y
    OBVIOUS
  <1>2. Tuning!Max({a, b}) \in {a, b} /\ \A y \in {a, b} : Tuning!Max({a, b}) >= y
    BY <1>1 DEF Tuning!Max
  <1>3. \E x \in {a, b} : \A y \in {a, b} : x <= y
    OBVIOUS
  <1>4. Tuning!Min({a, b}) \in {a, b} /\ \A y \in {a, b} : Tuning!Min({a, b}) <= y
    BY <1>3 DEF Tuning!Min
  <1>5. QED
    BY <1>2, <1>4

\* A clamped value is between the bounds, and one between them is left alone.
LEMMA ClampIsBetween ==
    ASSUME NEW f \in Int, NEW lo \in Int, NEW hi \in Int
    PROVE  /\ Tuning!Clamp(f, lo, hi) \in Int
           /\ lo <= hi => Tuning!Clamp(f, lo, hi) \in lo..hi
           /\ f \in lo..hi => Tuning!Clamp(f, lo, hi) = f
  <1> DEFINE a == Tuning!Min({f, hi})
  <1>1. a = IF f <= hi THEN f ELSE hi
    BY TwoNumbers
  <1> HIDE DEF a
  <1>2. Tuning!Max({a, lo}) = IF a >= lo THEN a ELSE lo
    BY <1>1, TwoNumbers
  <1>3. Tuning!Clamp(f, lo, hi) = Tuning!Max({a, lo})
    BY DEF Tuning!Clamp, a
  <1>4. QED
    BY <1>1, <1>2, <1>3

\* The LO and the target stay in the RF range.
LEMMA ClampedIsFreq ==
    ASSUME NEW f \in Int, NEW c \in Int
    PROVE  /\ Tuning!ClampCenter(f) \in Tuning!Freqs
           /\ f \in Tuning!Freqs => Tuning!ClampCenter(f) = f
           /\ Tuning!ClampTarget(f, c) \in Tuning!Freqs
  <1>1. \A g \in Int : Tuning!ClampCenter(g) \in Tuning!Freqs
                       /\ (g \in Tuning!Freqs => Tuning!ClampCenter(g) = g)
    <2>1. SUFFICES ASSUME NEW g \in Int
                   PROVE  /\ Tuning!Clamp(g, 0, MaxFreq) \in Tuning!Freqs
                          /\ g \in Tuning!Freqs => Tuning!Clamp(g, 0, MaxFreq) = g
      BY DEF Tuning!ClampCenter
    <2>2. MaxFreq \in Int /\ 0 \in Int /\ 0 <= MaxFreq
      BY DialFacts
    <2>3. QED
      BY <2>2, DialFacts, ClampIsBetween
  <1>2. c - Half \in Int /\ c + Half \in Int /\ Tuning!Max({c - Half, 0}) \in Int
    BY DialFacts, TwoNumbers
  <1>3. Tuning!Clamp(f, Tuning!Max({c - Half, 0}), c + Half) \in Int
    BY <1>2, ClampIsBetween
  <1>4. QED
    BY <1>1, <1>3 DEF Tuning!ClampTarget

\* A dial that is panned stays a dial; from a dial at rest on its LO, a step leaves the LO.
LEMMA PannedIsDial ==
    ASSUME shot \in Tuning!Dials, NEW delta \in {-1, 1}
    PROVE  /\ Tuning!Panned(delta) \in Tuning!Dials
           /\ shot.center = shot.target => Tuning!Panned(delta).center = shot.center
  <1>1. PICK u \in Tuning!Freqs, t \in Tuning!Freqs : shot.center = u /\ shot.target = t
    BY DEF Tuning!Dials
  <1>2. u \in Int /\ t \in Int /\ u >= 0 /\ t >= 0 /\ u <= MaxFreq /\ t <= MaxFreq
    BY <1>1, DialFacts
  <1>3. PICK g \in Int : g = t + delta
    BY <1>2
  <1> DEFINE want == Tuning!ClampCenter(g)
  <1>4. want \in Tuning!Freqs
    BY ClampedIsFreq
  <1>5. want = IF g > MaxFreq THEN MaxFreq ELSE IF g < 0 THEN 0 ELSE g
    <2> DEFINE a == Tuning!Min({g, MaxFreq})
    <2>1. MaxFreq \in Int /\ MaxFreq >= 0
      BY DialFacts
    <2>2. a = IF g <= MaxFreq THEN g ELSE MaxFreq
      BY <2>1, TwoNumbers
    <2> HIDE DEF a
    <2>3. Tuning!Max({a, 0}) = IF a >= 0 THEN a ELSE 0
      BY <2>1, <2>2, TwoNumbers
    <2>4. want = IF a >= 0 THEN a ELSE 0
      BY <2>3 DEF Tuning!ClampCenter, Tuning!Clamp, a
    <2> HIDE DEF want
    <2>5. QED
      BY <2>1, <2>2, <2>4
  <1> HIDE DEF want
  <1>6. PICK off \in Int : off = want - u
    BY <1>2, <1>4, DialFacts
  <1>7. u = t => off \in {-1, 0, 1}
    BY <1>2, <1>3, <1>5, <1>6, DialFacts
  <1> DEFINE c == IF off > Soft THEN Tuning!ClampCenter(u + off - Soft)
                  ELSE IF off < -Soft THEN Tuning!ClampCenter(u + off + Soft)
                  ELSE u
  <1>8. Tuning!Panned(delta) = [center |-> c, target |-> Tuning!ClampTarget(want, c)]
    BY <1>1, <1>3, <1>6 DEF Tuning!Panned, want
  <1>9. c \in Tuning!Freqs
    <2>1. PICK a \in Int, b \in Int : a = u + off - Soft /\ b = u + off + Soft
      BY <1>2, DialFacts
    <2>2. Tuning!ClampCenter(a) \in Tuning!Freqs /\ Tuning!ClampCenter(b) \in Tuning!Freqs
      BY ClampedIsFreq
    <2>3. c = IF off > Soft THEN Tuning!ClampCenter(a)
              ELSE IF off < -Soft THEN Tuning!ClampCenter(b) ELSE u
      BY <2>1
    <2> HIDE DEF c
    <2>4. QED
      BY <2>2, <2>3
  <1>10. u = t => c = u
    BY <1>7, DialFacts
  <1> HIDE DEF c
  <1>11. want \in Int /\ c \in Int
    BY <1>4, <1>9, DialFacts
  <1>12. Tuning!ClampTarget(want, c) \in Tuning!Freqs
    BY <1>11, ClampedIsFreq
  <1>13. QED
    BY <1>1, <1>8, <1>9, <1>10, <1>12 DEF Tuning!Dials

\* The messages of a dial, and what they tell.
LEMMA DialMessages ==
    ASSUME NEW d \in Tuning!Dials
    PROVE  /\ Tuning!Pair(d) \in Tuning!Messages
           /\ Tuning!TargetOnly(d) \in Tuning!Messages
           /\ Tuning!CenterOnly(d) \in Tuning!Messages
           /\ \A f \in Ends : Tuning!Pair(d) \in Says(f, d[f])
           /\ Tuning!TargetOnly(d) \in Says("target", d["target"])
           /\ Tuning!TargetOnly(d) \notin Tells("center")
           /\ Tuning!CenterOnly(d) \in Says("center", d["center"])
           /\ Tuning!CenterOnly(d) \notin Tells("target")
  <1>1. PICK c \in Tuning!Freqs, t \in Tuning!Freqs : d = [center |-> c, target |-> t]
    BY DEF Tuning!Dials
  <1>2. c # None /\ t # None
    BY DialFacts
  <1>3. QED
    BY <1>1, <1>2 DEF Tuning!Pair, Tuning!TargetOnly, Tuning!CenterOnly, Tuning!Messages,
                      Says, Tells, Ends

\* A message merges end by end.
LEMMA MergeEnds ==
    ASSUME NEW d \in Tuning!Dials, NEW m \in Tuning!Messages
    PROVE  /\ Tuning!Merge(d, m) \in Tuning!Dials
           /\ \A f \in Ends : Tuning!Merge(d, m)[f] = IF m[f] = None THEN d[f] ELSE m[f]
           /\ \A f \in Ends : d[f] \in Tuning!Freqs
  BY DEF Tuning!Merge, Tuning!Dials, Tuning!Messages, Ends

\* A frame of a drag keeps the types.
LEMMA PanTypes ==
    ASSUME Tuning!TypeOK, NEW delta \in {-1, 1}, NEW force \in BOOLEAN,
           Tuning!Pan(delta, force)
    PROVE  /\ dialUi' \in Tuning!Dials /\ {lastSent, lastOut}' \subseteq Tuning!Freqs
           /\ {open, held, strayed}' \subseteq BOOLEAN /\ dialUp' \in Seq(Tuning!Messages)
  <1>1. PICK d \in Tuning!Dials : d = Tuning!Panned(delta)
    BY PannedIsDial DEF Tuning!TypeOK
  <1>2. /\ dialUi' = d
        /\ open' = (open /\ ~(open \/ force)) /\ held' = ~(open \/ force)
        /\ lastSent' = IF open \/ force THEN d.center ELSE lastSent
        /\ dialUp' = IF ~(open \/ force) THEN dialUp
                     ELSE Append(dialUp, IF d.center # lastSent THEN Tuning!Pair(d)
                                         ELSE Tuning!TargetOnly(d))
        /\ IF (open \/ force) /\ d.center # lastSent THEN Tuning!Sends(d.center)
           ELSE Tuning!Keeps(d.center)
    BY <1>1 DEF Tuning!Pan, Tuning!NoteSent
  <1>3. d.center \in Tuning!Freqs
    BY DEF Tuning!Dials
  <1>4. dialUp' \in Seq(Tuning!Messages)
    BY <1>2, DialMessages DEF Tuning!TypeOK
  <1>5. lastOut' \in Tuning!Freqs
    BY <1>2, <1>3 DEF Tuning!Sends, Tuning!Keeps, Tuning!TypeOK
  <1>6. strayed' \in BOOLEAN
    BY <1>2 DEF Tuning!Sends, Tuning!Keeps
  <1>7. QED
    BY <1>2, <1>3, <1>4, <1>5, <1>6 DEF Tuning!TypeOK

\* A dial that was typed, clicked or stepped is a dial, and its messages are messages.
LEMMA DialTypes ==
    ASSUME Tuning!TypeOK, Tuning!Next
    PROVE  Tuning!TypeOK'
  <1>1. /\ {dialUi, shot, server, published} \subseteq Tuning!Dials
        /\ {lastSent, lastOut} \subseteq Tuning!Freqs /\ at \in 0..5
        /\ {open, held, drag, tx, strayed} \subseteq BOOLEAN
        /\ paths \in PathSets /\ fling \in {-1, 0, 1} /\ moves \in 0..MaxMoves
        /\ dialUp \in Seq(Tuning!Messages) /\ dialDown \in Seq(Tuning!Messages)
    BY DEF Tuning!TypeOK
  <1>2. /\ dialUi.center \in Tuning!Freqs /\ dialUi.target \in Tuning!Freqs
        /\ shot.center \in Tuning!Freqs /\ shot.target \in Tuning!Freqs
    BY <1>1 DEF Tuning!Dials
  <1>3. moves < MaxMoves => moves + 1 \in 0..MaxMoves
    BY <1>1, DialFacts
  <1>4. ASSUME NEW path, Tuning!Moves(path), NEW d \in Tuning!Dials, dialUi' = d,
               dialUp' \in Seq(Tuning!Messages), fling' \in {0, fling}, at' \in 0..5,
               open' \in BOOLEAN, held' \in BOOLEAN, strayed' \in BOOLEAN,
               lastSent' \in Tuning!Freqs, lastOut' \in Tuning!Freqs
        PROVE  Tuning!TypeOK'
    <2>1. moves' \in 0..MaxMoves
          /\ UNCHANGED <<paths, shot, drag, tx, server, published, dialDown>>
      BY <1>3, <1>4 DEF Tuning!Moves
    <2>2. QED
      BY <1>1, <1>4, <2>1 DEF Tuning!TypeOK
  <1>5. CASE Tuning!Relative
    <2>1. PICK delta \in {-1, 1} :
            LET dial == Tuning!Panned(delta) IN
              /\ dialUp' = dialUp \o Tuning!RelativeMsgs(dial)
              /\ dialUi' = dial
              /\ IF dial.center # shot.center THEN Tuning!Sends(dial.center)
                 ELSE Tuning!Keeps(dial.center)
      BY <1>5 DEF Tuning!Relative
    <2>2. PICK d \in Tuning!Dials : d = Tuning!Panned(delta)
      BY <1>1, PannedIsDial
    <2>3. Tuning!RelativeMsgs(d) \in Seq(Tuning!Messages)
      BY DialMessages DEF Tuning!RelativeMsgs
    <2>4. dialUp' \in Seq(Tuning!Messages)
      BY <1>1, <2>1, <2>2, <2>3, ConcatProperties
    <2>5. d.center \in Tuning!Freqs
      BY DEF Tuning!Dials
    <2>6. lastOut' \in Tuning!Freqs
      BY <1>1, <2>1, <2>2, <2>5 DEF Tuning!Sends, Tuning!Keeps
    <2>7. strayed' \in BOOLEAN
      BY <2>1 DEF Tuning!Sends, Tuning!Keeps
    <2>8. at' \in 0..5 /\ held' = FALSE /\ UNCHANGED <<lastSent, open>>
      BY <1>5 DEF Tuning!Relative, Tuning!Turn
    <2>9. Tuning!Moves("wheel") /\ fling' \in {0, fling}
      BY <1>5 DEF Tuning!Relative
    <2>10. QED
      BY <1>1, <1>4, <2>1, <2>2, <2>4, <2>6, <2>7, <2>8, <2>9
  <1>6. CASE Tuning!Click
    <2>1. PICK f \in Tuning!Freqs :
            /\ dialUi' = [dialUi EXCEPT !.target = Tuning!ClampTarget(f, shot.center)]
            /\ dialUp' = Append(dialUp, Tuning!TargetOnly(dialUi'))
      BY <1>6 DEF Tuning!Click
    <2>2. f \in Int /\ shot.center \in Int
      BY <1>2, DialFacts
    <2>3. Tuning!ClampTarget(f, shot.center) \in Tuning!Freqs
      BY <2>2, ClampedIsFreq
    <2>4. PICK d \in Tuning!Dials : d = dialUi'
      BY <1>1, <2>1, <2>3 DEF Tuning!Dials
    <2>5. dialUp' \in Seq(Tuning!Messages)
      BY <1>1, <2>1, <2>4, DialMessages
    <2>6. at' \in 0..5 /\ held' = FALSE /\ Tuning!Moves("click") /\ fling' = 0
          /\ UNCHANGED <<lastSent, open, lastOut, strayed>>
      BY <1>6 DEF Tuning!Click, Tuning!Turn
    <2>7. QED
      BY <1>1, <1>4, <2>4, <2>5, <2>6
  <1>7. CASE Tuning!CenterOnTarget
    <2>1. PICK d \in Tuning!Dials : d = dialUi'
      BY <1>1, <1>2, <1>7 DEF Tuning!CenterOnTarget, Tuning!Dials
    <2>2. dialUp' \in Seq(Tuning!Messages)
      BY <1>1, <1>7, <2>1, DialMessages DEF Tuning!CenterOnTarget
    <2>3. /\ at' \in 0..5 /\ held' = FALSE /\ Tuning!Moves("center") /\ fling' = 0
          /\ strayed' = FALSE /\ lastOut' \in Tuning!Freqs /\ UNCHANGED <<lastSent, open>>
      BY <1>2, <1>7 DEF Tuning!CenterOnTarget, Tuning!Turn, Tuning!Sends
    <2>4. QED
      BY <1>1, <1>4, <2>1, <2>2, <2>3
  <1>8. CASE Tuning!MoveLo
    <2>1. PICK f \in Tuning!Freqs :
            /\ dialUi' = [center |-> f,
                          target |-> Tuning!ClampTarget(shot.target + f - shot.center, f)]
            /\ Tuning!Sends(f)
      BY <1>8 DEF Tuning!MoveLo
    <2>2. PICK g \in Int : g = shot.target + f - shot.center
      BY <1>2, DialFacts
    <2>3. Tuning!ClampTarget(g, f) \in Tuning!Freqs
      <3>1. f \in Int
        BY DialFacts
      <3>2. QED
        BY <3>1, ClampedIsFreq
    <2>4. PICK d \in Tuning!Dials : d = dialUi'
      BY <2>1, <2>2, <2>3 DEF Tuning!Dials
    <2>5. dialUp' \in Seq(Tuning!Messages)
      BY <1>1, <1>8, <2>4, DialMessages DEF Tuning!MoveLo
    <2>6. /\ at' \in 0..5 /\ held' = FALSE /\ Tuning!Moves("lo")
          /\ strayed' = FALSE /\ lastOut' \in Tuning!Freqs
          /\ UNCHANGED <<fling, lastSent, open>>
      BY <1>8, <2>1 DEF Tuning!MoveLo, Tuning!Turn, Tuning!Sends
    <2>7. QED
      BY <1>1, <1>4, <2>4, <2>5, <2>6
  <1>9. CASE Tuning!Qsy
    <2>1. PICK f \in Tuning!Freqs : dialUi' = [center |-> f, target |-> f] /\ Tuning!Sends(f)
      BY <1>9 DEF Tuning!Qsy
    <2>2. PICK d \in Tuning!Dials : d = dialUi'
      BY <2>1 DEF Tuning!Dials
    <2>3. <<Tuning!CenterOnly(d), Tuning!TargetOnly(d)>> \in Seq(Tuning!Messages)
      BY DialMessages
    <2>4. dialUp' \in Seq(Tuning!Messages)
      BY <1>1, <1>9, <2>2, <2>3, ConcatProperties DEF Tuning!Qsy
    <2>5. /\ held' = FALSE /\ Tuning!Moves("qsy")
          /\ strayed' = FALSE /\ lastOut' \in Tuning!Freqs
          /\ UNCHANGED <<at, fling, lastSent, open>>
      BY <1>9, <2>1 DEF Tuning!Qsy, Tuning!Sends
    <2>6. QED
      BY <1>1, <1>4, <2>2, <2>4, <2>5
  <1>10. CASE Tuning!Arrow
    <2>1. PICK delta \in {-1, 1} :
            /\ dialUi' = [dialUi EXCEPT !.center = Tuning!ClampCenter(dialUi.center + delta)]
            /\ Tuning!Sends(dialUi'.center)
      BY <1>1, <1>10 DEF Tuning!Arrow
    <2>2. PICK g \in Int : g = dialUi.center + delta
      BY <1>2, DialFacts
    <2>3. Tuning!ClampCenter(g) \in Tuning!Freqs
      BY ClampedIsFreq
    <2>4. PICK d \in Tuning!Dials : d = dialUi'
      BY <1>1, <2>1, <2>2, <2>3 DEF Tuning!Dials
    <2>5. dialUp' \in Seq(Tuning!Messages)
      BY <1>1, <1>10, <2>4, DialMessages DEF Tuning!Arrow
    <2>6. /\ Tuning!Moves("arrow") /\ strayed' = FALSE /\ lastOut' = d.center
          /\ UNCHANGED <<at, held, fling, lastSent, open>>
      BY <1>10, <2>1, <2>4 DEF Tuning!Arrow, Tuning!Sends
    <2>7. d.center \in Tuning!Freqs
      BY DEF Tuning!Dials
    <2>8. QED
      BY <1>1, <1>4, <2>4, <2>5, <2>6, <2>7
  <1>11. CASE Tuning!OtherVfo
    BY <1>1, <1>4, <1>11 DEF Tuning!OtherVfo
  <1>12. CASE Tuning!DragFrame
    <2>1. PICK delta \in {-1, 1} : Tuning!Pan(delta, FALSE)
      BY <1>12 DEF Tuning!DragFrame
    <2>2. /\ drag' = TRUE /\ fling' = 0 /\ moves' \in 0..MaxMoves /\ at' \in 0..5
          /\ UNCHANGED <<paths, shot, tx, server, published, dialDown>>
      BY <1>3, <1>12 DEF Tuning!DragFrame, Tuning!Turn
    <2>3. QED
      BY <1>1, <2>1, <2>2, PanTypes DEF Tuning!TypeOK
  <1>13. CASE Tuning!Momentum
    <2>1. /\ fling # 0 /\ at' \in 0..5
          /\ UNCHANGED <<paths, shot, drag, tx, server, published, dialDown>>
      BY <1>13 DEF Tuning!Momentum, Tuning!Turn
    <2>2. CASE tx
      BY <1>1, <1>13, <2>1, <2>2 DEF Tuning!Momentum, Tuning!TypeOK
    <2>3. CASE ~tx
      <3>1. PICK stopping \in BOOLEAN :
              /\ stopping \/ moves < MaxMoves
              /\ Tuning!Pan(fling, stopping)
              /\ moves' = IF stopping THEN moves ELSE moves + 1
              /\ fling' = IF stopping \/ dialUi' = shot THEN 0 ELSE fling
        BY <1>13, <2>3 DEF Tuning!Momentum
      <3>2. PICK delta \in {-1, 1} : delta = fling
        BY <1>1, <2>1
      <3>3. /\ dialUi' \in Tuning!Dials /\ {lastSent, lastOut}' \subseteq Tuning!Freqs
            /\ {open, held, strayed}' \subseteq BOOLEAN /\ dialUp' \in Seq(Tuning!Messages)
        BY <3>1, <3>2, PanTypes
      <3>4. moves' \in 0..MaxMoves /\ fling' \in {-1, 0, 1}
        BY <1>1, <1>3, <3>1
      <3>5. QED
        BY <1>1, <2>1, <3>3, <3>4 DEF Tuning!TypeOK
    <2>4. QED
      BY <2>2, <2>3
  <1>14. CASE Tuning!Look \/ Tuning!Release \/ Tuning!Tick \/ Tuning!Transmit
    <2>1. CASE Tuning!Look
      BY <1>1, <2>1 DEF Tuning!Look, Tuning!TypeOK
    <2>2. CASE Tuning!Release
      <3>1. fling' \in {-1, 0, 1} /\ drag' \in BOOLEAN /\ at' \in 0..5
        <4>1. fling' \in {-1, 0, 1}
          BY <1>1, <2>2 DEF Tuning!Release
        <4>2. drag' \in BOOLEAN /\ at' = 5
          BY <2>2 DEF Tuning!Release
        <4>3. QED
          BY <4>1, <4>2
      <3>2. UNCHANGED <<paths, dialUi, shot, lastSent, open, held, tx, dialUp, server,
                        published, dialDown, moves, lastOut, strayed>>
        BY <2>2 DEF Tuning!Release
      <3>3. QED
        BY <1>1, <3>1, <3>2 DEF Tuning!TypeOK
    <2>3. CASE Tuning!Tick
      BY <1>1, <2>3 DEF Tuning!Tick, Tuning!TypeOK
    <2>4. CASE Tuning!Transmit
      <3>1. tx' \in BOOLEAN
        BY <2>4 DEF Tuning!Transmit
      <3>2. QED
        BY <1>1, <2>4, <3>1 DEF Tuning!Transmit, Tuning!TypeOK
    <2>5. QED
      BY <1>14, <2>1, <2>2, <2>3, <2>4
  <1>15. CASE Tuning!Serve
    <2>1. /\ dialUp # <<>> /\ server' = Tuning!Merge(server, Head(dialUp))
          /\ dialUp' = Tail(dialUp)
          /\ UNCHANGED <<paths, dialUi, shot, at, lastSent, open, held, drag, fling, tx,
                         published, dialDown, moves, lastOut, strayed>>
      BY <1>15 DEF Tuning!Serve
    <2>2. PICK m \in Tuning!Messages : m = Head(dialUp)
      BY <1>1, <2>1, HeadTailProperties
    <2>3. server' \in Tuning!Dials /\ dialUp' \in Seq(Tuning!Messages)
      BY <1>1, <2>1, <2>2, MergeEnds, HeadTailProperties
    <2>4. QED
      BY <1>1, <2>1, <2>3 DEF Tuning!TypeOK
  <1>16. CASE Tuning!Publish
    <2>1. dialDown' \in Seq(Tuning!Messages) /\ published' = server
      BY <1>1, <1>16 DEF Tuning!Publish, Tuning!Dials, Tuning!Messages
    <2>2. QED
      BY <1>1, <1>16, <2>1 DEF Tuning!Publish, Tuning!TypeOK
  <1>17. CASE Tuning!Receive
    <2>1. dialDown # <<>> /\ dialUi' = Tuning!Merge(dialUi, Head(dialDown))
          /\ dialDown' = Tail(dialDown)
          /\ UNCHANGED <<paths, shot, at, lastSent, open, held, drag, fling, tx, dialUp, server,
                         published, moves, lastOut>>
      BY <1>17 DEF Tuning!Receive
    <2>2. PICK m \in Tuning!Messages : m = Head(dialDown)
      BY <1>1, <2>1, HeadTailProperties
    <2>3. dialUi' \in Tuning!Dials /\ dialDown' \in Seq(Tuning!Messages)
      BY <1>1, <2>1, <2>2, MergeEnds, HeadTailProperties
    <2>4. strayed' \in BOOLEAN
      BY <1>17 DEF Tuning!Receive
    <2>5. QED
      BY <1>1, <2>1, <2>3, <2>4 DEF Tuning!TypeOK
  <1>18. QED
    BY <1>5, <1>6, <1>7, <1>8, <1>9, <1>10, <1>11, <1>12, <1>13, <1>14, <1>15, <1>16, <1>17
    DEF Tuning!Next

\* An end of the dial was just sent as it is shown, or what was under way for it still is.
SentNow(f) == Lands(dialUp', Tells(f), Says(f, dialUi'[f]), server[f], dialUi'[f])
Passes(f) == \A v : Tuned(f, v) => Lands(dialUp', Tells(f), Says(f, v), server[f], v)

\* What a move does to the target, and to the centre.
TargetMoved ==
    \/ held'
    \/ SentNow("target")
    \/ ~held /\ dialUi'["target"] = dialUi["target"] /\ Passes("target")
CenterMoved ==
    \/ lastOut' = dialUi'["center"] /\ SentNow("center")
    \/ /\ lastOut' = lastOut /\ Passes("center")
       /\ \/ strayed'
          \/ dialUi'["center"] = lastOut
          \/ ~strayed /\ dialUi'["center"] = dialUi["center"]

\* An end just set by the client: what it shows, or what is still to come.
LEMMA SetShows ==
    ASSUME EchoesPublished, NEW f \in Ends, NEW v
    PROVE  \/ Lands(dialDown, Tells(f), Says(f, published[f]), v, published[f])
           \/ Lands(dialDown, Tells(f), Says(f, v), v, v)
  <1>1. Lands(dialDown, Tells(f), Says(f, published[f]), published[f], published[f])
    BY DEF EchoesPublished
  <1>2. QED
    BY <1>1 DEF Lands

\* Then what will be shown is what will be tuned, or was when it was last published.
LEMMA MovedShown ==
    ASSUME DialInv, UNCHANGED <<server, published, dialDown>>, dialUi' \in Tuning!Dials,
           TargetMoved, CenterMoved
    PROVE  EchoesPublished' /\ TargetShown' /\ CenterTuned' /\ CenterShown'
  <1>1. EchoesPublished /\ EchoesPublished'
    BY DEF DialInv, DialKept, EchoesPublished
  <1>2. TargetShown'
    <2>1. SUFFICES ASSUME ~held'
                   PROVE  \E v \in Tuning!Freqs :
                            /\ Lands(dialUp', Tells("target"), Says("target", v),
                                     server["target"], v)
                            /\ \/ Lands(dialDown, Tells("target"),
                                        Says("target", published["target"]),
                                        dialUi'["target"], published["target"])
                               \/ Lands(dialDown, Tells("target"), Says("target", v),
                                        dialUi'["target"], v)
      BY DEF TargetShown, Tuned, Displays, Showing
    <2>2. CASE SentNow("target")
      <3>1. PICK v \in Tuning!Freqs : v = dialUi'["target"]
        BY DEF Tuning!Dials
      <3>2. \/ Lands(dialDown, Tells("target"), Says("target", published["target"]), v,
                     published["target"])
            \/ Lands(dialDown, Tells("target"), Says("target", v), v, v)
        BY <1>1, SetShows DEF Ends
      <3>3. QED
        BY <2>2, <3>1, <3>2 DEF SentNow
    <2>3. CASE ~held /\ dialUi'["target"] = dialUi["target"] /\ Passes("target")
      <3>1. PICK v \in Tuning!Freqs : Tuned("target", v) /\ Displays("target", v)
        BY <2>3 DEF DialInv, DialKept, TargetShown
      <3>2. QED
        BY <2>3, <3>1 DEF Passes, Displays, Showing
    <2>4. QED
      BY <2>1, <2>2, <2>3 DEF TargetMoved
  <1>3. PICK v : v = lastOut'
    OBVIOUS
  <1>4. Lands(dialUp', Tells("center"), Says("center", v), server["center"], v)
    BY <1>3 DEF CenterMoved, SentNow, Passes, DialInv, DialKept, CenterTuned
  <1>5. ASSUME ~strayed'
        PROVE  \/ Lands(dialDown, Tells("center"), Says("center", published["center"]),
                        dialUi'["center"], published["center"])
               \/ Lands(dialDown, Tells("center"), Says("center", v), dialUi'["center"], v)
    <2>1. CASE dialUi'["center"] = v
      BY <1>1, <2>1, SetShows DEF Ends
    <2>2. CASE v = lastOut /\ ~strayed /\ dialUi'["center"] = dialUi["center"]
      BY <2>2 DEF DialInv, DialKept, CenterShown, Displays, Showing
    <2>3. QED
      BY <1>3, <1>5, <2>1, <2>2 DEF CenterMoved
  <1>6. CenterTuned' /\ CenterShown'
    BY <1>3, <1>4, <1>5 DEF CenterTuned, CenterShown, Tuned, Displays, Showing
  <1>7. QED
    BY <1>1, <1>2, <1>6

\* A message just sent, for either end.
LEMMA SentOne ==
    ASSUME Tuning!TypeOK, NEW m \in Tuning!Messages, dialUp' = Append(dialUp, m),
           NEW f \in Ends
    PROVE  /\ \A v, d : m \in Says(f, v) => Lands(dialUp', Tells(f), Says(f, v), d, v)
           /\ m \notin Tells(f) => Passes(f)
  BY LandsAppendThis, LandsAppendOther DEF Tuned, Passes, Tuning!TypeOK

\* The messages of the dial shown: both ends, or the target alone.
LEMMA SentDial ==
    ASSUME Tuning!TypeOK, NEW d \in Tuning!Dials, dialUi' = d
    PROVE  /\ dialUp' = Append(dialUp, Tuning!Pair(d)) => \A f \in Ends : SentNow(f)
           /\ dialUp' = Append(dialUp, Tuning!TargetOnly(d)) =>
                SentNow("target") /\ Passes("center")
           /\ dialUp' = Append(dialUp, Tuning!CenterOnly(d)) =>
                SentNow("center") /\ Passes("target")
           /\ dialUp' = dialUp => \A f \in Ends : Passes(f)
  <1>1. ASSUME NEW f \in Ends, dialUp' = Append(dialUp, Tuning!Pair(d))
        PROVE  SentNow(f)
    BY <1>1, DialMessages, SentOne DEF SentNow
  <1>2. ASSUME dialUp' = Append(dialUp, Tuning!TargetOnly(d))
        PROVE  SentNow("target") /\ Passes("center")
    BY <1>2, DialMessages, SentOne DEF SentNow, Ends
  <1>3. ASSUME dialUp' = Append(dialUp, Tuning!CenterOnly(d))
        PROVE  SentNow("center") /\ Passes("target")
    BY <1>3, DialMessages, SentOne DEF SentNow, Ends
  <1>4. ASSUME NEW f \in Ends, dialUp' = dialUp
        PROVE  Passes(f)
    BY <1>4 DEF Passes, Tuned
  <1>5. QED
    BY <1>1, <1>2, <1>3, <1>4

\* A typed frequency is sent in two messages.
LEMMA SentQsy ==
    ASSUME Tuning!TypeOK, NEW d \in Tuning!Dials, dialUi' = d,
           dialUp' = dialUp \o <<Tuning!CenterOnly(d), Tuning!TargetOnly(d)>>
    PROVE  SentNow("center") /\ SentNow("target")
  <1> DEFINE r == <<Tuning!CenterOnly(d), Tuning!TargetOnly(d)>>
  <1>1. dialUp' = dialUp \o r
    OBVIOUS
  <1>2. /\ r \in Seq(Tuning!Messages) /\ Len(r) = 2
        /\ r[1] \in Says("center", d["center"]) /\ r[2] \in Says("target", d["target"])
        /\ r[2] \notin Tells("center")
    BY DialMessages
  <1> HIDE DEF r
  <1>3. SentNow("center")
    <2>1. 1 \in 1..Len(r) /\ \A j \in 1+1..Len(r) : r[j] \notin Tells("center")
      BY <1>2
    <2>2. Lands(dialUp', Tells("center"), Says("center", d["center"]), server["center"],
                d["center"])
      BY <1>1, <1>2, <2>1, LandsConcatThis DEF Tuning!TypeOK
    <2>3. QED
      BY <2>2 DEF SentNow
  <1>4. SentNow("target")
    <2>1. 2 \in 1..Len(r) /\ \A j \in 2+1..Len(r) : r[j] \notin Tells("target")
      BY <1>2
    <2>2. Lands(dialUp', Tells("target"), Says("target", d["target"]), server["target"],
                d["target"])
      BY <1>1, <1>2, <2>1, LandsConcatThis DEF Tuning!TypeOK
    <2>3. QED
      BY <2>2 DEF SentNow
  <1>5. QED
    BY <1>3, <1>4

\* The controls beside the drag: what each sends, and what it leaves unsent.
LEMMA KeyedMoves ==
    ASSUME DialInv, Tuning!TypeOK',
           \/ Tuning!Relative \/ Tuning!Click \/ Tuning!CenterOnTarget \/ Tuning!MoveLo
           \/ Tuning!Qsy \/ Tuning!Arrow \/ Tuning!OtherVfo
    PROVE  /\ TargetMoved /\ CenterMoved
           /\ "wheel" \in paths \/ (strayed' => strayed)
  <1>1. Tuning!TypeOK
    BY DEF DialInv
  <1>2. PICK d \in Tuning!Dials : d = dialUi'
    BY DEF Tuning!TypeOK
  <1>3. d["center"] = d.center /\ dialUi["center"] = dialUi.center
    OBVIOUS
  <1>4. CASE Tuning!Relative
    <2>1. PICK delta \in {-1, 1} :
            LET dial == Tuning!Panned(delta) IN
              /\ dialUp' = dialUp \o Tuning!RelativeMsgs(dial)
              /\ dialUi' = dial
              /\ IF dial.center # shot.center THEN Tuning!Sends(dial.center)
                 ELSE Tuning!Keeps(dial.center)
      BY <1>4 DEF Tuning!Relative
    <2>2. /\ dialUp' = dialUp \o Tuning!RelativeMsgs(d)
          /\ IF d.center # shot.center THEN Tuning!Sends(d.center) ELSE Tuning!Keeps(d.center)
      BY <1>2, <2>1
    <2>3. "wheel" \in paths
      BY <1>4 DEF Tuning!Relative, Tuning!Moves
    <2>4. CASE d.center # shot.center
      <3>1. dialUp' = Append(dialUp, Tuning!Pair(d))
        BY <1>1, <2>2, <2>4, DialMessages DEF Tuning!RelativeMsgs, Tuning!TypeOK
      <3>2. \A f \in Ends : SentNow(f)
        BY <1>1, <1>2, <3>1, SentDial
      <3>3. lastOut' = dialUi'["center"]
        BY <1>2, <1>3, <2>2, <2>4 DEF Tuning!Sends
      <3>4. QED
        BY <2>3, <3>2, <3>3 DEF TargetMoved, CenterMoved, Ends
    <2>5. CASE d.center = shot.center
      <3>1. dialUp' = Append(dialUp, Tuning!TargetOnly(d))
        BY <1>1, <2>2, <2>5, DialMessages DEF Tuning!RelativeMsgs, Tuning!TypeOK
      <3>2. SentNow("target") /\ Passes("center")
        BY <1>1, <1>2, <3>1, SentDial
      <3>3. Tuning!Keeps(d.center)
        BY <2>2, <2>5
      <3>4. CenterMoved
        BY <1>2, <1>3, <3>2, <3>3 DEF CenterMoved, Tuning!Keeps
      <3>5. QED
        BY <2>3, <3>2, <3>4 DEF TargetMoved
    <2>6. QED
      BY <2>4, <2>5
  <1>5. CASE Tuning!Click
    <2>1. /\ dialUi'["center"] = dialUi["center"] /\ UNCHANGED <<lastOut, strayed>>
          /\ dialUp' = Append(dialUp, Tuning!TargetOnly(d))
      BY <1>1, <1>2, <1>5 DEF Tuning!Click, Tuning!TypeOK, Tuning!Dials
    <2>2. SentNow("target") /\ Passes("center")
      BY <1>1, <1>2, <2>1, SentDial
    <2>3. QED
      BY <2>1, <2>2 DEF TargetMoved, CenterMoved
  <1>6. CASE Tuning!CenterOnTarget \/ Tuning!MoveLo
    <2>1. dialUp' = Append(dialUp, Tuning!Pair(d)) /\ lastOut' = dialUi'["center"] /\ ~strayed'
      BY <1>2, <1>6 DEF Tuning!CenterOnTarget, Tuning!MoveLo, Tuning!Sends
    <2>2. \A f \in Ends : SentNow(f)
      BY <1>1, <1>2, <2>1, SentDial
    <2>3. QED
      BY <2>1, <2>2 DEF TargetMoved, CenterMoved, Ends
  <1>7. CASE Tuning!Qsy
    <2>1. /\ dialUp' = dialUp \o <<Tuning!CenterOnly(d), Tuning!TargetOnly(d)>>
          /\ lastOut' = dialUi'["center"] /\ ~strayed'
      BY <1>2, <1>7 DEF Tuning!Qsy, Tuning!Sends
    <2>2. SentNow("center") /\ SentNow("target")
      BY <1>1, <1>2, <2>1, SentQsy
    <2>3. QED
      BY <2>1, <2>2 DEF TargetMoved, CenterMoved
  <1>8. CASE Tuning!Arrow
    <2>1. /\ dialUi'["target"] = dialUi["target"] /\ held' = held
          /\ dialUp' = Append(dialUp, Tuning!CenterOnly(d))
          /\ lastOut' = dialUi'["center"] /\ ~strayed'
      BY <1>1, <1>2, <1>8 DEF Tuning!Arrow, Tuning!Sends, Tuning!TypeOK, Tuning!Dials
    <2>2. SentNow("center") /\ Passes("target")
      BY <1>1, <1>2, <2>1, SentDial
    <2>3. QED
      BY <2>1, <2>2 DEF TargetMoved, CenterMoved
  <1>9. CASE Tuning!OtherVfo
    <2>1. UNCHANGED <<dialUi, held, dialUp, lastOut, strayed>>
      BY <1>9 DEF Tuning!OtherVfo
    <2>2. Passes("center") /\ Passes("target")
      BY <2>1 DEF Passes, Tuned
    <2>3. QED
      BY <2>1, <2>2 DEF TargetMoved, CenterMoved
  <1>10. QED
    BY <1>4, <1>5, <1>6, <1>7, <1>8, <1>9

\* Those keep the invariant.
LEMMA KeyedStep ==
    ASSUME DialInv, Tuning!TypeOK',
           \/ Tuning!Relative \/ Tuning!Click \/ Tuning!CenterOnTarget \/ Tuning!MoveLo
           \/ Tuning!Qsy \/ Tuning!Arrow \/ Tuning!OtherVfo
    PROVE  DialKept'
  <1>1. PICK path \in {"wheel", "click", "center", "lo", "qsy", "arrow", "other"} :
          Tuning!Moves(path) /\ fling' \in {0, fling}
    BY DEF Tuning!Relative, Tuning!Click, Tuning!CenterOnTarget, Tuning!MoveLo, Tuning!Qsy,
           Tuning!Arrow, Tuning!OtherVfo
  <1>2. path \in paths /\ UNCHANGED <<paths, drag, server, published, dialDown>>
    BY <1>1 DEF Tuning!Moves
  <1>3. /\ TargetMoved /\ CenterMoved
        /\ "wheel" \in paths \/ (strayed' => strayed)
    BY KeyedMoves
  <1>4. EchoesPublished' /\ TargetShown' /\ CenterTuned' /\ CenterShown'
    <2>1. dialUi' \in Tuning!Dials
      BY DEF Tuning!TypeOK
    <2>2. QED
      BY <1>2, <1>3, <2>1, MovedShown
  <1>5. DragSent'
    BY <1>1, <1>2 DEF DragSent
  <1>6. Guiltless'
    BY <1>2, <1>3 DEF Guiltless, DialInv, DialKept
  <1>7. ("drag" \notin paths => ~drag /\ fling = 0)'
    BY <1>1, <1>2 DEF DialInv, DialKept
  <1>8. QED
    BY <1>4, <1>5, <1>6, <1>7 DEF DialKept

\* A frame of a drag, sent or not.
LEMMA PanStep ==
    ASSUME DialInv, NEW delta \in {-1, 1}, NEW force \in BOOLEAN,
           Tuning!Pan(delta, force), "drag" \in paths,
           UNCHANGED <<paths, shot, server, published, dialDown>>
    PROVE  DialKept'
  <1>1. Tuning!TypeOK
    BY DEF DialInv
  <1>2. PICK d \in Tuning!Dials : d = Tuning!Panned(delta)
    BY <1>1, PannedIsDial DEF Tuning!TypeOK
  <1>3. /\ dialUi' = d /\ held' = ~(open \/ force)
        /\ lastSent' = IF open \/ force THEN d.center ELSE lastSent
        /\ dialUp' = IF ~(open \/ force) THEN dialUp
                     ELSE Append(dialUp, IF d.center # lastSent THEN Tuning!Pair(d)
                                         ELSE Tuning!TargetOnly(d))
        /\ IF (open \/ force) /\ d.center # lastSent THEN Tuning!Sends(d.center)
           ELSE Tuning!Keeps(d.center)
    BY <1>2 DEF Tuning!Pan, Tuning!NoteSent
  <1>4. d["center"] = d.center /\ dialUi["center"] = dialUi.center /\ dialUi' = d
    BY <1>3
  <1>5. TargetMoved /\ CenterMoved
    <2>1. CASE ~(open \/ force)
      <3>1. held' /\ dialUp' = dialUp /\ Tuning!Keeps(d.center)
        BY <1>3, <2>1
      <3>2. Passes("center")
        BY <3>1 DEF Passes, Tuned
      <3>3. QED
        BY <1>4, <3>1, <3>2 DEF TargetMoved, CenterMoved, Tuning!Keeps
    <2>2. CASE (open \/ force) /\ d.center # lastSent
      <3>1. dialUp' = Append(dialUp, Tuning!Pair(d)) /\ Tuning!Sends(d.center)
        BY <1>3, <2>2
      <3>2. \A f \in Ends : SentNow(f)
        BY <1>1, <1>4, <3>1, SentDial
      <3>3. QED
        BY <1>4, <3>1, <3>2 DEF TargetMoved, CenterMoved, Tuning!Sends, Ends
    <2>3. CASE (open \/ force) /\ d.center = lastSent
      <3>1. dialUp' = Append(dialUp, Tuning!TargetOnly(d)) /\ Tuning!Keeps(d.center)
        BY <1>3, <2>3
      <3>2. SentNow("target") /\ Passes("center")
        BY <1>1, <1>4, <3>1, SentDial
      <3>3. QED
        BY <1>4, <3>1, <3>2 DEF TargetMoved, CenterMoved, Tuning!Keeps
    <2>4. QED
      BY <2>1, <2>2, <2>3
  <1>6. EchoesPublished' /\ TargetShown' /\ CenterTuned' /\ CenterShown'
    BY <1>4, <1>5, MovedShown
  <1>7. DragSent'
    <2>1. SUFFICES ASSUME paths = {"drag"}
                   PROVE  lastSent' = lastOut' /\ (strayed' => held')
      BY DEF DragSent
    <2>2. (Untouched \/ lastSent = lastOut) /\ (strayed => held)
      BY <2>1 DEF DialInv, DialKept, DragSent
    <2>3. CASE ~(open \/ force)
      <3>1. lastSent = lastOut
        BY <2>2, <2>3 DEF Untouched
      <3>2. QED
        BY <1>3, <2>3, <3>1 DEF Tuning!Keeps
    <2>4. CASE (open \/ force) /\ d.center # lastSent
      BY <1>3, <2>4 DEF Tuning!Sends
    <2>5. CASE (open \/ force) /\ d.center = lastSent
      <3>1. d.center = lastOut
        <4>1. CASE Untouched
          <5>1. shot.center = shot.target /\ shot.center = lastOut
            BY <4>1 DEF Untouched
          <5>2. QED
            BY <1>1, <1>2, <5>1, PannedIsDial DEF Tuning!TypeOK
        <4>2. QED
          BY <2>2, <2>5, <4>1
      <3>2. QED
        BY <1>3, <2>5, <3>1 DEF Tuning!Keeps
    <2>6. QED
      BY <2>3, <2>4, <2>5
  <1>8. Guiltless' /\ ("drag" \notin paths => ~drag /\ fling = 0)'
    BY DEF Guiltless
  <1>9. QED
    BY <1>6, <1>7, <1>8 DEF DialKept

\* What the drag and its momentum do, and a frame that begins.
LEMMA DraggedStep ==
    ASSUME DialInv,
           \/ Tuning!DragFrame \/ Tuning!Release \/ Tuning!Momentum \/ Tuning!Tick
           \/ Tuning!Transmit \/ Tuning!Look
    PROVE  DialKept'
  <1>1. ASSUME UNCHANGED <<paths, dialUi, lastSent, held, dialUp, server, published, dialDown,
                           lastOut, strayed>>,
               open => open', open' \in BOOLEAN, shot' = shot \/ shot' = dialUi,
               ("drag" \notin paths => ~drag /\ fling = 0)'
        PROVE  DialKept'
    <2>1. Untouched => Untouched'
      BY <1>1 DEF Untouched
    <2>2. DragSent'
      BY <1>1, <2>1 DEF DialInv, DialKept, DragSent
    <2>3. EchoesPublished' /\ TargetShown' /\ CenterTuned' /\ CenterShown' /\ Guiltless'
      BY <1>1 DEF DialInv, DialKept, EchoesPublished, TargetShown, CenterTuned, CenterShown,
                  Guiltless, Tuned, Displays, Showing
    <2>4. QED
      BY <1>1, <2>2, <2>3 DEF DialKept
  <1>2. CASE Tuning!DragFrame
    <2>1. PICK delta \in {-1, 1} : Tuning!Pan(delta, FALSE)
      BY <1>2 DEF Tuning!DragFrame
    <2>2. QED
      BY <1>2, <2>1, PanStep DEF Tuning!DragFrame
  <1>3. CASE Tuning!Momentum
    <2>1. /\ fling # 0 /\ "drag" \in paths
          /\ UNCHANGED <<paths, shot, drag, tx, server, published, dialDown>>
      BY <1>3 DEF Tuning!Momentum, DialInv, DialKept
    <2>2. CASE tx
      <3>1. UNCHANGED <<dialUi, lastSent, open, held, dialUp, lastOut, strayed>>
        BY <1>3, <2>2 DEF Tuning!Momentum
      <3>2. open \in BOOLEAN
        BY DEF DialInv, Tuning!TypeOK
      <3>3. QED
        BY <1>1, <2>1, <3>1, <3>2
    <2>3. CASE ~tx
      <3>1. PICK stopping \in BOOLEAN : Tuning!Pan(fling, stopping)
        BY <1>3, <2>3 DEF Tuning!Momentum
      <3>2. PICK delta \in {-1, 1} : delta = fling
        BY <2>1 DEF DialInv, Tuning!TypeOK
      <3>3. QED
        BY <2>1, <3>1, <3>2, PanStep
    <2>4. QED
      BY <2>2, <2>3
  <1>4. CASE Tuning!Release
    <2>1. "drag" \in paths
      BY <1>4 DEF Tuning!Release, DialInv, DialKept
    <2>2. UNCHANGED <<paths, dialUi, shot, lastSent, open, held, dialUp, server, published,
                      dialDown, lastOut, strayed>>
      BY <1>4 DEF Tuning!Release
    <2>3. open \in BOOLEAN
      BY DEF DialInv, Tuning!TypeOK
    <2>4. QED
      BY <1>1, <2>1, <2>2, <2>3
  <1>5. CASE Tuning!Tick
    <2>1. /\ UNCHANGED <<paths, dialUi, shot, lastSent, held, drag, fling, dialUp, server,
                         published, dialDown, lastOut, strayed>>
          /\ open' = TRUE
      BY <1>5 DEF Tuning!Tick
    <2>2. ("drag" \notin paths => ~drag /\ fling = 0)'
      BY <2>1 DEF DialInv, DialKept
    <2>3. QED
      BY <1>1, <2>1, <2>2
  <1>6. CASE Tuning!Transmit \/ Tuning!Look
    <2>1. /\ UNCHANGED <<paths, dialUi, lastSent, open, held, drag, fling, dialUp, server,
                         published, dialDown, lastOut, strayed>>
          /\ shot' = shot \/ shot' = dialUi
      BY <1>6 DEF Tuning!Transmit, Tuning!Look
    <2>2. open \in BOOLEAN
      BY DEF DialInv, Tuning!TypeOK
    <2>3. ("drag" \notin paths => ~drag /\ fling = 0)'
      BY <2>1 DEF DialInv, DialKept
    <2>4. QED
      BY <1>1, <2>1, <2>2, <2>3
  <1>7. QED
    BY <1>2, <1>3, <1>4, <1>5, <1>6

\* Before the first move.
LEMMA DialInitInv == Tuning!Init => DialInv
  <1> SUFFICES ASSUME Tuning!Init
               PROVE  DialInv
    OBVIOUS
  <1>1. PICK u \in Tuning!Freqs : dialUi = [center |-> u, target |-> u]
    BY DEF Tuning!Init
  <1>2. /\ dialUi \in Tuning!Dials /\ server = dialUi /\ published = dialUi /\ shot = dialUi
        /\ dialUp = <<>> /\ dialDown = <<>> /\ lastSent = 0 /\ open = TRUE
        /\ held = FALSE /\ drag = FALSE /\ fling = 0
        /\ lastOut = u /\ strayed = FALSE
        /\ dialUi["center"] = u /\ dialUi["target"] = u /\ dialUi.center = u
    BY <1>1 DEF Tuning!Init, Tuning!Dials
  <1>3. Tuning!TypeOK
    <2>1. /\ tx = FALSE /\ moves \in 0..MaxMoves /\ 0 \in Tuning!Freqs /\ paths \in PathSets
          /\ at \in 0..5
      BY DialFacts DEF Tuning!Init
    <2>2. dialUp \in Seq(Tuning!Messages) /\ dialDown \in Seq(Tuning!Messages)
      BY <1>2
    <2>3. QED
      BY <1>2, <2>1, <2>2 DEF Tuning!TypeOK
  <1>4. EchoesPublished
    BY <1>2, LandsEmpty DEF EchoesPublished
  <1>5. Untouched
    BY <1>1, <1>2 DEF Untouched
  <1>6. \A f \in Ends : Tuned(f, u) /\ Displays(f, u)
    BY <1>2, LandsEmpty DEF Tuned, Displays, Showing, Ends
  <1>7. TargetShown /\ CenterTuned /\ CenterShown
    BY <1>2, <1>6 DEF TargetShown, CenterTuned, CenterShown, Ends
  <1>8. QED
    BY <1>2, <1>3, <1>4, <1>5, <1>7 DEF DialInv, DialKept, DragSent, Guiltless

\* A message is taken, a status published, an echo received: what each does to the ends.
LEMMA ServedEnds ==
    ASSUME DialInv, Tuning!Serve \/ Tuning!Publish \/ Tuning!Receive, NEW f \in Ends, NEW v,
           Tuned(f, v)
    PROVE  /\ Lands(dialUp', Tells(f), Says(f, v), server'[f], v)
           /\ Displays(f, v) =>
                \/ Lands(dialDown', Tells(f), Says(f, published'[f]), dialUi'[f], published'[f])
                \/ Lands(dialDown', Tells(f), Says(f, v), dialUi'[f], v)
  <1>1. /\ {dialUi, server, published} \subseteq Tuning!Dials
        /\ dialUp \in Seq(Tuning!Messages) /\ dialDown \in Seq(Tuning!Messages)
    BY DEF DialInv, Tuning!TypeOK
  <1>2. CASE Tuning!Serve
    <2>1. /\ dialUp # <<>> /\ server' = Tuning!Merge(server, Head(dialUp))
          /\ dialUp' = Tail(dialUp) /\ UNCHANGED <<dialUi, published, dialDown>>
      BY <1>2 DEF Tuning!Serve
    <2>2. PICK m \in Tuning!Messages : m = Head(dialUp)
      BY <1>1, <2>1, HeadTailProperties
    <2>3. server'[f] = IF m[f] = None THEN server[f] ELSE m[f]
      BY <1>1, <2>1, <2>2, MergeEnds
    <2>4. m \notin Tells(f) => server'[f] = server[f]
      BY <2>3 DEF Tells
    <2>5. m \in Says(f, v) => server'[f] = v
      BY <2>3 DEF Tells, Says
    <2>6. Lands(dialUp, Tells(f), Says(f, v), server[f], v)
      BY DEF Tuned
    <2>7. Lands(dialUp', Tells(f), Says(f, v), server'[f], v)
      BY <1>1, <2>1, <2>2, <2>4, <2>5, <2>6, LandsTail
    <2>8. QED
      BY <2>1, <2>7 DEF Displays, Showing
  <1>3. CASE Tuning!Publish
    <2> DEFINE m == [center |-> IF server.center = published.center THEN None ELSE server.center,
                     target |-> IF server.target = published.target THEN None ELSE server.target]
    <2>1. /\ published' = server /\ dialDown' = Append(dialDown, m)
          /\ UNCHANGED <<dialUi, dialUp, server>>
      BY <1>3 DEF Tuning!Publish
    <2>2. m \in Tuning!Messages
          /\ m[f] = (IF server[f] = published[f] THEN None ELSE server[f])
          /\ server[f] # None
      BY <1>1, DialFacts DEF Tuning!Messages, Tuning!Dials, Ends
    <2> HIDE DEF m
    <2>3. PICK p : p = server[f]
      OBVIOUS
    <2>4. CASE p = published[f]
      <3>1. m \notin Tells(f)
        BY <2>2, <2>3, <2>4 DEF Tells
      <3>2. ASSUME NEW w, Lands(dialDown, Tells(f), Says(f, w), dialUi[f], w)
            PROVE  Lands(dialDown', Tells(f), Says(f, w), dialUi[f], w)
        BY <1>1, <2>1, <2>2, <3>1, <3>2, LandsAppendOther
      <3>3. QED
        BY <2>1, <2>3, <2>4, <3>2 DEF Tuned, Displays, Showing
    <2>5. CASE p # published[f]
      <3>1. m \in Says(f, p)
        BY <2>2, <2>3, <2>5 DEF Says, Tells
      <3>2. Lands(dialDown', Tells(f), Says(f, p), dialUi[f], p)
        BY <1>1, <2>1, <2>2, <3>1, LandsAppendThis
      <3>3. QED
        BY <2>1, <2>3, <3>2 DEF Tuned
    <2>6. QED
      BY <2>4, <2>5
  <1>4. CASE Tuning!Receive
    <2>1. /\ dialDown # <<>> /\ dialUi' = Tuning!Merge(dialUi, Head(dialDown))
          /\ dialDown' = Tail(dialDown) /\ UNCHANGED <<dialUp, server, published>>
      BY <1>4 DEF Tuning!Receive
    <2>2. PICK m \in Tuning!Messages : m = Head(dialDown)
      BY <1>1, <2>1, HeadTailProperties
    <2>3. dialUi'[f] = IF m[f] = None THEN dialUi[f] ELSE m[f]
      BY <1>1, <2>1, <2>2, MergeEnds
    <2>4. ASSUME NEW w, Lands(dialDown, Tells(f), Says(f, w), dialUi[f], w)
          PROVE  Lands(dialDown', Tells(f), Says(f, w), dialUi'[f], w)
      <3>1. m \notin Tells(f) => dialUi'[f] = dialUi[f]
        BY <2>3 DEF Tells
      <3>2. m \in Says(f, w) => dialUi'[f] = w
        BY <2>3 DEF Tells, Says
      <3>3. QED
        BY <1>1, <2>1, <2>2, <2>4, <3>1, <3>2, LandsTail
    <2>5. QED
      BY <2>1, <2>4 DEF Tuned, Displays, Showing
  <1>5. QED
    BY <1>2, <1>3, <1>4

\* They keep the last echo that of what was published, and an echo of the centre puts an
\* end to one that was not sent.
LEMMA ServedEchoes ==
    ASSUME DialInv, Tuning!Serve \/ Tuning!Publish \/ Tuning!Receive
    PROVE  /\ EchoesPublished'
           /\ strayed /\ ~strayed' =>
                Lands(dialDown', Tells("center"), Says("center", published'["center"]),
                      dialUi'["center"], published'["center"])
  <1>1. /\ {dialUi, server, published} \subseteq Tuning!Dials
        /\ dialDown \in Seq(Tuning!Messages) /\ EchoesPublished
    BY DEF DialInv, DialKept, Tuning!TypeOK
  <1>2. CASE Tuning!Serve
    BY <1>1, <1>2 DEF Tuning!Serve, EchoesPublished
  <1>3. CASE Tuning!Publish
    <2> DEFINE m == [center |-> IF server.center = published.center THEN None ELSE server.center,
                     target |-> IF server.target = published.target THEN None ELSE server.target]
    <2>1. /\ published' = server /\ dialDown' = Append(dialDown, m) /\ strayed' = strayed
      BY <1>3 DEF Tuning!Publish
    <2>2. m \in Tuning!Messages
          /\ \A f \in Ends : m[f] = (IF server[f] = published[f] THEN None ELSE server[f])
                             /\ server[f] # None
      BY <1>1, DialFacts DEF Tuning!Messages, Tuning!Dials, Ends
    <2> HIDE DEF m
    <2>3. ASSUME NEW f \in Ends
          PROVE  Lands(dialDown', Tells(f), Says(f, server[f]), server[f], server[f])
      <3>1. PICK p : p = server[f]
        OBVIOUS
      <3>2. CASE p = published[f]
        <4>1. m \notin Tells(f)
          BY <2>2, <3>1, <3>2 DEF Tells
        <4>2. Lands(dialDown, Tells(f), Says(f, p), p, p)
          BY <1>1, <3>2 DEF EchoesPublished
        <4>3. Lands(dialDown', Tells(f), Says(f, p), p, p)
          BY <1>1, <2>1, <2>2, <4>1, <4>2, LandsAppendOther
        <4>4. QED
          BY <3>1, <4>3
      <3>3. CASE p # published[f]
        <4>1. m \in Says(f, p)
          BY <2>2, <3>1, <3>3 DEF Says, Tells
        <4>2. Lands(dialDown', Tells(f), Says(f, p), p, p)
          BY <1>1, <2>1, <2>2, <4>1, LandsAppendThis
        <4>3. QED
          BY <3>1, <4>2
      <3>4. QED
        BY <3>2, <3>3
    <2>4. QED
      BY <2>1, <2>3 DEF EchoesPublished
  <1>4. CASE Tuning!Receive
    <2>1. /\ dialDown # <<>> /\ dialUi' = Tuning!Merge(dialUi, Head(dialDown))
          /\ dialDown' = Tail(dialDown) /\ UNCHANGED <<server, published>>
          /\ strayed' = (strayed /\ Head(dialDown).center = None)
      BY <1>4 DEF Tuning!Receive
    <2>2. PICK m \in Tuning!Messages : m = Head(dialDown)
      BY <1>1, <2>1, HeadTailProperties
    <2>3. ASSUME NEW f \in Ends, NEW p, p = published[f]
          PROVE  /\ Lands(dialDown', Tells(f), Says(f, p), p, p)
                 /\ m \in Tells(f) => Lands(dialDown', Tells(f), Says(f, p), dialUi'[f], p)
      <3>1. Lands(dialDown, Tells(f), Says(f, p), p, p)
        BY <1>1, <2>3 DEF EchoesPublished
      <3>2. Lands(dialDown', Tells(f), Says(f, p), p, p)
        BY <1>1, <2>1, <3>1, LandsTail
      <3>3. ASSUME m \in Tells(f)
            PROVE  Lands(dialDown', Tells(f), Says(f, p), dialUi'[f], p)
        <4>1. dialUi'[f] = m[f]
          <5>1. m[f] # None
            BY <3>3 DEF Tells
          <5>2. QED
            BY <1>1, <2>1, <2>2, <5>1, MergeEnds
        <4>2. dialDown[1] = m /\ 1 \in 1..Len(dialDown)
          BY <1>1, <2>1, <2>2
        <4>3. Lands(dialDown, Tells(f), Says(f, p), dialUi'[f], p)
          BY <3>1, <3>3, <4>2 DEF Lands
        <4>4. m \in Says(f, p) => dialUi'[f] = p
          BY <4>1 DEF Says
        <4>5. QED
          BY <1>1, <2>1, <2>2, <4>3, <4>4, LandsTail
      <3>4. QED
        BY <3>2, <3>3
    <2>4. strayed /\ ~strayed' => m \in Tells("center")
      <3>1. m["center"] = m.center
        OBVIOUS
      <3>2. QED
        BY <2>1, <2>2, <3>1 DEF Tells
    <2>5. EchoesPublished'
      BY <2>1, <2>3 DEF EchoesPublished
    <2>6. QED
      BY <2>1, <2>3, <2>4, <2>5 DEF Ends
  <1>5. QED
    BY <1>2, <1>3, <1>4

\* So they keep the invariant.
LEMMA ServedStep ==
    ASSUME DialInv, Tuning!Serve \/ Tuning!Publish \/ Tuning!Receive
    PROVE  DialKept'
  <1>1. /\ UNCHANGED <<paths, shot, lastSent, open, held, drag, fling, lastOut>>
        /\ strayed' => strayed
    <2>1. UNCHANGED <<paths, shot, lastSent, open, held, drag, fling, lastOut>>
      BY DEF Tuning!Serve, Tuning!Publish, Tuning!Receive
    <2>2. CASE Tuning!Receive
      <3>1. strayed' = (strayed /\ Head(dialDown).center = None)
        BY <2>2 DEF Tuning!Receive
      <3>2. QED
        BY <2>1, <3>1
    <2>3. CASE Tuning!Serve \/ Tuning!Publish
      BY <2>1, <2>3 DEF Tuning!Serve, Tuning!Publish
    <2>4. QED
      BY <2>2, <2>3
  <1>2. EchoesPublished'
    BY ServedEchoes
  <1>3. TargetShown'
    <2>1. SUFFICES ASSUME ~held
                   PROVE  \E v \in Tuning!Freqs :
                            /\ Lands(dialUp', Tells("target"), Says("target", v),
                                     server'["target"], v)
                            /\ \/ Lands(dialDown', Tells("target"),
                                        Says("target", published'["target"]),
                                        dialUi'["target"], published'["target"])
                               \/ Lands(dialDown', Tells("target"), Says("target", v),
                                        dialUi'["target"], v)
      BY <1>1 DEF TargetShown, Tuned, Displays, Showing
    <2>2. PICK v \in Tuning!Freqs : Tuned("target", v) /\ Displays("target", v)
      BY <2>1 DEF DialInv, DialKept, TargetShown
    <2>3. QED
      BY <2>2, ServedEnds DEF Ends
  <1>4. PICK v : v = lastOut
    OBVIOUS
  <1>5. Tuned("center", v) /\ (~strayed => Displays("center", v))
    BY <1>4 DEF DialInv, DialKept, CenterTuned, CenterShown
  <1>6. CenterTuned'
    <2>1. Lands(dialUp', Tells("center"), Says("center", v), server'["center"], v)
      BY <1>5, ServedEnds DEF Ends
    <2>2. QED
      BY <1>1, <1>4, <2>1 DEF CenterTuned, Tuned
  <1>7. CenterShown'
    <2>1. SUFFICES ASSUME ~strayed'
                   PROVE  \/ Lands(dialDown', Tells("center"),
                                   Says("center", published'["center"]),
                                   dialUi'["center"], published'["center"])
                          \/ Lands(dialDown', Tells("center"), Says("center", v),
                                   dialUi'["center"], v)
      BY <1>1, <1>4 DEF CenterShown, Displays, Showing
    <2>2. CASE strayed
      BY <2>1, <2>2, ServedEchoes
    <2>3. CASE ~strayed
      BY <1>5, <2>3, ServedEnds DEF Ends
    <2>4. QED
      BY <2>2, <2>3
  <1>8. DragSent'
    <2>1. Untouched => Untouched'
      BY DEF Untouched, Tuning!Serve, Tuning!Publish, Tuning!Receive
    <2>2. QED
      BY <1>1, <2>1 DEF DialInv, DialKept, DragSent
  <1>9. Guiltless' /\ ("drag" \notin paths => ~drag /\ fling = 0)'
    BY <1>1 DEF DialInv, DialKept, Guiltless
  <1>10. QED
    BY <1>2, <1>3, <1>6, <1>7, <1>8, <1>9 DEF DialKept

\* The invariant is kept.
LEMMA DialNextInv == DialInv /\ Tuning!Next => DialInv'
  <1> SUFFICES ASSUME DialInv, Tuning!Next
               PROVE  DialInv'
    OBVIOUS
  <1>1. Tuning!TypeOK'
    BY DialTypes DEF DialInv
  <1>2. DialKept'
    BY <1>1, KeyedStep, DraggedStep, ServedStep DEF Tuning!Next
  <1>3. QED
    BY <1>1, <1>2 DEF DialInv

\* With nothing under way the dial shown is the dial tuned.
LEMMA DialAgrees == DialInv => Tuning!RestAgrees
  <1> SUFFICES ASSUME DialInv, Tuning!AtRest
               PROVE  /\ ~held => dialUi["target"] = server["target"]
                      /\ ~strayed \/ (~held /\ Tuning!Steady) =>
                           dialUi["center"] = server["center"]
    BY DEF Tuning!RestAgrees
  <1>1. dialUp = <<>> /\ dialDown = <<>> /\ published = server
    BY DEF Tuning!AtRest
  <1>2. ASSUME NEW f \in Ends, NEW v, Tuned(f, v), Displays(f, v)
        PROVE  dialUi[f] = server[f]
    <2>1. /\ Lands(<<>>, Tells(f), Says(f, v), server[f], v)
          /\ \/ Lands(<<>>, Tells(f), Says(f, server[f]), dialUi[f], server[f])
             \/ Lands(<<>>, Tells(f), Says(f, v), dialUi[f], v)
      BY <1>1, <1>2 DEF Tuned, Displays, Showing
    <2>2. QED
      BY <2>1, LandsEmpty
  <1>3. ~held => dialUi["target"] = server["target"]
    BY <1>2 DEF DialInv, DialKept, TargetShown, Ends
  <1>4. ~held /\ Tuning!Steady => ~strayed
    BY DEF DialInv, DialKept, DragSent, Guiltless, Tuning!Steady
  <1>5. ~strayed => dialUi["center"] = server["center"]
    BY <1>2 DEF DialInv, DialKept, CenterTuned, CenterShown, Ends
  <1>6. QED
    BY <1>3, <1>4, <1>5

(***************************************************************************)
(* The VFOs.                                                               *)
(***************************************************************************)

RxFields == {"freq", "mode", "ssb", "cw", "dsp", "nb", "rit"}
SharedFields == {"split", "tx", "xit", "dw"}

\* The places of a setting, and those an echo tells of.
Places == ({"a", "b"} \X RxFields) \cup ({"vfo"} \X SharedFields)
Confirmed == ({"a"} \X {"freq", "mode", "dsp", "rit"})
               \cup ({"b"} \X {"freq", "mode", "ssb", "cw", "dsp", "rit"})
               \cup ({"vfo"} \X SharedFields)
PitchesOfB == {<<"b", "ssb">>, <<"b", "cw">>}

\* The value at a place.
At(s, p) == s[p[1]][p[2]]

\* An echo tells some of what was in a state.
VfoEchoes == {[p \in D |-> At(s, p)] : s \in Vfo!States, D \in SUBSET Confirmed}

\* The echoes that tell of a place, and those that put it at v.
TellsAt(p) == {m \in VfoEchoes : p \in DOMAIN m}
SaysAt(p, v) == {m \in TellsAt(p) : m[p] = v}

\* The commands.
VfoSettings == [to : {"a", "b"}, field : {"freq"}, value : VfoFreqs]
                 \cup [to : {"a", "b"}, field : {"mode"}, value : Vfo!Modes]
                 \cup [to : {"a", "b"}, field : {"pitch"}, value : Pitches]
                 \cup [to : {"a", "b"}, field : {"dsp", "nb", "rit"}, value : BOOLEAN]
                 \cup [to : {"vfo"}, field : {"split", "xit", "dw"}, value : BOOLEAN]
                 \cup [to : {"vfo"}, field : {"tx"}, value : {"a", "b"}]
Copying == Vfo!Set("b", "copy", "a")
VfoCommands == VfoSettings \cup {Copying}

\* The gestures: one command, or a pair of them.
PairGestures ==
    {<<Vfo!Set("a", "freq", f), Vfo!Set("a", "mode", m)>> : f \in VfoFreqs, m \in Vfo!Modes}
      \cup {<<Vfo!Set("b", "mode", m), Vfo!Set("b", "pitch", p)>> : m \in Vfo!Modes, p \in Pitches}
      \cup {Vfo!SwapCommands(v) : v \in {"a", "b"}}
Gestures == {<<c>> : c \in VfoCommands} \cup PairGestures

\* Where a command puts its value.
Where(s, c) == IF c.field = "pitch" THEN Vfo!Slot(s[c.to].mode) ELSE c.field

\* What a place and its value are.
LEMMA StateAt ==
    ASSUME NEW s \in Vfo!States
    PROVE  /\ s.a \in Vfo!Receivers /\ s.b \in Vfo!Receivers /\ s.vfo \in Vfo!Shared
           /\ s["a"] = s.a /\ s["b"] = s.b /\ s["vfo"] = s.vfo
           /\ \A v \in {"a", "b"} : s[v] \in Vfo!Receivers
           /\ DOMAIN s = {"a", "b", "vfo"}
           /\ \A v \in {"a", "b"} : DOMAIN s[v] = RxFields
           /\ DOMAIN s.vfo = SharedFields
  BY DEF Vfo!States, Vfo!Receivers, Vfo!Shared, RxFields, SharedFields

\* A state with another value at one place.
LEMMA StateSet ==
    ASSUME NEW s \in Vfo!States, NEW c \in VfoSettings
    PROVE  /\ Vfo!Apply(s, c) \in Vfo!States
           /\ <<c.to, Where(s, c)>> \in Places
           /\ \A p \in Places : At(Vfo!Apply(s, c), p)
                                  = IF p = <<c.to, Where(s, c)>> THEN c.value ELSE At(s, p)
  <1> DEFINE w == Where(s, c)
             t == [s EXCEPT ![c.to][w] = c.value]
  <1>1. Vfo!Apply(s, c) = t
    <2>1. c.field \in {"freq", "mode", "pitch", "dsp", "nb", "rit", "split", "xit", "dw", "tx"}
      BY DEF VfoSettings
    <2>2. CASE c.field = "pitch"
      BY <2>2 DEF Vfo!Apply, Where
    <2>3. CASE c.field # "pitch"
      BY <2>1, <2>3 DEF Vfo!Apply, Where
    <2>4. QED
      BY <2>2, <2>3
  <1>2. w \in RxFields \cup SharedFields
    BY DEF VfoSettings, Where, Vfo!Slot, RxFields, SharedFields
  <1>3. CASE c.to \in {"a", "b"}
    <2>1. PICK rx \in Vfo!Receivers : rx = s[c.to]
      BY <1>3, StateAt
    <2>2. w \in RxFields
      BY <1>3 DEF VfoSettings, Where, Vfo!Slot, RxFields, SharedFields
    <2>3. /\ w = "freq" => c.value \in VfoFreqs
          /\ w = "mode" => c.value \in Vfo!Modes
          /\ w \in {"ssb", "cw"} => c.value \in Pitches
          /\ w \in {"dsp", "nb", "rit"} => c.value \in BOOLEAN
      BY <1>3 DEF VfoSettings, Where, Vfo!Slot
    <2> HIDE DEF w
    <2>4. [rx EXCEPT ![w] = c.value] \in Vfo!Receivers
      BY <2>2, <2>3 DEF RxFields, Vfo!Receivers
    <2>5. PICK r \in Vfo!Receivers : r = [rx EXCEPT ![w] = c.value]
      BY <2>4
    <2>6. \A f \in RxFields : r[f] = IF f = w THEN c.value ELSE rx[f]
      BY <2>5, StateAt DEF RxFields, Vfo!Receivers
    <2>7. t = [s EXCEPT ![c.to] = r]
      BY <2>1, <2>5
    <2>8. t \in Vfo!States /\ \A x \in {"a", "b", "vfo"} : t[x] = IF x = c.to THEN r ELSE s[x]
      BY <1>3, <2>7 DEF Vfo!States
    <2> HIDE DEF t
    <2>9. \A p \in Places : At(t, p) = IF p = <<c.to, w>> THEN c.value ELSE At(s, p)
      BY <1>3, <2>1, <2>2, <2>6, <2>8 DEF At, Places
    <2>10. <<c.to, w>> \in Places
      BY <1>3, <2>2 DEF Places
    <2>11. QED
      BY <1>1, <2>8, <2>9, <2>10 DEF w
  <1>4. CASE c.to = "vfo"
    <2>1. PICK rx \in Vfo!Shared : rx = s["vfo"]
      BY StateAt
    <2>2. w \in SharedFields
      BY <1>4 DEF VfoSettings, Where, SharedFields
    <2>3. /\ w = "tx" => c.value \in {"a", "b"}
          /\ w \in {"split", "xit", "dw"} => c.value \in BOOLEAN
      BY <1>4 DEF VfoSettings, Where
    <2> HIDE DEF w
    <2>4. [rx EXCEPT ![w] = c.value] \in Vfo!Shared
      BY <2>2, <2>3 DEF SharedFields, Vfo!Shared
    <2>5. PICK r \in Vfo!Shared : r = [rx EXCEPT ![w] = c.value]
      BY <2>4
    <2>6. \A f \in SharedFields : r[f] = IF f = w THEN c.value ELSE rx[f]
      BY <2>5, StateAt DEF SharedFields, Vfo!Shared
    <2>7. t = [s EXCEPT !["vfo"] = r]
      BY <1>4, <2>1, <2>5
    <2>8. t \in Vfo!States /\ \A x \in {"a", "b", "vfo"} : t[x] = IF x = c.to THEN r ELSE s[x]
      BY <1>4, <2>7 DEF Vfo!States
    <2> HIDE DEF t
    <2>9. \A p \in Places : At(t, p) = IF p = <<c.to, w>> THEN c.value ELSE At(s, p)
      BY <1>4, <2>1, <2>2, <2>6, <2>8 DEF At, Places
    <2>10. <<c.to, w>> \in Places
      BY <1>4, <2>2 DEF Places
    <2>11. QED
      BY <1>1, <2>8, <2>9, <2>10 DEF w
  <1>5. c.to \in {"a", "b", "vfo"}
    BY DEF VfoSettings
  <1>6. QED
    BY <1>3, <1>4, <1>5

\* A state with A copied to B.
LEMMA StateCopied ==
    ASSUME NEW s \in Vfo!States
    PROVE  /\ Vfo!Apply(s, Copying) \in Vfo!States
           /\ \A p \in Places : At(Vfo!Apply(s, Copying), p)
                                  = IF p[1] = "b" THEN At(s, <<"a", p[2]>>) ELSE At(s, p)
  <1>1. Vfo!Apply(s, Copying) = [s EXCEPT !["b"] = s.a]
    BY DEF Vfo!Apply, Vfo!Copied, Copying, Vfo!Set
  <1>2. PICK t : t = [s EXCEPT !["b"] = s.a]
    OBVIOUS
  <1>3. t \in Vfo!States /\ \A x \in {"a", "b", "vfo"} : t[x] = IF x = "b" THEN s["a"] ELSE s[x]
    BY <1>2 DEF Vfo!States
  <1>4. \A p \in Places : At(t, p) = IF p[1] = "b" THEN At(s, <<"a", p[2]>>) ELSE At(s, p)
    BY <1>3 DEF At, Places
  <1>5. QED
    BY <1>1, <1>2, <1>3, <1>4

\* A pair is of two settings.
LEMMA PairsAreCommands ==
    /\ \A g \in PairGestures : \E c, d \in VfoSettings : g = <<c, d>>
    /\ \A c, d : <<c, d>> \in PairGestures => c \in VfoSettings /\ d \in VfoSettings
    /\ VfoSettings \subseteq VfoCommands
  <1>1. ASSUME NEW g \in PairGestures
        PROVE  \E c, d \in VfoSettings : g = <<c, d>>
    <2>1. CASE \E f \in VfoFreqs, m \in Vfo!Modes :
                 g = <<Vfo!Set("a", "freq", f), Vfo!Set("a", "mode", m)>>
      BY <2>1 DEF VfoSettings, Vfo!Set
    <2>2. CASE \E m \in Vfo!Modes, p \in Pitches :
                 g = <<Vfo!Set("b", "mode", m), Vfo!Set("b", "pitch", p)>>
      BY <2>2 DEF VfoSettings, Vfo!Set
    <2>3. CASE \E v \in {"a", "b"} : g = Vfo!SwapCommands(v)
      BY <2>3 DEF VfoSettings, Vfo!Set, Vfo!SetShared, Vfo!SwapCommands
    <2>4. QED
      BY <1>1, <2>1, <2>2, <2>3 DEF PairGestures
  <1>2. ASSUME NEW c, NEW d, <<c, d>> \in PairGestures
        PROVE  c \in VfoSettings /\ d \in VfoSettings
    BY <1>1, <1>2
  <1>3. QED
    BY <1>1, <1>2 DEF VfoCommands

\* What the applied gesture is.
LEMMA AppliedFacts ==
    ASSUME NEW s \in Vfo!States
    PROVE  /\ \A c : Vfo!Applied(s, <<c>>) = Vfo!Apply(s, c)
           /\ \A c, d : Vfo!Applied(s, <<c, d>>) = Vfo!Apply(Vfo!Apply(s, c), d)
           /\ \A c \in VfoCommands : Vfo!Apply(s, c) \in Vfo!States
           /\ \A g \in Gestures : Vfo!Applied(s, g) \in Vfo!States
  <1>1. \A c : Vfo!Applied(s, <<c>>) = Vfo!Apply(s, c)
    BY DEF Vfo!Applied
  <1>2. \A c, d : Vfo!Applied(s, <<c, d>>) = Vfo!Apply(Vfo!Apply(s, c), d)
    BY DEF Vfo!Applied
  <1>3. \A t \in Vfo!States : \A c \in VfoCommands : Vfo!Apply(t, c) \in Vfo!States
    BY StateSet, StateCopied DEF VfoCommands
  <1>4. ASSUME NEW g \in Gestures
        PROVE  Vfo!Applied(s, g) \in Vfo!States
    <2>1. CASE g \in {<<c>> : c \in VfoCommands}
      BY <1>1, <1>3, <2>1
    <2>2. CASE g \in PairGestures
      <3>1. PICK c \in VfoCommands, d \in VfoCommands : g = <<c, d>>
        BY <2>2, PairsAreCommands
      <3>2. QED
        BY <1>2, <1>3, <3>1
    <2>3. QED
      BY <1>4, <2>1, <2>2 DEF Gestures
  <1>5. QED
    BY <1>1, <1>2, <1>3, <1>4

(***************************************************************************)
(* The frequency of an over.                                               *)
(***************************************************************************)

\* After the first command of a pair the transmit frequency is the one before it, or the
\* one after the other.
LEMMA PairIsWhole ==
    ASSUME NEW s \in Vfo!States, NEW c, NEW d, <<c, d>> \in PairGestures
    PROVE  Vfo!TxFreq(Vfo!Apply(s, c))
             \in {Vfo!TxFreq(s), Vfo!TxFreq(Vfo!Applied(s, <<c, d>>))}
  <1>1. c \in VfoCommands /\ d \in VfoCommands
    BY PairsAreCommands
  <1>2. PICK t \in Vfo!States : t = Vfo!Apply(s, c)
    BY <1>1, AppliedFacts
  <1>3. PICK u \in Vfo!States : u = Vfo!Apply(t, d)
    BY <1>1, AppliedFacts
  <1>4. Vfo!Applied(s, <<c, d>>) = u
    BY <1>2, <1>3, AppliedFacts
  <1>5. \A x \in Vfo!States :
          Vfo!TxFreq(x) = <<At(x, <<IF At(x, <<"vfo", "split">>) THEN At(x, <<"vfo", "tx">>) ELSE "a",
                                    "freq">>),
                            At(x, <<"vfo", "xit">>)>>
    BY StateAt DEF Vfo!TxFreq, Vfo!TxVfoOf, At
  <1>6. /\ {<<"vfo", "split">>, <<"vfo", "tx">>, <<"vfo", "xit">>, <<"a", "freq">>,
            <<"b", "freq">>} \subseteq Places
        /\ \A x \in Vfo!States : At(x, <<"vfo", "tx">>) \in {"a", "b"}
    BY StateAt DEF Places, RxFields, SharedFields, At, Vfo!Shared
  <1>7. ASSUME NEW x \in Vfo!States, NEW y \in Vfo!States,
               \A p \in {<<"vfo", "split">>, <<"vfo", "tx">>, <<"vfo", "xit">>, <<"a", "freq">>,
                         <<"b", "freq">>} : At(x, p) = At(y, p)
        PROVE  Vfo!TxFreq(x) = Vfo!TxFreq(y)
    BY <1>5, <1>6, <1>7
  <1>8. CASE \E m \in Vfo!Modes : d = Vfo!Set("a", "mode", m)
    <2>1. d \in VfoSettings /\ <<d.to, Where(t, d)>> = <<"a", "mode">>
      BY <1>8 DEF VfoSettings, Where, Vfo!Set
    <2>2. \A p \in Places \ {<<"a", "mode">>} : At(u, p) = At(t, p)
      BY <1>3, <2>1, StateSet
    <2>3. Vfo!TxFreq(u) = Vfo!TxFreq(t)
      BY <1>6, <1>7, <2>2
    <2>4. QED
      BY <1>2, <1>4, <2>3
  <1>9. CASE \E m \in Vfo!Modes : c = Vfo!Set("b", "mode", m)
    <2>1. c \in VfoSettings /\ <<c.to, Where(s, c)>> = <<"b", "mode">>
      BY <1>9 DEF VfoSettings, Where, Vfo!Set
    <2>2. \A p \in Places \ {<<"b", "mode">>} : At(t, p) = At(s, p)
      BY <1>2, <2>1, StateSet
    <2>3. Vfo!TxFreq(t) = Vfo!TxFreq(s)
      BY <1>6, <1>7, <2>2
    <2>4. QED
      BY <1>2, <2>3
  <1>10. CASE \E v \in {"a", "b"} : <<c, d>> = Vfo!SwapCommands(v)
    <2>1. PICK v \in {"a", "b"} : c = Vfo!Set("vfo", "tx", v) /\ d = Vfo!Set("vfo", "split", TRUE)
      BY <1>10 DEF Vfo!SwapCommands, Vfo!SetShared
    <2>2. /\ c \in VfoSettings /\ <<c.to, Where(s, c)>> = <<"vfo", "tx">>
          /\ d \in VfoSettings /\ <<d.to, Where(t, d)>> = <<"vfo", "split">> /\ d.value = TRUE
      BY <2>1 DEF VfoSettings, Where, Vfo!Set
    <2>3. /\ \A p \in Places \ {<<"vfo", "tx">>} : At(t, p) = At(s, p)
          /\ \A p \in Places \ {<<"vfo", "split">>} : At(u, p) = At(t, p)
          /\ At(u, <<"vfo", "split">>) = TRUE
      BY <1>2, <1>3, <1>6, <2>2, StateSet
    <2>4. CASE At(s, <<"vfo", "split">>)
      <3>1. At(u, <<"vfo", "split">>) = At(t, <<"vfo", "split">>)
        <4>1. At(s, <<"vfo", "split">>) \in BOOLEAN
          BY StateAt DEF At, Vfo!Shared
        <4>2. QED
          BY <1>6, <2>3, <2>4, <4>1
      <3>2. Vfo!TxFreq(t) = Vfo!TxFreq(u)
        BY <1>6, <1>7, <2>3, <3>1
      <3>3. QED
        BY <1>2, <1>4, <3>2
    <2>5. CASE ~At(s, <<"vfo", "split">>)
      <3>1. ~At(t, <<"vfo", "split">>)
        BY <1>6, <2>3, <2>5
      <3>2. At(t, <<"a", "freq">>) = At(s, <<"a", "freq">>)
            /\ At(t, <<"vfo", "xit">>) = At(s, <<"vfo", "xit">>)
        BY <1>6, <2>3
      <3>3. Vfo!TxFreq(t) = Vfo!TxFreq(s)
        BY <1>5, <2>5, <3>1, <3>2
      <3>4. QED
        BY <1>2, <3>3
    <2>6. QED
      BY <2>4, <2>5
  <1>11. \/ \E m \in Vfo!Modes : d = Vfo!Set("a", "mode", m)
         \/ \E m \in Vfo!Modes : c = Vfo!Set("b", "mode", m)
         \/ \E v \in {"a", "b"} : <<c, d>> = Vfo!SwapCommands(v)
    <2>1. ASSUME NEW f, NEW m, <<c, d>> = <<f, m>>
          PROVE  c = f /\ d = m
      BY <2>1
    <2>2. QED
      BY <2>1 DEF PairGestures
  <1>12. QED
    BY <1>8, <1>9, <1>10, <1>11

(***************************************************************************)
(* The settings shown, and the settings that will be.                      *)
(***************************************************************************)

\* The last of the echoes d of each place tells what is in l.
Reported(d, l) ==
    \A p \in Confirmed : Lands(d, TellsAt(p), SaysAt(p, At(l, p)), At(l, p), At(l, p))

\* With the echoes d under way, u will show at p what is in e, or what is in l.
Follows(u, e, l, d, p) == \/ Lands(d, TellsAt(p), SaysAt(p, At(l, p)), At(u, p), At(l, p))
                          \/ Lands(d, TellsAt(p), SaysAt(p, At(e, p)), At(u, p), At(e, p))

\* So at all places an echo tells of, but the pitches of B once A was copied (k); and
\* what no echo tells of is the same.
Agreed(u, e, l, d, k) ==
    /\ \A p \in Confirmed : (k /\ p \in PitchesOfB) \/ Follows(u, e, l, d, p)
    /\ \A v \in {"a", "b"} : At(u, <<v, "nb">>) = At(e, <<v, "nb">>)

\* What an echo tells of are places.
LEMMA ConfirmedPlaces ==
    /\ Confirmed \subseteq Places /\ PitchesOfB \subseteq Confirmed
    /\ \A v \in {"a", "b"} : <<v, "nb">> \in Places
    /\ \A f \in {"ssb", "cw"} : <<"a", f>> \notin Confirmed
    /\ \A p \in Places : p \in Confirmed \/ p \in {<<v, "nb">> : v \in {"a", "b"}}
                           \/ p \in {<<"a", f>> : f \in {"ssb", "cw"}}
  BY DEF Confirmed, Places, PitchesOfB, RxFields, SharedFields

\* A value written on both sides is followed: by the echo of what was, or as it is.
LEMMA WrittenFollows ==
    ASSUME NEW u, NEW e, NEW l, NEW d, NEW p \in Confirmed, Reported(d, l), At(u, p) = At(e, p)
    PROVE  Follows(u, e, l, d, p)
  BY DEF Follows, Reported, Lands

\* Nor is it lost where nothing is written.
LEMMA UnwrittenFollows ==
    ASSUME NEW u, NEW e, NEW x, NEW f, NEW l, NEW d, NEW p, Follows(u, e, l, d, p),
           At(x, p) = At(u, p), At(f, p) = At(e, p)
    PROVE  Follows(x, f, l, d, p)
  BY DEF Follows

\* Both sides agree after a command to both, unless it is a pitch of B for two modes.
LEMMA AgreedSet ==
    ASSUME NEW u \in Vfo!States, NEW e \in Vfo!States, NEW l, NEW d, NEW k \in BOOLEAN,
           NEW c \in VfoSettings, Reported(d, l), Agreed(u, e, l, d, k),
           c.field = "pitch" /\ c.to = "b" => u.b.mode = e.b.mode
    PROVE  Agreed(Vfo!Apply(u, c), Vfo!Apply(e, c), l, d, k)
  <1>1. PICK x \in Vfo!States : x = Vfo!Apply(u, c)
    BY StateSet
  <1>2. PICK f \in Vfo!States : f = Vfo!Apply(e, c)
    BY StateSet
  <1>3. PICK q \in Places : q = <<c.to, Where(u, c)>>
                            /\ \A p \in Places : At(x, p) = IF p = q THEN c.value ELSE At(u, p)
    BY <1>1, StateSet
  <1>4. PICK r \in Places : r = <<c.to, Where(e, c)>>
                            /\ \A p \in Places : At(f, p) = IF p = r THEN c.value ELSE At(e, p)
    BY <1>2, StateSet
  <1>5. \/ q = r
        \/ q \in {<<"a", y>> : y \in {"ssb", "cw"}} /\ r \in {<<"a", y>> : y \in {"ssb", "cw"}}
    <2>1. CASE c.field # "pitch"
      BY <1>3, <1>4, <2>1 DEF Where
    <2>2. CASE c.field = "pitch" /\ c.to = "b"
      <3>1. u["b"].mode = e["b"].mode
        BY <2>2, StateAt
      <3>2. QED
        BY <1>3, <1>4, <2>2, <3>1 DEF Where
    <2>3. CASE c.field = "pitch" /\ c.to = "a"
      BY <1>3, <1>4, <2>3 DEF Where, Vfo!Slot
    <2>4. QED
      BY <2>1, <2>2, <2>3 DEF VfoSettings
  <1>6. ASSUME NEW p \in Confirmed, Follows(u, e, l, d, p)
        PROVE  Follows(x, f, l, d, p)
    <2>1. CASE p = q
      <3>1. p = r
        BY <1>5, <2>1, ConfirmedPlaces
      <3>2. At(x, p) = At(f, p)
        BY <1>3, <1>4, <2>1, <3>1
      <3>3. QED
        BY <3>2, WrittenFollows
    <2>2. CASE p # q
      <3>1. p # r /\ p \in Places
        BY <1>5, <2>2, ConfirmedPlaces
      <3>2. At(x, p) = At(u, p) /\ At(f, p) = At(e, p)
        BY <1>3, <1>4, <2>2, <3>1
      <3>3. QED
        BY <1>6, <3>2, UnwrittenFollows
    <2>3. QED
      BY <2>1, <2>2
  <1>7. ASSUME NEW v \in {"a", "b"}
        PROVE  At(x, <<v, "nb">>) = At(f, <<v, "nb">>)
    <2>1. <<v, "nb">> \in Places
      BY ConfirmedPlaces
    <2>2. At(u, <<v, "nb">>) = At(e, <<v, "nb">>)
      BY DEF Agreed
    <2>3. <<v, "nb">> = q <=> <<v, "nb">> = r
      BY <1>5
    <2>4. QED
      BY <1>3, <1>4, <2>1, <2>2, <2>3
  <1>8. Agreed(x, f, l, d, k)
    BY <1>6, <1>7 DEF Agreed
  <1>9. QED
    BY <1>1, <1>2, <1>8

\* A pitch of A may be sent without being shown.
LEMMA AgreedPitchOfA ==
    ASSUME NEW u \in Vfo!States, NEW e \in Vfo!States, NEW l, NEW d, NEW k \in BOOLEAN,
           NEW c \in VfoSettings, Agreed(u, e, l, d, k), c.field = "pitch", c.to = "a"
    PROVE  Agreed(u, Vfo!Apply(e, c), l, d, k)
  <1>1. PICK f \in Vfo!States : f = Vfo!Apply(e, c)
    BY StateSet
  <1>2. PICK r \in Places : r = <<c.to, Where(e, c)>>
                            /\ \A p \in Places : At(f, p) = IF p = r THEN c.value ELSE At(e, p)
    BY <1>1, StateSet
  <1>3. r \in {<<"a", y>> : y \in {"ssb", "cw"}}
    BY <1>2 DEF Where, Vfo!Slot
  <1>4. \A p \in Confirmed : p # r /\ p \in Places
    BY <1>3, ConfirmedPlaces
  <1>5. ASSUME NEW p \in Confirmed, Follows(u, e, l, d, p)
        PROVE  Follows(u, f, l, d, p)
    <2>1. At(f, p) = At(e, p)
      BY <1>2, <1>4
    <2>2. QED
      BY <1>5, <2>1, UnwrittenFollows
  <1>6. ASSUME NEW v \in {"a", "b"}
        PROVE  At(u, <<v, "nb">>) = At(f, <<v, "nb">>)
    <2>1. <<v, "nb">> \in Places /\ <<v, "nb">> # r
      BY <1>3, ConfirmedPlaces
    <2>2. QED
      BY <1>2, <2>1 DEF Agreed
  <1>7. Agreed(u, f, l, d, k)
    BY <1>5, <1>6 DEF Agreed
  <1>8. QED
    BY <1>1, <1>7

\* Both sides agree after a pair, too.
LEMMA AgreedPair ==
    ASSUME NEW u \in Vfo!States, NEW e \in Vfo!States, NEW l, NEW d, NEW k \in BOOLEAN,
           NEW g \in PairGestures, Reported(d, l), Agreed(u, e, l, d, k)
    PROVE  Agreed(Vfo!Applied(u, g), Vfo!Applied(e, g), l, d, k)
  <1>1. PICK c \in VfoSettings, b \in VfoSettings : g = <<c, b>>
    BY PairsAreCommands
  <1>2. PICK x \in Vfo!States : x = Vfo!Apply(u, c)
    BY StateSet
  <1>3. PICK f \in Vfo!States : f = Vfo!Apply(e, c)
    BY StateSet
  <1>4. \/ c.field # "pitch" /\ b.field # "pitch"
        \/ \E m \in Vfo!Modes, p \in Pitches : /\ c = Vfo!Set("b", "mode", m)
                                               /\ b = Vfo!Set("b", "pitch", p)
    <2>1. ASSUME NEW y, NEW z, <<c, b>> = <<y, z>>
          PROVE  c = y /\ b = z
      BY <2>1
    <2>2. CASE \E y \in VfoFreqs, m \in Vfo!Modes :
                 g = <<Vfo!Set("a", "freq", y), Vfo!Set("a", "mode", m)>>
      BY <1>1, <2>1, <2>2 DEF Vfo!Set
    <2>3. CASE \E m \in Vfo!Modes, p \in Pitches :
                 g = <<Vfo!Set("b", "mode", m), Vfo!Set("b", "pitch", p)>>
      BY <1>1, <2>1, <2>3
    <2>4. CASE \E v \in {"a", "b"} : g = Vfo!SwapCommands(v)
      BY <1>1, <2>1, <2>4 DEF Vfo!Set, Vfo!SetShared, Vfo!SwapCommands
    <2>5. QED
      BY <2>2, <2>3, <2>4 DEF PairGestures
  <1>5. Agreed(x, f, l, d, k)
    <2>1. c.field # "pitch"
      BY <1>4 DEF Vfo!Set
    <2>2. QED
      BY <1>2, <1>3, <2>1, AgreedSet
  <1>6. b.field = "pitch" /\ b.to = "b" => x.b.mode = f.b.mode
    <2>1. SUFFICES ASSUME NEW m \in Vfo!Modes, c = Vfo!Set("b", "mode", m)
                   PROVE  x.b.mode = f.b.mode
      BY <1>4
    <2>2. c.value = m /\ \A s : <<c.to, Where(s, c)>> = <<"b", "mode">>
      BY <2>1 DEF Where, Vfo!Set
    <2>3. At(x, <<"b", "mode">>) = m /\ At(f, <<"b", "mode">>) = m
      BY <1>2, <1>3, <2>2, StateSet
    <2>4. QED
      BY <2>3, StateAt DEF At, Vfo!Receivers
  <1>7. Agreed(Vfo!Apply(x, b), Vfo!Apply(f, b), l, d, k)
    BY <1>5, <1>6, AgreedSet
  <1>8. QED
    BY <1>1, <1>2, <1>3, <1>7, AppliedFacts

\* At rest both sides show the same, and a copy of A then shows it for B.
LEMMA AgreedAtRest ==
    ASSUME NEW u \in Vfo!States, NEW e \in Vfo!States, NEW k \in BOOLEAN,
           Agreed(u, e, e, <<>>, k)
    PROVE  /\ \A p \in Confirmed : At(u, p) = At(e, p) \/ (k /\ p \in PitchesOfB)
           /\ \A v \in {"a", "b"} : At(u, <<v, "nb">>) = At(e, <<v, "nb">>)
  BY LandsEmpty DEF Agreed, Follows

\* A copy of A to B keeps the two sides agreed, but for the pitches of B, which the client
\* may not know.
LEMMA AgreedCopied ==
    ASSUME NEW u \in Vfo!States, NEW e \in Vfo!States, NEW k \in BOOLEAN,
           Agreed(u, e, e, <<>>, k), NEW x \in Vfo!States,
           x = [u EXCEPT !.b = [u.a EXCEPT !.ssb = Vfo!Pitch(u.a), !.cw = Vfo!Pitch(u.a)]]
    PROVE  Agreed(x, Vfo!Apply(e, Copying), e, <<>>, TRUE)
  <1>1. PICK f \in Vfo!States : f = Vfo!Apply(e, Copying)
    BY StateCopied
  <1>2. \A p \in Places : At(f, p) = IF p[1] = "b" THEN At(e, <<"a", p[2]>>) ELSE At(e, p)
    BY <1>1, StateCopied
  <1>3. /\ x["a"] = u["a"] /\ x["vfo"] = u["vfo"]
        /\ \A y \in RxFields \ {"ssb", "cw"} : x["b"][y] = u["a"][y]
    <2>1. PICK ra \in Vfo!Receivers : ra = u.a /\ ra = u["a"]
      BY StateAt
    <2>2. PICK w : w = Vfo!Pitch(ra)
      OBVIOUS
    <2>3. PICK rb : rb = [ra EXCEPT !.ssb = w, !.cw = w]
      OBVIOUS
    <2>4. \A y \in RxFields \ {"ssb", "cw"} : rb[y] = ra[y]
      BY <2>1, <2>3 DEF RxFields, Vfo!Receivers
    <2>5. x = [u EXCEPT !.b = rb]
      BY <2>1, <2>2, <2>3
    <2>6. x["a"] = u["a"] /\ x["vfo"] = u["vfo"] /\ x["b"] = rb
      BY <2>5 DEF Vfo!States
    <2>7. QED
      BY <2>1, <2>4, <2>6
  <1>4. ASSUME NEW p \in Confirmed \ PitchesOfB
        PROVE  At(x, p) = At(f, p)
    <2>1. CASE p[1] = "b"
      <3>1. PICK y \in {"freq", "mode", "dsp", "rit"} : p = <<"b", y>>
        BY <2>1 DEF Confirmed, PitchesOfB
      <3>2. <<"a", y>> \in Confirmed \ PitchesOfB
        BY DEF Confirmed, PitchesOfB
      <3>3. At(u, <<"a", y>>) = At(e, <<"a", y>>)
        BY <3>2, AgreedAtRest
      <3>4. At(x, p) = At(u, <<"a", y>>)
        <4>1. x["b"][y] = u["a"][y]
          BY <1>3 DEF RxFields
        <4>2. QED
          BY <3>1, <4>1 DEF At
      <3>5. At(f, p) = At(e, <<"a", y>>)
        <4>1. p \in Places /\ p[1] = "b" /\ p[2] = y
          BY <3>1, ConfirmedPlaces
        <4>2. QED
          BY <1>2, <4>1
      <3>6. QED
        BY <3>3, <3>4, <3>5
    <2>2. CASE p[1] # "b"
      <3>1. p[1] \in {"a", "vfo"}
        BY <2>2 DEF Confirmed
      <3>2. At(x, p) = At(u, p)
        BY <1>3, <3>1 DEF At
      <3>3. At(f, p) = At(e, p)
        BY <1>2, <2>2, ConfirmedPlaces
      <3>4. QED
        BY <3>2, <3>3, AgreedAtRest
    <2>3. QED
      BY <2>1, <2>2
  <1>5. ASSUME NEW v \in {"a", "b"}
        PROVE  At(x, <<v, "nb">>) = At(f, <<v, "nb">>)
    <2>1. At(x, <<v, "nb">>) = At(u, <<"a", "nb">>)
      BY <1>3 DEF At, RxFields
    <2>2. At(f, <<v, "nb">>) = At(e, <<"a", "nb">>)
      BY <1>2, ConfirmedPlaces
    <2>3. QED
      BY <2>1, <2>2, AgreedAtRest
  <1>6. \A p \in Confirmed \ PitchesOfB : Follows(x, f, e, <<>>, p)
    BY <1>4, LandsEmpty DEF Follows
  <1>7. Agreed(x, f, e, <<>>, TRUE)
    BY <1>5, <1>6 DEF Agreed
  <1>8. QED
    BY <1>1, <1>7

\* What one element before a sequence makes.
LEMMA Preceded ==
    ASSUME NEW T, NEW x \in T, NEW w \in Seq(T)
    PROVE  /\ Len(<<x>> \o w) = 1 + Len(w) /\ (<<x>> \o w)[1] = x
           /\ \A i \in 2..1+Len(w) : (<<x>> \o w)[i] = w[i - 1]
  <1>1. PICK v : v = <<x>>
    OBVIOUS
  <1>2. v \in Seq(T) /\ Len(v) = 1 /\ v[1] = x /\ Len(w) \in Nat
    BY <1>1
  <1>3. /\ Len(v \o w) = Len(v) + Len(w)
        /\ \A i \in 1..Len(v)+Len(w) : (v \o w)[i] = IF i <= Len(v) THEN v[i] ELSE w[i - Len(v)]
    BY <1>2, ConcatProperties, LenProperties
  <1>4. QED
    BY <1>1, <1>2, <1>3

(***************************************************************************)
(* What will be, with the gestures under way.                              *)
(***************************************************************************)

\* The states h the gestures g lead through, from s to e.
Leads(h, s, g, e) ==
    /\ h \in Seq(Vfo!States) /\ Len(h) = Len(g) + 1 /\ h[1] = s /\ h[Len(g) + 1] = e
    /\ \A i \in 1..Len(g) : h[i + 1] = Vfo!Applied(h[i], g[i])
Becomes(s, g, e) == e \in Vfo!States /\ \E h : Leads(h, s, g, e)

\* With none under way, nothing changes.
LEMMA BecomesEmpty ==
    ASSUME NEW s \in Vfo!States, NEW e
    PROVE  Becomes(s, <<>>, e) <=> e = s
  <1>1. ASSUME e = s
        PROVE  Becomes(s, <<>>, e)
    <2>1. Leads(<<s>>, s, <<>>, s)
      BY DEF Leads
    <2>2. QED
      BY <1>1, <2>1 DEF Becomes
  <1>2. ASSUME Becomes(s, <<>>, e)
        PROVE  e = s
    BY <1>2 DEF Becomes, Leads
  <1>3. QED
    BY <1>1, <1>2

\* One more gesture.
LEMMA BecomesAppend ==
    ASSUME NEW s \in Vfo!States, NEW g \in Seq(Gestures), NEW e, Becomes(s, g, e),
           NEW x \in Gestures
    PROVE  Becomes(s, Append(g, x), Vfo!Applied(e, x))
  <1>1. PICK h : Leads(h, s, g, e)
    BY DEF Becomes
  <1>2. PICK f \in Vfo!States : f = Vfo!Applied(e, x)
    BY AppliedFacts DEF Becomes
  <1>3. PICK k : k = Append(h, f)
    OBVIOUS
  <1>4. PICK y : y = Append(g, x)
    OBVIOUS
  <1>5. h \in Seq(Vfo!States) /\ Len(h) = Len(g) + 1 /\ Len(g) \in Nat
    BY <1>1 DEF Leads
  <1>6. /\ k \in Seq(Vfo!States) /\ Len(k) = Len(g) + 2 /\ k[Len(g) + 2] = f
        /\ \A i \in 1..Len(g)+1 : k[i] = h[i]
    BY <1>2, <1>3, <1>5
  <1>7. Len(y) = Len(g) + 1 /\ y[Len(g) + 1] = x /\ \A i \in 1..Len(g) : y[i] = g[i]
    BY <1>4
  <1>8. \A i \in 1..Len(y) : k[i + 1] = Vfo!Applied(k[i], y[i])
    <2>1. SUFFICES ASSUME NEW i \in 1..Len(y)
                   PROVE  k[i + 1] = Vfo!Applied(k[i], y[i])
      OBVIOUS
    <2>2. CASE i = Len(g) + 1
      <3>1. k[i + 1] = f /\ k[i] = h[Len(g) + 1] /\ y[i] = x
        BY <1>5, <1>6, <1>7, <2>2
      <3>2. h[Len(g) + 1] = e
        BY <1>1 DEF Leads
      <3>3. QED
        BY <1>2, <3>1, <3>2
    <2>3. CASE i \in 1..Len(g)
      <3>1. k[i + 1] = h[i + 1] /\ k[i] = h[i] /\ y[i] = g[i]
        BY <1>5, <1>6, <1>7, <2>3
      <3>2. QED
        BY <1>1, <2>3, <3>1 DEF Leads
    <2>4. QED
      BY <1>5, <1>7, <2>2, <2>3
  <1>9. k[1] = s
    BY <1>1, <1>5, <1>6 DEF Leads
  <1>10. Leads(k, s, y, f)
    BY <1>5, <1>6, <1>7, <1>8, <1>9 DEF Leads
  <1>11. QED
    BY <1>2, <1>4, <1>10 DEF Becomes

\* The first gesture is done.
LEMMA BecomesTail ==
    ASSUME NEW s \in Vfo!States, NEW g \in Seq(Gestures), NEW e, Becomes(s, g, e), g # <<>>
    PROVE  Becomes(Vfo!Applied(s, Head(g)), Tail(g), e)
  <1>1. PICK h : Leads(h, s, g, e)
    BY DEF Becomes
  <1>2. PICK y : y = Tail(g)
    OBVIOUS
  <1>3. PICK k : k = Tail(h)
    OBVIOUS
  <1>4. h \in Seq(Vfo!States) /\ Len(h) = Len(g) + 1 /\ Len(g) \in Nat \ {0}
    BY <1>1 DEF Leads
  <1>5. k \in Seq(Vfo!States) /\ Len(k) = Len(g) /\ \A i \in 1..Len(g) : k[i] = h[i + 1]
    BY <1>3, <1>4
  <1>6. Len(y) = Len(g) - 1 /\ Head(g) = g[1] /\ \A i \in 1..Len(g)-1 : y[i] = g[i + 1]
    BY <1>2, <1>4
  <1>7. \A i \in 1..Len(y) : k[i + 1] = Vfo!Applied(k[i], y[i])
    <2>1. SUFFICES ASSUME NEW i \in 1..Len(y)
                   PROVE  k[i + 1] = Vfo!Applied(k[i], y[i])
      OBVIOUS
    <2>2. i + 1 \in 1..Len(g) /\ k[i + 1] = h[(i + 1) + 1] /\ k[i] = h[i + 1] /\ y[i] = g[i + 1]
      BY <1>4, <1>5, <1>6
    <2>3. QED
      BY <1>1, <2>2 DEF Leads
  <1>8. k[1] = Vfo!Applied(s, Head(g))
    <2>1. k[1] = h[1 + 1] /\ 1 \in 1..Len(g)
      BY <1>4, <1>5
    <2>2. h[1 + 1] = Vfo!Applied(h[1], g[1]) /\ h[1] = s
      BY <1>1, <2>1 DEF Leads
    <2>3. QED
      BY <1>6, <2>1, <2>2
  <1>9. k[Len(y) + 1] = e
    <2>1. k[Len(g)] = h[Len(g) + 1] /\ Len(y) + 1 = Len(g)
      BY <1>4, <1>5, <1>6
    <2>2. QED
      BY <1>1, <2>1 DEF Leads
  <1>10. Leads(k, Vfo!Applied(s, Head(g)), y, e)
    BY <1>4, <1>5, <1>6, <1>7, <1>8, <1>9 DEF Leads
  <1>11. QED
    BY <1>2, <1>10 DEF Becomes

\* The first of two commands is done.
LEMMA BecomesHalf ==
    ASSUME NEW s \in Vfo!States, NEW g \in Seq(Gestures), NEW e, Becomes(s, g, e), g # <<>>,
           NEW c, NEW d, Head(g) = <<c, d>>, NEW t \in Vfo!States, t = Vfo!Apply(s, c),
           NEW y \in Seq(Gestures), y = <<<<d>>>> \o Tail(g)
    PROVE  Becomes(t, y, e)
  <1>1. PICK h : Leads(h, s, g, e)
    BY DEF Becomes
  <1>2. PICK k : k = [h EXCEPT ![1] = t]
    OBVIOUS
  <1>3. h \in Seq(Vfo!States) /\ Len(h) = Len(g) + 1 /\ Len(g) \in Nat \ {0} /\ g[1] = <<c, d>>
    BY <1>1 DEF Leads
  <1>4. /\ k \in Seq(Vfo!States) /\ Len(k) = Len(g) + 1 /\ k[1] = t
        /\ \A i \in 2..Len(g)+1 : k[i] = h[i]
    BY <1>2, <1>3
  <1>5. Len(y) = Len(g) /\ y[1] = <<d>> /\ \A i \in 2..Len(g) : y[i] = g[i]
    <2>1. PICK w \in Seq(Gestures) : w = Tail(g)
      BY HeadTailProperties
    <2>2. Len(w) = Len(g) - 1 /\ \A i \in 1..Len(g)-1 : w[i] = g[i + 1]
      BY <1>3, <2>1
    <2>3. PICK T : T = {<<d>>} \cup Gestures
      OBVIOUS
    <2>4. /\ Len(y) = 1 + Len(w) /\ y[1] = <<d>>
          /\ \A i \in 2..1+Len(w) : y[i] = w[i - 1]
      <3>1. <<d>> \in T /\ w \in Seq(T)
        BY <2>1, <2>3
      <3>2. QED
        BY <2>1, <3>1, Preceded
    <2>5. QED
      BY <1>3, <2>2, <2>4
  <1>6. \A i \in 1..Len(y) : k[i + 1] = Vfo!Applied(k[i], y[i])
    <2>1. SUFFICES ASSUME NEW i \in 1..Len(y)
                   PROVE  k[i + 1] = Vfo!Applied(k[i], y[i])
      OBVIOUS
    <2>2. i \in 1..Len(g) /\ k[i + 1] = h[i + 1]
      BY <1>3, <1>4, <1>5
    <2>3. h[i + 1] = Vfo!Applied(h[i], g[i])
      BY <1>1, <2>2 DEF Leads
    <2>4. CASE i = 1
      <3>1. h[1] = s
        BY <1>1 DEF Leads
      <3>2. Vfo!Applied(s, <<c, d>>) = Vfo!Apply(t, d) /\ Vfo!Applied(t, <<d>>) = Vfo!Apply(t, d)
        BY AppliedFacts
      <3>3. QED
        BY <1>3, <1>4, <1>5, <2>2, <2>3, <2>4, <3>1, <3>2
    <2>5. CASE i # 1
      <3>1. k[i] = h[i] /\ y[i] = g[i]
        BY <1>3, <1>4, <1>5, <2>2, <2>5
      <3>2. QED
        BY <2>2, <2>3, <3>1
    <2>6. QED
      BY <2>4, <2>5
  <1>7. k[Len(y) + 1] = e
    <2>1. k[Len(y) + 1] = h[Len(g) + 1]
      BY <1>3, <1>4, <1>5
    <2>2. QED
      BY <1>1, <2>1 DEF Leads
  <1>8. Leads(k, t, y, e)
    BY <1>4, <1>5, <1>6, <1>7 DEF Leads
  <1>9. QED
    BY <1>8 DEF Becomes

\* What is shown once an echo was taken.
LEMMA MergedAt ==
    ASSUME NEW u \in Vfo!States, NEW m \in VfoEchoes
    PROVE  /\ Vfo!Merged(u, m) \in Vfo!States
           /\ \A p \in Places : At(Vfo!Merged(u, m), p) = IF p \in DOMAIN m THEN m[p] ELSE At(u, p)
           /\ DOMAIN m \subseteq Confirmed
  <1>1. PICK D \in SUBSET Confirmed, s \in Vfo!States : m = [p \in D |-> At(s, p)]
    BY DEF VfoEchoes
  <1>2. DOMAIN m = D /\ \A p \in D : m[p] = At(s, p)
    BY <1>1
  <1>3. PICK t : t = Vfo!Merged(u, m)
    OBVIOUS
  <1>4. t = [to \in {"a", "b", "vfo"} |-> [f \in DOMAIN u[to] |->
               IF <<to, f>> \in D THEN At(s, <<to, f>>) ELSE u[to][f]]]
    BY <1>2, <1>3, StateAt DEF Vfo!Merged
  <1>5. \A to \in {"a", "b"} :
          t[to] = [f \in RxFields |-> IF <<to, f>> \in D THEN s[to][f] ELSE u[to][f]]
    BY <1>4, StateAt DEF At
  <1>6. t["vfo"] = [f \in SharedFields |-> IF <<"vfo", f>> \in D THEN s["vfo"][f] ELSE u["vfo"][f]]
    BY <1>4, StateAt DEF At
  <1>7. ASSUME NEW to \in {"a", "b"}
        PROVE  t[to] \in Vfo!Receivers
    <2>1. PICK x \in Vfo!Receivers : x = u[to]
      BY StateAt
    <2>2. PICK y \in Vfo!Receivers : y = s[to]
      BY StateAt
    <2>3. PICK z : z = [f \in RxFields |-> IF <<to, f>> \in D THEN y[f] ELSE x[f]]
      OBVIOUS
    <2>4. z \in Vfo!Receivers
      BY <2>1, <2>2, <2>3 DEF Vfo!Receivers, RxFields
    <2>5. QED
      BY <1>5, <2>1, <2>2, <2>3, <2>4
  <1>8. t["vfo"] \in Vfo!Shared
    <2>1. PICK x \in Vfo!Shared : x = u["vfo"]
      BY StateAt
    <2>2. PICK y \in Vfo!Shared : y = s["vfo"]
      BY StateAt
    <2>3. PICK z : z = [f \in SharedFields |-> IF <<"vfo", f>> \in D THEN y[f] ELSE x[f]]
      OBVIOUS
    <2>4. z \in Vfo!Shared
      BY <2>1, <2>2, <2>3 DEF Vfo!Shared, SharedFields
    <2>5. QED
      BY <1>6, <2>1, <2>2, <2>3, <2>4
  <1>9. t \in Vfo!States
    <2>1. PICK y : y = [to \in {"a", "b", "vfo"} |-> t[to]]
      OBVIOUS
    <2>2. y = t
      BY <1>4, <2>1
    <2>3. y \in Vfo!States
      BY <1>7, <1>8, <2>1 DEF Vfo!States
    <2>4. QED
      BY <2>2, <2>3
  <1>10. \A p \in Places : At(t, p) = IF p \in DOMAIN m THEN m[p] ELSE At(u, p)
    <2>1. SUFFICES ASSUME NEW p \in Places
                   PROVE  At(t, p) = IF p \in D THEN At(s, p) ELSE At(u, p)
      BY <1>2
    <2>2. CASE \E to \in {"a", "b"}, f \in RxFields : p = <<to, f>>
      BY <1>5, <2>2 DEF At
    <2>3. CASE \E f \in SharedFields : p = <<"vfo", f>>
      BY <1>6, <2>3 DEF At
    <2>4. QED
      BY <2>2, <2>3 DEF Places
  <1>11. QED
    BY <1>2, <1>3, <1>9, <1>10

\* The worker, with the gestures under way done, has what the client will show with the echoes
\* under way taken, and no half-done gesture has shown a transmit frequency of its own.
VfoInv ==
    /\ Vfo!TypeOK
    /\ vfoUp \in Seq(Gestures) /\ vfoDown \in Seq(VfoEchoes)
    /\ Reported(vfoDown, last)
    /\ \E e : Becomes(vfoServer, vfoUp, e)
              /\ (~hasty => Agreed(vfoUi, e, last, vfoDown, copied))
    /\ Vfo!TxWhole
    /\ vfoUp = <<>> => before = vfoServer
    /\ vfoUp # <<>> /\ Head(vfoUp) \in PairGestures => before = vfoServer

\* Before the first gesture.
LEMMA VfoInitInv == Vfo!Init => VfoInv
  <1> SUFFICES ASSUME Vfo!Init
               PROVE  VfoInv
    OBVIOUS
  <1>1. /\ vfoUi = vfoServer /\ before = vfoServer /\ last = vfoServer /\ active = "a"
        /\ pend = FALSE /\ vfoUp = <<>> /\ vfoDown = <<>> /\ hasty = FALSE /\ copied = FALSE
        /\ vfoClicks = 0
    BY DEF Vfo!Init
  <1>2. vfoServer \in Vfo!States
    <2>1. {1, 2} \subseteq Pitches
      BY PanelsAssumption DEF PanelsAssumption, Vfo!VfoAssumption
    <2>2. PICK fa \in VfoFreqs, fb \in VfoFreqs, split \in BOOLEAN, txv \in {"a", "b"}, dw \in BOOLEAN :
            vfoServer = [a |-> [freq |-> fa, mode |-> "usb", ssb |-> 1, cw |-> 2,
                                dsp |-> FALSE, nb |-> FALSE, rit |-> FALSE],
                         b |-> [freq |-> fb, mode |-> "usb", ssb |-> 1, cw |-> 2,
                                dsp |-> FALSE, nb |-> FALSE, rit |-> FALSE],
                         vfo |-> [split |-> split, tx |-> txv, xit |-> FALSE, dw |-> dw]]
      BY DEF Vfo!Init
    <2>3. QED
      BY <2>1, <2>2 DEF Vfo!States, Vfo!Receivers, Vfo!Shared, Vfo!Modes
  <1>3. Vfo!TypeOK
    <2>1. VfoClicks \in Nat
      BY PanelsAssumption DEF PanelsAssumption, Vfo!VfoAssumption
    <2>2. {pend, hasty, copied} \subseteq BOOLEAN
      BY <1>1
    <2>3. {vfoServer, vfoUi, before, last} \subseteq Vfo!States
      BY <1>1, <1>2
    <2>4. active \in {"a", "b"} /\ vfoClicks \in 0..VfoClicks
      BY <1>1, <2>1
    <2>5. QED
      BY <2>2, <2>3, <2>4 DEF Vfo!TypeOK
  <1>4. Becomes(vfoServer, vfoUp, vfoServer)
    BY <1>1, <1>2, BecomesEmpty
  <1>5. Reported(vfoDown, last) /\ Agreed(vfoUi, vfoServer, last, vfoDown, copied)
    BY <1>1, LandsEmpty DEF Reported, Agreed, Follows
  <1>6. vfoUp \in Seq(Gestures) /\ vfoDown \in Seq(VfoEchoes)
    BY <1>1
  <1>7. Vfo!TxWhole
    BY <1>1 DEF Vfo!TxWhole
  <1>8. QED
    BY <1>1, <1>3, <1>4, <1>5, <1>6, <1>7 DEF VfoInv

\* A gesture of the client is done and sent.
Gestured(g) ==
    /\ vfoUi' = Vfo!Applied(vfoUi, g) /\ vfoUp' = Append(vfoUp, g)
    /\ UNCHANGED <<vfoServer, before, last, vfoDown, active, copied>>
    /\ vfoClicks < VfoClicks /\ vfoClicks' = vfoClicks + 1

\* A gesture waits for those before it.
LEMMA SentStep ==
    ASSUME VfoInv, Vfo!TypeOK', NEW g \in Gestures, vfoUp' = Append(vfoUp, g),
           UNCHANGED <<vfoServer, before, last, vfoDown>>,
           NEW e, Becomes(vfoServer, vfoUp, e),
           ~hasty' => Agreed(vfoUi', Vfo!Applied(e, g), last, vfoDown, copied')
    PROVE  VfoInv'
  <1>1. vfoUp \in Seq(Gestures) /\ vfoServer \in Vfo!States /\ vfoDown \in Seq(VfoEchoes)
    BY DEF VfoInv, Vfo!TypeOK
  <1>2. vfoUp' \in Seq(Gestures) /\ vfoUp' # <<>>
    BY <1>1
  <1>3. Head(vfoUp') = IF vfoUp = <<>> THEN g ELSE Head(vfoUp)
    BY <1>1
  <1>4. Becomes(vfoServer', vfoUp', Vfo!Applied(e, g))
    BY <1>1, BecomesAppend
  <1>5. Vfo!TxWhole'
    <2>1. CASE vfoUp = <<>>
      BY <1>2, <2>1 DEF VfoInv, Vfo!TxWhole
    <2>2. CASE vfoUp # <<>>
      BY <1>2, <1>3, <2>2 DEF VfoInv, Vfo!TxWhole
    <2>3. QED
      BY <2>1, <2>2
  <1>6. (vfoUp # <<>> /\ Head(vfoUp) \in PairGestures => before = vfoServer)'
    BY <1>3 DEF VfoInv
  <1>7. Reported(vfoDown, last)' /\ vfoDown' \in Seq(VfoEchoes)
    BY <1>1 DEF VfoInv
  <1>8. QED
    BY <1>2, <1>4, <1>5, <1>6, <1>7 DEF VfoInv

\* So with a gesture of settings that both sides apply alike.
LEMMA GestureStep ==
    ASSUME VfoInv, NEW g \in PairGestures \cup {<<c>> : c \in VfoSettings}, Gestured(g),
           pend' \in BOOLEAN, hasty' \in BOOLEAN, hasty => hasty',
           \A c \in VfoSettings : g = <<c>> /\ c.field = "pitch" /\ c.to = "b"
                                    => hasty' \/ Vfo!Settled
    PROVE  VfoInv'
  <1>1. vfoUi \in Vfo!States /\ vfoServer \in Vfo!States /\ copied \in BOOLEAN
    BY DEF VfoInv, Vfo!TypeOK
  <1>2. g \in Gestures
    BY DEF Gestures, VfoCommands
  <1>3. PICK e : /\ Becomes(vfoServer, vfoUp, e)
                 /\ ~hasty => Agreed(vfoUi, e, last, vfoDown, copied)
    BY DEF VfoInv
  <1>4. e \in Vfo!States
    BY <1>3 DEF Becomes
  <1>5. PICK x \in Vfo!States : x = Vfo!Applied(vfoUi, g)
    BY <1>1, <1>2, AppliedFacts
  <1>6. Vfo!TypeOK'
    <2>1. vfoUi' \in Vfo!States
      BY <1>5 DEF Gestured
    <2>2. vfoClicks' \in 0..VfoClicks
      <3>1. VfoClicks \in Nat /\ vfoClicks \in 0..VfoClicks
        BY PanelsAssumption DEF PanelsAssumption, Vfo!VfoAssumption, VfoInv, Vfo!TypeOK
      <3>2. QED
        BY <3>1 DEF Gestured
    <2>3. QED
      BY <2>1, <2>2 DEF Gestured, VfoInv, Vfo!TypeOK
  <1>7. ASSUME ~hasty'
        PROVE  Agreed(x, Vfo!Applied(e, g), last, vfoDown, copied)
    <2>1. Reported(vfoDown, last) /\ Agreed(vfoUi, e, last, vfoDown, copied)
      BY <1>3, <1>7 DEF VfoInv
    <2>2. CASE g \in PairGestures
      BY <1>1, <1>4, <1>5, <2>1, <2>2, AgreedPair
    <2>3. CASE g \in {<<c>> : c \in VfoSettings}
      <3>1. PICK c \in VfoSettings : g = <<c>>
        BY <2>3
      <3>2. c.field = "pitch" /\ c.to = "b" => vfoUi.b.mode = e.b.mode
        <4>1. SUFFICES ASSUME Vfo!Settled
                       PROVE  vfoUi.b.mode = e.b.mode
          BY <1>7, <3>1
        <4>2. vfoUp = <<>> /\ vfoDown = <<>> /\ last = vfoServer
          BY <4>1 DEF Vfo!Settled
        <4>3. e = vfoServer
          BY <1>1, <1>3, <4>2, BecomesEmpty
        <4>4. <<"b", "mode">> \in Confirmed \ PitchesOfB
          BY DEF Confirmed, PitchesOfB
        <4>5. At(vfoUi, <<"b", "mode">>) = At(e, <<"b", "mode">>)
          BY <1>1, <1>4, <2>1, <4>2, <4>3, <4>4, AgreedAtRest
        <4>6. QED
          BY <1>1, <1>4, <4>5, StateAt DEF At, Vfo!Receivers
      <3>3. Agreed(Vfo!Apply(vfoUi, c), Vfo!Apply(e, c), last, vfoDown, copied)
        BY <1>1, <1>4, <2>1, <3>2, AgreedSet
      <3>4. QED
        BY <1>1, <1>4, <1>5, <3>1, <3>3, AppliedFacts
    <2>4. QED
      BY <2>2, <2>3
  <1>8. vfoUi' = x /\ copied' = copied /\ vfoUp' = Append(vfoUp, g)
        /\ UNCHANGED <<vfoServer, before, last, vfoDown>>
    BY <1>5 DEF Gestured
  <1>9. QED
    BY <1>2, <1>3, <1>6, <1>7, <1>8, SentStep

\* The settings a control sends are settings.
LEMMA SettingFacts ==
    /\ \A v \in {"a", "b"}, f \in VfoFreqs : Vfo!Set(v, "freq", f) \in VfoSettings
    /\ \A v \in {"a", "b"}, m \in Vfo!Modes : Vfo!Set(v, "mode", m) \in VfoSettings
    /\ \A v \in {"a", "b"}, p \in Pitches : Vfo!Set(v, "pitch", p) \in VfoSettings
    /\ \A v \in {"a", "b"}, x \in BOOLEAN, f \in {"dsp", "nb", "rit"} :
         Vfo!Set(v, f, x) \in VfoSettings
    /\ \A x \in BOOLEAN, f \in {"split", "xit", "dw"} : Vfo!SetShared(f, x) \in VfoSettings
    /\ \A v \in {"a", "b"} : Vfo!SetShared("tx", v) \in VfoSettings
  BY DEF Vfo!Set, Vfo!SetShared, VfoSettings

\* A control that sets one thing, and reads nothing an echo changes.
LEMMA PlainStep ==
    ASSUME VfoInv, NEW c \in VfoSettings, c.field # "pitch", Gestured(<<c>>),
           pend' \in BOOLEAN, hasty' = hasty
    PROVE  VfoInv'
  <1>1. \A d \in VfoSettings : <<c>> = <<d>> => d.field # "pitch"
    <2>1. ASSUME NEW d \in VfoSettings, <<c>> = <<d>>
          PROVE  c = d
      BY <2>1
    <2>2. QED
      BY <2>1
  <1>2. <<c>> \in PairGestures \cup {<<d>> : d \in VfoSettings}
    OBVIOUS
  <1>3. PICK g : g = <<c>>
    OBVIOUS
  <1>4. hasty' \in BOOLEAN /\ (hasty => hasty')
    BY DEF VfoInv, Vfo!TypeOK
  <1>5. QED
    BY <1>1, <1>2, <1>3, <1>4, GestureStep

\* What the client is at.
LEMMA UiFacts ==
    ASSUME VfoInv
    PROVE  /\ vfoUi \in Vfo!States /\ active \in {"a", "b"} /\ pend \in BOOLEAN
           /\ \A v \in {"a", "b"} : {vfoUi[v].dsp, vfoUi[v].nb, vfoUi[v].rit} \subseteq BOOLEAN
           /\ {vfoUi.vfo.split, vfoUi.vfo.xit, vfoUi.vfo.dw} \subseteq BOOLEAN
           /\ vfoUi.vfo.tx \in {"a", "b"} /\ Vfo!Target \in {"a", "b"}
           /\ vfoUi["a"] = vfoUi.a /\ vfoUi["b"] = vfoUi.b
           /\ \A y \in {"ssb", "cw"} : vfoUi.a[y] \in Pitches
           /\ Vfo!Pitch(vfoUi.a) \in Pitches
  <1>1. vfoUi \in Vfo!States /\ active \in {"a", "b"} /\ pend \in BOOLEAN
    BY DEF VfoInv, Vfo!TypeOK
  <1>2. \A v \in {"a", "b"} : {vfoUi[v].dsp, vfoUi[v].nb, vfoUi[v].rit} \subseteq BOOLEAN
    BY <1>1, StateAt DEF Vfo!Receivers
  <1>3. /\ {vfoUi.vfo.split, vfoUi.vfo.xit, vfoUi.vfo.dw} \subseteq BOOLEAN
        /\ vfoUi.vfo.tx \in {"a", "b"}
    BY <1>1, StateAt DEF Vfo!Shared
  <1>4. Vfo!Target \in {"a", "b"}
    BY <1>1 DEF Vfo!Target
  <1>5. PICK r \in Vfo!Receivers : r = vfoUi.a
    BY <1>1, StateAt
  <1>6. \A y \in {"ssb", "cw"} : r[y] \in Pitches
    BY DEF Vfo!Receivers
  <1>7. Vfo!Pitch(r) \in Pitches
    BY <1>6 DEF Vfo!Pitch, Vfo!Slot
  <1>8. QED
    BY <1>1, <1>2, <1>3, <1>4, <1>5, <1>6, <1>7, StateAt

\* The controls of one VFO, and those the two share.
LEMMA ControlStep ==
    ASSUME VfoInv,
           \/ \E v \in {"a", "b"} : Vfo!Tune(v)
           \/ Vfo!Cat \/ Vfo!ModeA \/ Vfo!ModeB \/ Vfo!DspRow \/ Vfo!BlankerRow
           \/ Vfo!OffsetRow \/ Vfo!Split \/ Vfo!TxVfo \/ Vfo!DualWatch
    PROVE  VfoInv'
  <1> SUFFICES \E c \in VfoSettings :
                 c.field # "pitch" /\ Gestured(<<c>>) /\ pend' \in BOOLEAN /\ hasty' = hasty
    BY PlainStep
  <1>1. ASSUME NEW c \in VfoSettings, c.field # "pitch", Vfo!Gesture(<<c>>)
        PROVE  \E d \in VfoSettings :
                 d.field # "pitch" /\ Gestured(<<d>>) /\ pend' \in BOOLEAN /\ hasty' = hasty
    <2>1. Gestured(<<c>>) /\ pend' \in BOOLEAN /\ hasty' = hasty
      BY <1>1, UiFacts DEF Vfo!Gesture, Vfo!Send, Vfo!Forwarded, Gestured, Vfo!remote
    <2>2. QED
      BY <1>1, <2>1
  <1>2. \A v, f, x : Vfo!Set(v, f, x).field = f /\ Vfo!SetShared(f, x).field = f
    BY DEF Vfo!Set, Vfo!SetShared
  <1>3. CASE \E v \in {"a", "b"} : Vfo!Tune(v)
    <2>1. PICK v \in {"a", "b"}, f \in VfoFreqs : Vfo!Gesture(<<Vfo!Set(v, "freq", f)>>)
      BY <1>3 DEF Vfo!Tune
    <2>2. Vfo!Set(v, "freq", f) \in VfoSettings /\ Vfo!Set(v, "freq", f).field # "pitch"
      BY <1>2, SettingFacts
    <2>3. QED
      BY <1>1, <2>1, <2>2
  <1>4. CASE Vfo!ModeA
    <2>1. PICK m \in Vfo!Modes : /\ vfoUi' = Vfo!Applied(vfoUi, <<Vfo!Set("a", "mode", m)>>)
                                 /\ Vfo!Send(<<Vfo!Set("a", "mode", m)>>)
      BY <1>4 DEF Vfo!ModeA
    <2>2. PICK c \in VfoSettings : c = Vfo!Set("a", "mode", m)
      BY SettingFacts
    <2>3. pend' = TRUE /\ UNCHANGED <<hasty, copied>>
      BY <1>4 DEF Vfo!ModeA
    <2>4. Gestured(<<c>>)
      BY <2>1, <2>2, <2>3 DEF Vfo!Send, Vfo!Forwarded, Gestured, Vfo!remote
    <2>5. QED
      BY <1>2, <2>2, <2>3, <2>4
  <1>5. CASE Vfo!Cat
    BY <1>3, <1>4, <1>5 DEF Vfo!Cat
  <1>6. CASE Vfo!ModeB
    <2>1. PICK m \in Vfo!Modes : Vfo!Gesture(<<Vfo!Set("b", "mode", m)>>)
      BY <1>6 DEF Vfo!ModeB
    <2>2. Vfo!Set("b", "mode", m) \in VfoSettings /\ Vfo!Set("b", "mode", m).field # "pitch"
      BY <1>2, SettingFacts
    <2>3. QED
      BY <1>1, <2>1, <2>2
  <1>7. ASSUME NEW v \in {"a", "b"}, NEW f \in {"dsp", "nb", "rit"},
               Vfo!Gesture(<<Vfo!Set(v, f, ~vfoUi[v][f])>>)
        PROVE  \E d \in VfoSettings :
                 d.field # "pitch" /\ Gestured(<<d>>) /\ pend' \in BOOLEAN /\ hasty' = hasty
    <2>1. (~vfoUi[v][f]) \in BOOLEAN
      OBVIOUS
    <2>2. Vfo!Set(v, f, ~vfoUi[v][f]) \in VfoSettings
      BY <2>1, SettingFacts
    <2>3. Vfo!Set(v, f, ~vfoUi[v][f]).field # "pitch"
      BY <1>2
    <2>4. QED
      BY <1>1, <1>7, <2>2, <2>3
  <1>8. ASSUME NEW f \in {"split", "xit", "dw"}, NEW x \in BOOLEAN,
               Vfo!Gesture(<<Vfo!SetShared(f, x)>>)
        PROVE  \E d \in VfoSettings :
                 d.field # "pitch" /\ Gestured(<<d>>) /\ pend' \in BOOLEAN /\ hasty' = hasty
    <2>1. PICK c \in VfoSettings : c = Vfo!SetShared(f, x)
      BY SettingFacts
    <2>2. QED
      BY <1>1, <1>2, <1>8, <2>1
  <1>9. CASE Vfo!DspRow
    BY <1>7, <1>9, UiFacts DEF Vfo!DspRow
  <1>10. CASE Vfo!BlankerRow
    BY <1>7, <1>10, UiFacts DEF Vfo!BlankerRow
  <1>11. CASE Vfo!OffsetRow
    <2>1. CASE Vfo!Gesture(<<Vfo!Set("a", "rit", ~vfoUi.a.rit)>>)
      BY <1>7, <2>1, UiFacts
    <2>2. CASE Vfo!Gesture(<<Vfo!Set("b", "rit", ~vfoUi.b.rit)>>)
      BY <1>7, <2>2, UiFacts
    <2>3. CASE Vfo!Gesture(<<Vfo!SetShared("xit", ~vfoUi.vfo.xit)>>)
      BY <1>8, <2>3
    <2>4. QED
      BY <1>11, <2>1, <2>2, <2>3 DEF Vfo!OffsetRow
  <1>12. CASE Vfo!Split
    BY <1>8, <1>12 DEF Vfo!Split
  <1>13. CASE Vfo!DualWatch
    BY <1>8, <1>13 DEF Vfo!DualWatch
  <1>14. CASE Vfo!TxVfo
    <2>1. PICK v \in {"a", "b"} : Vfo!Gesture(<<Vfo!SetShared("tx", v)>>)
      BY <1>14 DEF Vfo!TxVfo
    <2>2. Vfo!SetShared("tx", v) \in VfoSettings /\ Vfo!SetShared("tx", v).field # "pitch"
      BY <1>2, SettingFacts
    <2>3. QED
      BY <1>1, <2>1, <2>2
  <1>15. QED
    BY <1>3, <1>4, <1>5, <1>6, <1>9, <1>10, <1>11, <1>12, <1>13, <1>14

\* The controls that send two commands.
LEMMA PairStep ==
    ASSUME VfoInv, Vfo!Band \/ Vfo!SelectModeB \/ Vfo!SwapTx
    PROVE  VfoInv'
  <1> SUFFICES \E g \in PairGestures : Gestured(g) /\ pend' \in BOOLEAN /\ hasty' = hasty
    <2>1. ASSUME NEW g \in PairGestures
          PROVE  \A c : g # <<c>>
      <3>1. PICK c, d : g = <<c, d>>
        BY PairsAreCommands
      <3>2. Len(g) = 2
        BY <3>1
      <3>3. QED
        BY <3>2
    <2>2. hasty \in BOOLEAN
      BY DEF VfoInv, Vfo!TypeOK
    <2>3. QED
      BY <2>1, <2>2, GestureStep
  <1>1. ASSUME NEW g \in PairGestures, Vfo!Gesture(g)
        PROVE  Gestured(g) /\ pend' \in BOOLEAN /\ hasty' = hasty
    BY <1>1, UiFacts DEF Vfo!Gesture, Vfo!Send, Vfo!Forwarded, Gestured, Vfo!remote
  <1>2. CASE Vfo!Band
    <2>1. PICK f \in VfoFreqs, m \in Vfo!Modes :
            /\ vfoUi' = Vfo!Applied(vfoUi, <<Vfo!Set("a", "freq", f), Vfo!Set("a", "mode", m)>>)
            /\ Vfo!Send(<<Vfo!Set("a", "freq", f), Vfo!Set("a", "mode", m)>>)
            /\ pend' = (pend \/ m # vfoUi.a.mode) /\ UNCHANGED <<hasty, copied>>
      BY <1>2 DEF Vfo!Band
    <2>2. PICK g : g = <<Vfo!Set("a", "freq", f), Vfo!Set("a", "mode", m)>>
      OBVIOUS
    <2>3. g \in PairGestures
      BY <2>2 DEF PairGestures
    <2>4. Gestured(g)
      BY <2>1, <2>2 DEF Vfo!Send, Vfo!Forwarded, Gestured, Vfo!remote
    <2>5. pend' \in BOOLEAN /\ hasty' = hasty
      BY <2>1, UiFacts
    <2>6. QED
      BY <2>3, <2>4, <2>5
  <1>3. CASE Vfo!SelectModeB
    <2>1. PICK m \in Vfo!Modes :
            Vfo!Gesture(<<Vfo!Set("b", "mode", m), Vfo!Set("b", "pitch", vfoUi.a[Vfo!Slot(m)])>>)
      BY <1>3 DEF Vfo!SelectModeB
    <2>2. vfoUi.a[Vfo!Slot(m)] \in Pitches
      BY UiFacts DEF Vfo!Slot
    <2>3. <<Vfo!Set("b", "mode", m), Vfo!Set("b", "pitch", vfoUi.a[Vfo!Slot(m)])>> \in PairGestures
      BY <2>2 DEF PairGestures
    <2>4. QED
      BY <1>1, <2>1, <2>3
  <1>4. CASE Vfo!SwapTx
    <2>1. PICK v \in {"a", "b"} : Vfo!Gesture(Vfo!SwapCommands(v))
      BY <1>4 DEF Vfo!SwapTx
    <2>2. PICK g \in PairGestures : g = Vfo!SwapCommands(v)
      BY DEF PairGestures
    <2>3. QED
      BY <1>1, <2>1, <2>2
  <1>5. QED
    BY <1>2, <1>3, <1>4

\* The controls that read what an echo may change, and the frame that applies a mode.
LEMMA HastyStep ==
    ASSUME VfoInv,
           \/ Vfo!ApplyModeControls \/ Vfo!ActiveVfo \/ Vfo!PitchRow \/ Vfo!CopyAToB
    PROVE  VfoInv'
  <1>1. /\ {vfoServer, vfoUi, before, last} \subseteq Vfo!States
        /\ active \in {"a", "b"} /\ pend \in BOOLEAN /\ hasty \in BOOLEAN /\ copied \in BOOLEAN
        /\ vfoClicks \in 0..VfoClicks /\ VfoClicks \in Nat
    BY PanelsAssumption DEF PanelsAssumption, Vfo!VfoAssumption, VfoInv, Vfo!TypeOK
  <1>2. PICK e \in Vfo!States : /\ Becomes(vfoServer, vfoUp, e)
                                /\ ~hasty => Agreed(vfoUi, e, last, vfoDown, copied)
    BY DEF VfoInv, Becomes
  <1>3. CASE Vfo!ApplyModeControls
    <2>1. PICK p \in Pitches : p = Vfo!Pitch(vfoUi.a)
      BY UiFacts
    <2>2. PICK c \in VfoSettings : c = Vfo!Set("a", "pitch", p)
      BY SettingFacts
    <2>3. /\ pend' = FALSE /\ vfoUp' = Append(vfoUp, <<c>>)
          /\ UNCHANGED <<vfoServer, before, last, vfoDown, vfoUi, active, hasty, copied, vfoClicks>>
      BY <1>3, <2>1, <2>2 DEF Vfo!ApplyModeControls, Vfo!Forwarded, Vfo!remote
    <2>4. Vfo!TypeOK'
      BY <1>1, <2>3 DEF Vfo!TypeOK
    <2>5. <<c>> \in Gestures
      BY DEF Gestures, VfoCommands
    <2>6. ~hasty => Agreed(vfoUi, Vfo!Apply(e, c), last, vfoDown, copied)
      <3>1. c.field = "pitch" /\ c.to = "a"
        BY <2>2 DEF Vfo!Set
      <3>2. QED
        BY <1>1, <1>2, <3>1, AgreedPitchOfA
    <2>7. Vfo!Applied(e, <<c>>) = Vfo!Apply(e, c)
      BY AppliedFacts
    <2>8. QED
      BY <1>2, <2>3, <2>4, <2>5, <2>6, <2>7, SentStep
  <1>4. CASE Vfo!ActiveVfo
    <2>1. /\ active' \in {"a", "b"}
          /\ UNCHANGED <<vfoServer, before, last, vfoDown, vfoUi, vfoUp, pend, hasty, copied,
                         vfoClicks>>
      BY <1>4 DEF Vfo!ActiveVfo, Vfo!remote
    <2>2. Vfo!TypeOK'
      BY <1>1, <2>1 DEF Vfo!TypeOK
    <2>3. Vfo!TxWhole'
      BY <2>1 DEF VfoInv, Vfo!TxWhole
    <2>4. QED
      BY <2>1, <2>2, <2>3 DEF VfoInv
  <1>5. CASE Vfo!PitchRow
    <2>1. PICK p \in Pitches :
            /\ vfoUi' = Vfo!Applied(vfoUi, <<Vfo!Set(Vfo!Target, "pitch", p)>>)
            /\ Vfo!Send(<<Vfo!Set(Vfo!Target, "pitch", p)>>)
      BY <1>5 DEF Vfo!PitchRow
    <2>2. hasty' = (hasty \/ ~Vfo!Settled) /\ UNCHANGED <<pend, copied>>
      BY <1>5 DEF Vfo!PitchRow
    <2>3. PICK v \in {"a", "b"} : v = Vfo!Target
      BY UiFacts
    <2>4. PICK c \in VfoSettings : c = Vfo!Set(v, "pitch", p)
      BY SettingFacts
    <2>5. /\ vfoUi' = Vfo!Applied(vfoUi, <<c>>) /\ vfoUp' = Append(vfoUp, <<c>>)
          /\ UNCHANGED <<vfoServer, before, last, vfoDown, active>>
          /\ vfoClicks < VfoClicks /\ vfoClicks' = vfoClicks + 1
      BY <2>1, <2>3, <2>4 DEF Vfo!Send, Vfo!Forwarded, Vfo!remote
    <2>6. Gestured(<<c>>)
      BY <2>2, <2>5 DEF Gestured
    <2>7. pend' \in BOOLEAN /\ hasty' \in BOOLEAN /\ (hasty => hasty')
          /\ (hasty' \/ Vfo!Settled)
      BY <1>1, <2>2
    <2>8. <<c>> \in PairGestures \cup {<<d>> : d \in VfoSettings}
      OBVIOUS
    <2>9. PICK g : g = <<c>>
      OBVIOUS
    <2>10. QED
      BY <2>6, <2>7, <2>8, GestureStep
  <1>6. CASE Vfo!CopyAToB
    <2>1. /\ vfoUp' = Append(vfoUp, <<Copying>>)
          /\ UNCHANGED <<vfoServer, before, last, vfoDown, active, pend>>
          /\ vfoClicks < VfoClicks /\ vfoClicks' = vfoClicks + 1
          /\ hasty' = (hasty \/ ~Vfo!Settled) /\ copied' = TRUE
      BY <1>6 DEF Vfo!CopyAToB, Vfo!Send, Vfo!Forwarded, Vfo!remote, Copying
    <2>2. vfoUi' = [vfoUi EXCEPT !.b = [vfoUi.a EXCEPT !.ssb = Vfo!Pitch(vfoUi.a),
                                                       !.cw = Vfo!Pitch(vfoUi.a)]]
      BY <1>6 DEF Vfo!CopyAToB
    <2>3. vfoUi' \in Vfo!States
      <3>1. PICK u \in Vfo!States : u = vfoUi
        BY <1>1
      <3>2. PICK p \in Pitches : p = Vfo!Pitch(vfoUi.a)
        BY UiFacts
      <3>3. PICK r \in Vfo!Receivers : r = u.a
        BY StateAt
      <3>4. [r EXCEPT !.ssb = p, !.cw = p] \in Vfo!Receivers
        BY DEF Vfo!Receivers
      <3>5. PICK x \in Vfo!Receivers : x = [r EXCEPT !.ssb = p, !.cw = p]
        BY <3>4
      <3>6. [u EXCEPT !.b = x] \in Vfo!States
        BY DEF Vfo!States
      <3>7. QED
        BY <2>2, <3>1, <3>2, <3>3, <3>5, <3>6
    <2>4. Vfo!TypeOK'
      <3>1. hasty' \in BOOLEAN /\ copied' \in BOOLEAN /\ pend' \in BOOLEAN
        BY <1>1, <2>1
      <3>2. vfoClicks' \in 0..VfoClicks
        BY <1>1, <2>1
      <3>3. {vfoServer', vfoUi', before', last'} \subseteq Vfo!States /\ active' \in {"a", "b"}
        BY <1>1, <2>1, <2>3
      <3>4. QED
        BY <3>1, <3>2, <3>3 DEF Vfo!TypeOK
    <2>5. <<Copying>> \in Gestures
      BY DEF Gestures, VfoCommands
    <2>6. ASSUME ~hasty'
          PROVE  Agreed(vfoUi', Vfo!Applied(e, <<Copying>>), last, vfoDown, TRUE)
      <3>1. Vfo!Settled /\ ~hasty
        BY <2>1, <2>6
      <3>2. vfoUp = <<>> /\ vfoDown = <<>> /\ last = vfoServer
        BY <3>1 DEF Vfo!Settled
      <3>3. e = vfoServer
        BY <1>1, <1>2, <3>2, BecomesEmpty
      <3>4. Agreed(vfoUi, e, e, <<>>, copied)
        BY <1>2, <3>1, <3>2, <3>3
      <3>5. PICK u \in Vfo!States : u = vfoUi
        BY <1>1
      <3>6. PICK k \in BOOLEAN : k = copied
        BY <1>1
      <3>7. PICK x \in Vfo!States : x = vfoUi'
        BY <2>3
      <3>8. x = [u EXCEPT !.b = [u.a EXCEPT !.ssb = Vfo!Pitch(u.a), !.cw = Vfo!Pitch(u.a)]]
        BY <2>2, <3>5, <3>7
      <3>9. Agreed(x, Vfo!Apply(e, Copying), e, <<>>, TRUE)
        BY <3>4, <3>5, <3>6, <3>8, AgreedCopied
      <3>10. Vfo!Applied(e, <<Copying>>) = Vfo!Apply(e, Copying)
        BY AppliedFacts
      <3>11. QED
        BY <3>2, <3>3, <3>7, <3>9, <3>10
    <2>7. QED
      BY <1>2, <2>1, <2>4, <2>5, <2>6, SentStep
  <1>7. QED
    BY <1>3, <1>4, <1>5, <1>6

\* The worker takes a command.
LEMMA ServeStep ==
    ASSUME VfoInv, Vfo!Serve
    PROVE  VfoInv'
  <1>1. /\ {vfoServer, vfoUi, before, last} \subseteq Vfo!States
        /\ vfoUp \in Seq(Gestures) /\ vfoDown \in Seq(VfoEchoes) /\ vfoUp # <<>>
    BY DEF VfoInv, Vfo!TypeOK, Vfo!Serve
  <1>2. PICK e : /\ Becomes(vfoServer, vfoUp, e)
                 /\ ~hasty => Agreed(vfoUi, e, last, vfoDown, copied)
    BY DEF VfoInv
  <1>3. /\ vfoServer' = Vfo!Apply(vfoServer, Head(Head(vfoUp)))
        /\ UNCHANGED <<vfoUi, active, pend, last, vfoDown, hasty, copied, vfoClicks>>
    BY DEF Vfo!Serve, Vfo!local
  <1>4. PICK g \in Gestures : g = Head(vfoUp)
    BY <1>1, HeadTailProperties
  <1>5. PICK w \in Seq(Gestures) : w = Tail(vfoUp)
    BY <1>1, HeadTailProperties
  <1>6. Reported(vfoDown, last)' /\ vfoDown' \in Seq(VfoEchoes)
    BY <1>1, <1>3 DEF VfoInv
  <1>7. Becomes(vfoServer', vfoUp', e) =>
          \E x : Becomes(vfoServer', vfoUp', x)
                 /\ (~hasty' => Agreed(vfoUi', x, last', vfoDown', copied'))
    BY <1>2, <1>3
  <1>8. CASE g \in {<<c>> : c \in VfoCommands}
    <2>1. PICK c \in VfoCommands : g = <<c>>
      BY <1>8
    <2>2. Head(g) = c /\ Tail(g) = <<>>
      BY <2>1
    <2>3. vfoServer' = Vfo!Apply(vfoServer, c) /\ vfoUp' = w /\ before' = vfoServer'
      BY <1>3, <1>4, <1>5, <2>2 DEF Vfo!Serve
    <2>4. PICK t \in Vfo!States : t = vfoServer'
      BY <1>1, <2>3, AppliedFacts
    <2>5. Becomes(vfoServer', vfoUp', e)
      <3>1. Vfo!Applied(vfoServer, g) = vfoServer'
        BY <1>1, <2>1, <2>3, AppliedFacts
      <3>2. Becomes(Vfo!Applied(vfoServer, Head(vfoUp)), Tail(vfoUp), e)
        BY <1>1, <1>2, BecomesTail
      <3>3. QED
        BY <1>4, <1>5, <2>3, <3>1, <3>2
    <2>6. Vfo!TypeOK'
      BY <1>3, <2>3, <2>4 DEF VfoInv, Vfo!TypeOK
    <2>7. Vfo!TxWhole'
      BY <2>3 DEF Vfo!TxWhole
    <2>8. QED
      BY <1>5, <1>6, <1>7, <2>3, <2>5, <2>6, <2>7 DEF VfoInv
  <1>9. CASE g \in PairGestures
    <2>1. PICK c \in VfoSettings, d \in VfoSettings : g = <<c, d>>
      BY <1>9, PairsAreCommands
    <2>2. Head(g) = c /\ Tail(g) = <<d>> /\ Tail(g) # <<>>
      BY <2>1
    <2>3. /\ vfoServer' = Vfo!Apply(vfoServer, c) /\ vfoUp' = <<<<d>>>> \o w
          /\ before' = before
      BY <1>3, <1>4, <1>5, <2>2 DEF Vfo!Serve
    <2>4. PICK t \in Vfo!States : t = vfoServer' /\ t = Vfo!Apply(vfoServer, c)
      BY <1>1, <2>3, StateSet
    <2>5. PICK y : y = vfoUp'
      OBVIOUS
    <2>6. <<d>> \in Gestures
      BY PairsAreCommands DEF Gestures
    <2>7. y \in Seq(Gestures) /\ y # <<>> /\ Head(y) = <<d>>
      <3>1. PICK v : v = <<<<d>>>>
        OBVIOUS
      <3>2. v \in Seq(Gestures)
        BY <2>6, <3>1
      <3>3. y = v \o w
        BY <2>3, <2>5, <3>1
      <3>4. y \in Seq(Gestures)
        BY <3>2, <3>3, ConcatProperties
      <3>5. y = <<<<d>>>> \o w
        BY <2>3, <2>5
      <3>6. Len(y) = 1 + Len(w) /\ y[1] = <<d>>
        BY <2>6, <3>5, Preceded
      <3>7. Len(w) \in Nat
        BY LenProperties
      <3>8. QED
        BY <3>4, <3>6, <3>7
    <2>8. Becomes(t, y, e)
      BY <1>1, <1>2, <1>4, <1>5, <2>1, <2>3, <2>4, <2>5, <2>7, BecomesHalf
    <2>9. Vfo!TypeOK'
      BY <1>3, <2>3, <2>4 DEF VfoInv, Vfo!TypeOK
    <2>10. Vfo!TxWhole'
      <3>1. before = vfoServer
        BY <1>1, <1>4, <1>9 DEF VfoInv
      <3>2. Vfo!TxFreq(t) \in {Vfo!TxFreq(vfoServer), Vfo!TxFreq(Vfo!Applied(vfoServer, <<c, d>>))}
        BY <1>1, <1>9, <2>1, <2>4, PairIsWhole
      <3>3. Vfo!Applied(vfoServer, <<c, d>>) = Vfo!Applied(t, <<d>>)
        BY <1>1, <2>4, AppliedFacts
      <3>4. Vfo!TxFreq(t) \in {Vfo!TxFreq(before)} \cup
              (IF y = <<>> THEN {} ELSE {Vfo!TxFreq(Vfo!Applied(t, Head(y)))})
        BY <2>7, <3>1, <3>2, <3>3
      <3>5. QED
        BY <2>3, <2>4, <2>5, <3>4 DEF Vfo!TxWhole
    <2>11. <<d>> \notin PairGestures
      BY PairsAreCommands
    <2>12. QED
      BY <1>6, <1>7, <2>4, <2>5, <2>7, <2>8, <2>9, <2>10, <2>11 DEF VfoInv
  <1>10. QED
    BY <1>8, <1>9 DEF Gestures

\* What the forwarder reports are the places an echo tells of.
LEMMA EchoedIsConfirmed == vfoServer \in Vfo!States => Vfo!Echoed = Confirmed
  BY StateAt DEF Vfo!Echoed, Confirmed

\* The forwarder reports what changed.
LEMMA PublishStep ==
    ASSUME VfoInv, Vfo!Publish
    PROVE  VfoInv'
  <1>1. /\ {vfoServer, vfoUi, before, last} \subseteq Vfo!States
        /\ vfoUp \in Seq(Gestures) /\ vfoDown \in Seq(VfoEchoes)
    BY DEF VfoInv, Vfo!TypeOK
  <1>2. /\ last' = vfoServer
        /\ UNCHANGED <<vfoUi, active, pend, vfoServer, vfoUp, before, hasty, copied, vfoClicks>>
    BY DEF Vfo!Publish, Vfo!local
  <1>3. PICK D : D = {p \in Confirmed : At(vfoServer, p) # At(last, p)}
    OBVIOUS
  <1>4. PICK m : m = [p \in D |-> At(vfoServer, p)]
    OBVIOUS
  <1>5. vfoDown' = IF D = {} THEN vfoDown ELSE Append(vfoDown, m)
    BY <1>1, <1>3, <1>4, EchoedIsConfirmed DEF Vfo!Publish, At
  <1>6. m \in VfoEchoes /\ DOMAIN m = D /\ \A p \in D : m[p] = At(vfoServer, p)
    BY <1>1, <1>3, <1>4 DEF VfoEchoes
  <1>7. vfoDown' \in Seq(VfoEchoes)
    BY <1>1, <1>5, <1>6
  <1>8. ASSUME NEW p \in Confirmed \ D, NEW x, NEW v,
               Lands(vfoDown, TellsAt(p), SaysAt(p, v), x, v)
        PROVE  Lands(vfoDown', TellsAt(p), SaysAt(p, v), x, v)
    <2>1. m \notin TellsAt(p)
      BY <1>6, <1>8 DEF TellsAt
    <2>2. Lands(Append(vfoDown, m), TellsAt(p), SaysAt(p, v), x, v)
      BY <1>1, <1>6, <1>8, <2>1, LandsAppendOther
    <2>3. QED
      BY <1>5, <1>8, <2>2
  <1>9. ASSUME NEW p \in D, NEW x
        PROVE  Lands(vfoDown', TellsAt(p), SaysAt(p, At(vfoServer, p)), x, At(vfoServer, p))
    <2>1. PICK v : v = At(vfoServer, p)
      OBVIOUS
    <2>2. m \in SaysAt(p, v)
      BY <1>6, <1>9, <2>1 DEF SaysAt, TellsAt
    <2>3. Lands(Append(vfoDown, m), TellsAt(p), SaysAt(p, v), x, v)
      BY <1>1, <1>6, <2>2, LandsAppendThis
    <2>4. vfoDown' = Append(vfoDown, m)
      BY <1>5, <1>9
    <2>5. QED
      BY <2>1, <2>3, <2>4
  <1>10. \A p \in Confirmed \ D : At(vfoServer, p) = At(last, p)
    BY <1>3
  <1>11. Reported(vfoDown', vfoServer)
    <2>1. SUFFICES ASSUME NEW p \in Confirmed
                   PROVE  Lands(vfoDown', TellsAt(p), SaysAt(p, At(vfoServer, p)),
                                At(vfoServer, p), At(vfoServer, p))
      BY DEF Reported
    <2>2. CASE p \in D
      BY <1>9, <2>2
    <2>3. CASE p \notin D
      <3>1. Lands(vfoDown, TellsAt(p), SaysAt(p, At(last, p)), At(last, p), At(last, p))
        BY DEF VfoInv, Reported
      <3>2. At(vfoServer, p) = At(last, p)
        BY <1>10, <2>3
      <3>3. QED
        BY <1>8, <2>3, <3>1, <3>2
    <2>4. QED
      BY <2>2, <2>3
  <1>12. ASSUME NEW e, Agreed(vfoUi, e, last, vfoDown, copied)
         PROVE  Agreed(vfoUi, e, vfoServer, vfoDown', copied)
    <2>1. ASSUME NEW p \in Confirmed, Follows(vfoUi, e, last, vfoDown, p)
          PROVE  Follows(vfoUi, e, vfoServer, vfoDown', p)
      <3>1. CASE p \in D
        BY <1>9, <3>1 DEF Follows
      <3>2. CASE p \notin D
        <4>1. At(vfoServer, p) = At(last, p)
          BY <1>10, <3>2
        <4>2. CASE Lands(vfoDown, TellsAt(p), SaysAt(p, At(last, p)), At(vfoUi, p), At(last, p))
          BY <1>8, <3>2, <4>1, <4>2 DEF Follows
        <4>3. CASE Lands(vfoDown, TellsAt(p), SaysAt(p, At(e, p)), At(vfoUi, p), At(e, p))
          BY <1>8, <3>2, <4>3 DEF Follows
        <4>4. QED
          BY <2>1, <4>2, <4>3 DEF Follows
      <3>3. QED
        BY <3>1, <3>2
    <2>2. QED
      BY <1>12, <2>1 DEF Agreed
  <1>13. \E e : Becomes(vfoServer, vfoUp, e)
                /\ (~hasty => Agreed(vfoUi, e, vfoServer, vfoDown', copied))
    BY <1>12 DEF VfoInv
  <1>14. Vfo!TypeOK'
    BY <1>1, <1>2 DEF VfoInv, Vfo!TypeOK
  <1>15. Vfo!TxWhole'
    BY <1>2 DEF VfoInv, Vfo!TxWhole
  <1>16. QED
    BY <1>2, <1>7, <1>11, <1>13, <1>14, <1>15 DEF VfoInv

\* The client takes an echo.
LEMMA ReceiveStep ==
    ASSUME VfoInv, Vfo!Receive
    PROVE  VfoInv'
  <1>1. /\ {vfoServer, vfoUi, before, last} \subseteq Vfo!States
        /\ vfoUp \in Seq(Gestures) /\ vfoDown \in Seq(VfoEchoes) /\ vfoDown # <<>>
    BY DEF VfoInv, Vfo!TypeOK, Vfo!Receive
  <1>2. /\ vfoUi' = Vfo!Merged(vfoUi, Head(vfoDown)) /\ vfoDown' = Tail(vfoDown)
        /\ UNCHANGED <<vfoServer, active, vfoUp, before, last, hasty, copied, vfoClicks>>
        /\ pend' \in BOOLEAN
    <2>1. pend \in BOOLEAN
      BY DEF VfoInv, Vfo!TypeOK
    <2>2. QED
      BY <2>1 DEF Vfo!Receive
  <1>3. PICK m \in VfoEchoes : m = Head(vfoDown)
    BY <1>1, HeadTailProperties
  <1>4. PICK u \in Vfo!States : /\ u = vfoUi' /\ DOMAIN m \subseteq Confirmed
                                /\ \A p \in Places : At(u, p) = IF p \in DOMAIN m THEN m[p]
                                                                ELSE At(vfoUi, p)
    BY <1>1, <1>2, <1>3, MergedAt
  <1>5. vfoDown' \in Seq(VfoEchoes)
    BY <1>1, <1>2, HeadTailProperties
  <1>6. ASSUME NEW p \in Confirmed, NEW v,
               Lands(vfoDown, TellsAt(p), SaysAt(p, v), At(vfoUi, p), v)
        PROVE  Lands(vfoDown', TellsAt(p), SaysAt(p, v), At(u, p), v)
    <2>1. m \notin TellsAt(p) => At(u, p) = At(vfoUi, p)
      BY <1>4, ConfirmedPlaces DEF TellsAt
    <2>2. m \in SaysAt(p, v) => At(u, p) = v
      BY <1>4, ConfirmedPlaces DEF TellsAt, SaysAt
    <2>3. Lands(Tail(vfoDown), TellsAt(p), SaysAt(p, v), At(u, p), v)
      BY <1>1, <1>3, <1>6, <2>1, <2>2, LandsTail
    <2>4. QED
      BY <1>2, <2>3
  <1>7. Reported(vfoDown', last)
    <2>1. SUFFICES ASSUME NEW p \in Confirmed, NEW v, v = At(last, p)
                   PROVE  Lands(vfoDown', TellsAt(p), SaysAt(p, v), v, v)
      BY DEF Reported
    <2>2. Lands(vfoDown, TellsAt(p), SaysAt(p, v), v, v)
      BY <2>1 DEF VfoInv, Reported
    <2>3. Lands(Tail(vfoDown), TellsAt(p), SaysAt(p, v), v, v)
      BY <1>1, <2>2, LandsTail
    <2>4. QED
      BY <1>2, <2>3
  <1>8. ASSUME NEW e, Agreed(vfoUi, e, last, vfoDown, copied)
        PROVE  Agreed(u, e, last, vfoDown', copied)
    <2>1. ASSUME NEW p \in Confirmed, Follows(vfoUi, e, last, vfoDown, p)
          PROVE  Follows(u, e, last, vfoDown', p)
      BY <1>6, <2>1 DEF Follows
    <2>2. ASSUME NEW v \in {"a", "b"}
          PROVE  At(u, <<v, "nb">>) = At(e, <<v, "nb">>)
      <3>1. <<v, "nb">> \in Places /\ <<v, "nb">> \notin Confirmed
        BY DEF Places, Confirmed, RxFields, SharedFields
      <3>2. QED
        BY <1>4, <1>8, <3>1 DEF Agreed
    <2>3. QED
      BY <1>8, <2>1, <2>2 DEF Agreed
  <1>9. \E e : Becomes(vfoServer, vfoUp, e)
               /\ (~hasty => Agreed(vfoUi', e, last, vfoDown', copied))
    BY <1>4, <1>8 DEF VfoInv
  <1>10. Vfo!TypeOK'
    BY <1>1, <1>2, <1>4 DEF VfoInv, Vfo!TypeOK
  <1>11. Vfo!TxWhole'
    BY <1>2 DEF VfoInv, Vfo!TxWhole
  <1>12. QED
    BY <1>2, <1>5, <1>7, <1>9, <1>10, <1>11 DEF VfoInv

\* The invariant is kept.
LEMMA VfoNextInv == VfoInv /\ Vfo!Next => VfoInv'
  <1> SUFFICES ASSUME VfoInv, Vfo!Next
               PROVE  VfoInv'
    OBVIOUS
  <1>1. QED
    BY ControlStep, PairStep, HastyStep, ServeStep, PublishStep, ReceiveStep DEF Vfo!Next

\* Once nothing is under way the client shows the VFOs of the worker.
LEMMA VfosAreShown == VfoInv => Vfo!VfosAsShown /\ Vfo!TxWhole
  <1> SUFFICES ASSUME VfoInv, Vfo!Settled, ~hasty
               PROVE  /\ vfoUi.vfo = vfoServer.vfo
                      /\ \A v \in {"a", "b"} :
                           Vfo!ButPitches(vfoUi[v]) = Vfo!ButPitches(vfoServer[v])
                      /\ ~copied => Vfo!BothPitches(vfoUi.b) = Vfo!BothPitches(vfoServer.b)
    BY DEF VfoInv, Vfo!VfosAsShown
  <1>1. PICK u \in Vfo!States : u = vfoUi
    BY DEF VfoInv, Vfo!TypeOK
  <1>2. PICK s \in Vfo!States : s = vfoServer
    BY DEF VfoInv, Vfo!TypeOK
  <1>3. vfoUp = <<>> /\ vfoDown = <<>> /\ last = vfoServer
    BY DEF Vfo!Settled
  <1>4. PICK k \in BOOLEAN : k = copied
    BY DEF VfoInv, Vfo!TypeOK
  <1>5. Agreed(u, s, s, <<>>, k)
    BY <1>1, <1>2, <1>3, <1>4, BecomesEmpty DEF VfoInv
  <1>6. /\ \A p \in Confirmed : At(u, p) = At(s, p) \/ (k /\ p \in PitchesOfB)
        /\ \A v \in {"a", "b"} : At(u, <<v, "nb">>) = At(s, <<v, "nb">>)
    BY <1>5, AgreedAtRest
  <1>7. u.vfo = s.vfo
    <2>1. \A f \in SharedFields : u["vfo"][f] = s["vfo"][f]
      <3>1. SUFFICES ASSUME NEW f \in SharedFields
                     PROVE  At(u, <<"vfo", f>>) = At(s, <<"vfo", f>>)
        BY DEF At
      <3>2. <<"vfo", f>> \in Confirmed \ PitchesOfB
        BY DEF Confirmed, PitchesOfB
      <3>3. QED
        BY <1>6, <3>2
    <2>2. PICK x \in Vfo!Shared : x = u.vfo
      BY StateAt
    <2>3. PICK y \in Vfo!Shared : y = s.vfo
      BY StateAt
    <2>4. \A f \in SharedFields : x[f] = y[f]
      BY <2>1, <2>2, <2>3, StateAt
    <2>5. x = y
      BY <2>4 DEF Vfo!Shared, SharedFields
    <2>6. QED
      BY <2>2, <2>3, <2>5
  <1>8. ASSUME NEW v \in {"a", "b"}
        PROVE  Vfo!ButPitches(u[v]) = Vfo!ButPitches(s[v])
    <2>1. ASSUME NEW f \in RxFields \ {"ssb", "cw"}
          PROVE  At(u, <<v, f>>) = At(s, <<v, f>>)
      <3>1. CASE f = "nb"
        BY <1>6, <3>1
      <3>2. CASE f # "nb"
        <4>1. <<v, f>> \in Confirmed \ PitchesOfB
          BY <3>2 DEF Confirmed, PitchesOfB, RxFields
        <4>2. QED
          BY <1>6, <4>1
      <3>3. QED
        BY <3>1, <3>2
    <2>2. PICK x : x = u[v]
      OBVIOUS
    <2>3. PICK y : y = s[v]
      OBVIOUS
    <2>4. \A f \in RxFields \ {"ssb", "cw"} : x[f] = y[f]
      BY <2>1, <2>2, <2>3 DEF At
    <2>5. DOMAIN x = RxFields /\ DOMAIN y = RxFields
      BY <2>2, <2>3, StateAt
    <2>6. Vfo!ButPitches(x) = Vfo!ButPitches(y)
      BY <2>4, <2>5 DEF Vfo!ButPitches
    <2>7. QED
      BY <2>2, <2>3, <2>6
  <1>9. ASSUME ~k
        PROVE  Vfo!BothPitches(u.b) = Vfo!BothPitches(s.b)
    <2>1. <<"b", "ssb">> \in Confirmed /\ <<"b", "cw">> \in Confirmed
      BY DEF Confirmed
    <2>2. At(u, <<"b", "ssb">>) = At(s, <<"b", "ssb">>) /\ At(u, <<"b", "cw">>) = At(s, <<"b", "cw">>)
      BY <1>6, <1>9, <2>1
    <2>3. PICK x \in Vfo!Receivers : x = u.b
      BY StateAt
    <2>4. PICK y \in Vfo!Receivers : y = s.b
      BY StateAt
    <2>5. x["ssb"] = y["ssb"] /\ x["cw"] = y["cw"]
      BY <2>2, <2>3, <2>4, StateAt DEF At
    <2>6. Vfo!BothPitches(x) = Vfo!BothPitches(y)
      BY <2>5 DEF Vfo!BothPitches, Vfo!Receivers
    <2>7. QED
      BY <2>3, <2>4, <2>6
  <1>10. QED
    BY <1>1, <1>2, <1>4, <1>7, <1>8, <1>9

(***************************************************************************)
(* A step of nobody.                                                       *)
(***************************************************************************)

\* What the modes are at stays.
LEMMA SyncUnchanged == SyncInv /\ UNCHANGED syncVars => SyncInv'
  BY DEF syncVars, SyncInv, Sync!TypeOK, ForwarderSees, FilterLands, ModeLands, PitchLands,
         EchoesAsTold, ModeShown, NoSnapshot

\* So does the dial.
LEMMA DialUnchanged == DialInv /\ UNCHANGED dialVars => DialInv'
  BY DEF dialVars, DialInv, Tuning!TypeOK, DialKept, EchoesPublished, TargetShown, CenterTuned,
         CenterShown, DragSent, Guiltless, Untouched, Tuned, Displays, Showing

\* So do the VFOs.
LEMMA VfoUnchanged == VfoInv /\ UNCHANGED vfoVars => VfoInv'
  BY DEF vfoVars, VfoInv, Vfo!TypeOK, Vfo!TxWhole

\* So do the settings of the source.
LEMMA SourceUnchanged == SourceInv /\ UNCHANGED sourceVars => SourceInv'
  BY DEF sourceVars, SourceInv, Source!TypeOK, TunerAsApplied, EchoesAsSeen, SourceBound,
         Bound, ShownAsBound, SavedAsBound, Shown, ReplayPending

(***************************************************************************)
(* The parts together.                                                     *)
(***************************************************************************)

\* The part that runs keeps its invariant.
PanelsInv ==
    /\ part = "sync" => SyncInv
    /\ part = "dial" => DialInv
    /\ part = "ptt" => PttInv
    /\ part = "vfo" => VfoInv
    /\ part = "source" => SourceInv
    /\ part = "store" => StoreInv

\* Whichever part starts, its invariant holds.
LEMMA PanelsInitInv == PartsInit => PanelsInv
  <1>1. PartsInit => /\ part = "sync" => Sync!Init
                     /\ part = "dial" => Tuning!Init
                     /\ part = "ptt" => Ptt!Init
                     /\ part = "vfo" => Vfo!Init
                     /\ part = "source" => Source!Init
                     /\ part = "store" => Store!Init
    BY DEF PartsInit
  <1>2. QED
    BY <1>1, SyncInitInv, DialInitInv, PttInitInv, VfoInitInv, SourceInitInv, StoreInitInv
    DEF PanelsInv

\* A step keeps every invariant; one of the keys or of the store, what it promises of steps.
LEMMA PanelsNextInv ==
    ASSUME PanelsInv, [PartsNext]_all
    PROVE  /\ PanelsInv'
           /\ [part = "ptt" => Ptt!KeyedByOwner' /\ Ptt!KeysUnderFinger]_pttVars
           /\ [part = "store" => Store!OwnPreferences' /\ Store!KeepsNewer]_storeVars
  <1>1. CASE SyncNext
    <2>1. SyncInv' /\ part = "sync" /\ part' = part
      BY <1>1, SyncNextInv DEF SyncNext, PanelsInv
    <2>2. UNCHANGED pttVars /\ UNCHANGED storeVars
      BY <1>1 DEF SyncNext
    <2>3. QED
      BY <2>1, <2>2 DEF PanelsInv
  <1>2. CASE TuningNext
    <2>1. DialInv' /\ part = "dial" /\ part' = part
      BY <1>2, DialNextInv DEF TuningNext, PanelsInv
    <2>2. UNCHANGED pttVars /\ UNCHANGED storeVars
      BY <1>2 DEF TuningNext
    <2>3. QED
      BY <2>1, <2>2 DEF PanelsInv
  <1>3. CASE PttNext
    <2>1. PttInv' /\ Ptt!KeysUnderFinger /\ part = "ptt" /\ part' = part
      BY <1>3, PttNextInv DEF PttNext, PanelsInv
    <2>2. Ptt!KeyedByOwner'
      BY <2>1 DEF PttInv, OwnersKey, ProgramKeys, SomeUnkeying, Ptt!KeyedByOwner
    <2>3. UNCHANGED storeVars
      BY <1>3 DEF PttNext
    <2>4. QED
      BY <2>1, <2>2, <2>3 DEF PanelsInv
  <1>4. CASE VfoNext
    <2>1. VfoInv' /\ part = "vfo" /\ part' = part
      BY <1>4, VfoNextInv DEF VfoNext, PanelsInv
    <2>2. UNCHANGED pttVars /\ UNCHANGED storeVars
      BY <1>4 DEF VfoNext
    <2>3. QED
      BY <2>1, <2>2 DEF PanelsInv
  <1>5. CASE SourceNext
    <2>1. SourceInv' /\ part = "source" /\ part' = part
      BY <1>5, SourceNextInv DEF SourceNext, PanelsInv
    <2>2. UNCHANGED pttVars /\ UNCHANGED storeVars
      BY <1>5 DEF SourceNext
    <2>3. QED
      BY <2>1, <2>2 DEF PanelsInv
  <1>6. CASE StoreNext
    <2>1. StoreInv' /\ Store!KeepsNewer /\ part = "store" /\ part' = part
      BY <1>6, StoreNextInv DEF StoreNext, PanelsInv
    <2>2. Store!OwnPreferences'
      BY <2>1 DEF StoreInv, FilesOK
    <2>3. UNCHANGED pttVars
      BY <1>6 DEF StoreNext
    <2>4. QED
      BY <2>1, <2>2, <2>3 DEF PanelsInv
  <1>7. CASE UNCHANGED all
    <2>1. /\ UNCHANGED part /\ UNCHANGED syncVars /\ UNCHANGED dialVars /\ UNCHANGED pttVars
          /\ UNCHANGED vfoVars /\ UNCHANGED sourceVars /\ UNCHANGED storeVars
      BY <1>7 DEF all
    <2>2. part = "sync" => SyncInv'
      BY <2>1, SyncUnchanged DEF PanelsInv
    <2>3. part = "dial" => DialInv'
      BY <2>1, DialUnchanged DEF PanelsInv
    <2>4. part = "ptt" => PttInv'
      BY <2>1, PttNextInv DEF PanelsInv
    <2>5. part = "vfo" => VfoInv'
      BY <2>1, VfoUnchanged DEF PanelsInv
    <2>6. part = "source" => SourceInv'
      BY <2>1, SourceUnchanged DEF PanelsInv
    <2>7. part = "store" => StoreInv'
      BY <2>1, StoreNextInv DEF PanelsInv
    <2>8. QED
      BY <2>1, <2>2, <2>3, <2>4, <2>5, <2>6, <2>7 DEF PanelsInv
  <1>8. QED
    BY <1>1, <1>2, <1>3, <1>4, <1>5, <1>6, <1>7 DEF PartsNext, Ended

\* The invariant holds throughout.
LEMMA PanelsInvariant == PartsSpec => []PanelsInv
  <1>1. PanelsInv /\ [PartsNext]_all => PanelsInv'
    BY PanelsNextInv
  <1>2. QED
    BY <1>1, PanelsInitInv, PTL DEF PartsSpec

\* Every variable of the part that runs has its type.
THEOREM PanelsTypeCorrect == PartsSpec => []AllTypeOK
  <1>1. PanelsInv => AllTypeOK
    BY StoreTypes
    DEF PanelsInv, AllTypeOK, SyncInv, DialInv, PttInv, VfoInv, SourceInv
  <1>2. QED
    BY <1>1, PanelsInvariant, PTL

\* The mode asked for last wins on both sides, and the filter in use is the one stored for
\* it: for any number of clicks and modes, and echoes under way.
THEOREM SettingsAlwaysFollow == PartsSpec => []SettingsFollow
  <1>1. PanelsInv => SettingsFollow
    BY SyncFollows DEF PanelsInv, SettingsFollow
  <1>2. QED
    BY <1>1, PanelsInvariant, PTL

\* At rest the dial shown is the one the radio is on, whatever echoes arrived within a frame:
\* but for the target of a last frame of a drag the throttle kept (held), and a centre put on
\* the dial and not sent (strayed), which neither a drag alone leaves nor who keeps to the
\* other controls than the wheel.  For any range, span, number of moves and sets of controls.
THEOREM RestAlwaysAgrees == PartsSpec => []RestAgrees
  <1>1. PanelsInv => RestAgrees
    BY DialAgrees DEF PanelsInv, RestAgrees
  <1>2. QED
    BY <1>1, PanelsInvariant, PTL

\* The VFOs shown are those of the radio, and a gesture shows no transmit frequency of its
\* own: for any frequencies, pitches and number of gestures.
THEOREM VfosStayWhole == PartsSpec => []VfosWhole
  <1>1. PanelsInv => VfosWhole
    BY VfosAreShown DEF PanelsInv, VfosWhole
  <1>2. QED
    BY <1>1, PanelsInvariant, PTL

\* The source settings shown are those of the worker, for any settings and number of edits,
\* restarts and echoes.
THEOREM SourceStaysAsShown == PartsSpec => []SourceAsShown
  <1>1. PanelsInv => SourceAsShown
    BY SourceIsShown DEF PanelsInv, SourceAsShown
  <1>2. QED
    BY <1>1, PanelsInvariant, PTL

\* Whoever keys the transmitter wants to, and Space keys only under a finger, in every step.
THEOREM KeyingStaysOwned == PartsSpec => KeyingIsOwned
  <1>1. PanelsInv /\ [PartsNext]_all
          => [part = "ptt" => Ptt!KeyedByOwner' /\ Ptt!KeysUnderFinger]_pttVars
    BY PanelsNextInv
  <1>2. QED
    BY <1>1, PanelsInvariant, PTL DEF PartsSpec, KeyingIsOwned

\* What is stored for an operator was set by that operator, and no step overwrites a file of
\* a newer build: for any operators and radios, and whichever writes fail.
THEOREM PreferencesStayKept == PartsSpec => PreferencesKept
  <1>1. PanelsInv /\ [PartsNext]_all
          => [part = "store" => Store!OwnPreferences' /\ Store!KeepsNewer]_storeVars
    BY PanelsNextInv
  <1>2. QED
    BY <1>1, PanelsInvariant, PTL DEF PartsSpec, PreferencesKept
=============================================================================
