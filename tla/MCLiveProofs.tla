---------------------------- MODULE MCLiveProofs ----------------------------
(***************************************************************************)
(* The safety properties of the components MCLive runs: the CW keyer for   *)
(* any ramp, hang time and guard, the client's connection for any servers  *)
(* and radios, the server's slot for any connections and hosts.  Each part *)
(* starts in its own initial state and only its own steps move it, so the  *)
(* invariant is the conjunction of theirs.                                 *)
(***************************************************************************)
EXTENDS MCLive, CwKeyerProofs, SequenceTheorems

(***************************************************************************)
(* The slot.                                                               *)
(***************************************************************************)

\* Who is served owns the slot, and the slot names somebody who is.
SlotInv == Slot!TypeOK /\ Slot!ServedOwnsSlot

\* No connection and no host is None.
LEMMA SlotApart == None \notin Conns /\ None \notin Hosts
  BY LiveAssumption DEF LiveAssumption, Slot!SlotAssumption

\* Nobody is connected yet.
LEMMA SlotInitInv == Slot!Init => SlotInv
  BY DEF Slot!Init, Slot!NoConn, SlotInv, Slot!TypeOK, Slot!ServedOwnsSlot

\* A connection opens with the slot as it is: the verdict comes later.
LEMMA SlotConnectInv ==
    ASSUME SlotInv, NEW k \in Conns, NEW h \in Hosts, Slot!Connect(k, h)
    PROVE  SlotInv'
  <1>1. slot # k
    BY SlotApart DEF SlotInv, Slot!TypeOK, Slot!Connect
  <1>2. Slot!TypeOK'
    BY <1>1 DEF SlotInv, Slot!TypeOK, Slot!Connect
  <1>3. Slot!ServedOwnsSlot'
    BY DEF SlotInv, Slot!TypeOK, Slot!ServedOwnsSlot, Slot!Connect
  <1>4. QED
    BY <1>2, <1>3 DEF SlotInv

\* The slot is taken only when it is free, and left only by the one that has it.
LEMMA SlotConnInv ==
    ASSUME SlotInv, NEW k \in Conns, Slot!Claim(k) \/ Slot!End(k) \/ Slot!Release(k)
    PROVE  SlotInv'
  <1> USE DEF SlotInv, Slot!TypeOK, Slot!ServedOwnsSlot, Slot!NoConn
  <1>1. CASE Slot!Claim(k) /\ slot = None
    BY <1>1, SlotApart DEF Slot!Claim
  <1>2. CASE Slot!Claim(k) /\ slot # None
    <2>1. slot # k
      BY <1>2 DEF Slot!Claim
    <2>2. QED
      BY <1>2, <2>1 DEF Slot!Claim
  <1>3. CASE Slot!End(k)
    BY <1>3 DEF Slot!End
  <1>4. CASE Slot!Release(k)
    <2>1. slot = k
      BY <1>4 DEF Slot!Release
    <2>2. slot' = None /\ stream' = None /\ UNCHANGED <<probing, net>>
          /\ conn' = [conn EXCEPT ![k] = Slot!NoConn]
      BY <1>4, <2>1 DEF Slot!Release
    <2>3. \A j \in Conns \ {k} : conn[j].at \notin {"served", "ended"}
      BY <2>1
    <2>4. QED
      BY <2>2, <2>3
  <1>5. QED
    BY <1>1, <1>2, <1>3, <1>4

\* The datagrams turn the stream, and never touch the slot.
LEMMA SlotNextInv ==
    ASSUME SlotInv, [Slot!Next]_slotVars
    PROVE  SlotInv'
  <1>1. CASE UNCHANGED slotVars
    BY <1>1 DEF slotVars, SlotInv, Slot!TypeOK, Slot!ServedOwnsSlot
  <1>2. ASSUME NEW h \in Hosts,
               Slot!Probe(h) \/ Slot!Quit(h) \/ Slot!Receive(h) \/ Slot!Lose(h)
        PROVE  SlotInv'
    BY <1>2 DEF SlotInv, Slot!TypeOK, Slot!ServedOwnsSlot, Slot!Probe, Slot!Quit,
                Slot!Receive, Slot!Lose
  <1>3. QED
    BY <1>1, <1>2, SlotConnectInv, SlotConnInv DEF Slot!Next

(***************************************************************************)
(* The connection.                                                         *)
(***************************************************************************)

\* A grant on its way names a radio.
GrantsName ==
    \A i \in 1..Len(inbox) : inbox[i].kind = "acquired" => inbox[i].radio \in Radios

\* What the reconnect timer aims at is a server, and the one asked for last: a Connect
\* that failed leaves an old address, but disarms the timer and is not connected.
AimsAsAsked ==
    /\ auto \/ armed => aim # None
    /\ armed \/ (auto /\ link # "none") => aim = asked

\* The radio to ask for again is wished for.
LastIsWished == last # None => wished

ConnInv == Connection!TypeOK /\ GrantsName /\ AimsAsAsked /\ LastIsWished

\* No server and no radio is None.
LEMMA NoneApart == None \notin Servers /\ None \notin Radios /\ InboxBound \in Nat \ {0}
  BY LiveAssumption DEF LiveAssumption, Connection!ClientAssumption

\* An inbox without a socket is a well-typed one.
LEMMA EmptyInbox ==
    /\ <<>> \in Seq(Connection!Messages) /\ Len(<<>>) <= InboxBound
    /\ \A i \in 1..Len(<<>>) : FALSE
  BY NoneApart

\* The task starts without a connection.
LEMMA ConnInitInv == Connection!Init => ConnInv
  <1> SUFFICES ASSUME Connection!Init PROVE ConnInv
    OBVIOUS
  <1>1. Connection!TypeOK
    BY EmptyInbox DEF Connection!Init, Connection!TypeOK
  <1>2. GrantsName /\ AimsAsAsked /\ LastIsWished
    BY EmptyInbox DEF Connection!Init, GrantsName, AimsAsAsked, LastIsWished
  <1>3. QED
    BY <1>1, <1>2 DEF ConnInv

\* A message that is no bare grant joins the inbox.
LEMMA InboxGrows ==
    ASSUME ConnInv, Len(inbox) < InboxBound, NEW m \in Connection!Messages,
           m.kind = "acquired" => m.radio \in Radios, inbox' = Append(inbox, m)
    PROVE  inbox' \in Seq(Connection!Messages) /\ Len(inbox') <= InboxBound /\ GrantsName'
  <1>1. inbox \in Seq(Connection!Messages)
    BY DEF ConnInv, Connection!TypeOK
  <1>2. inbox' \in Seq(Connection!Messages) /\ Len(inbox') = Len(inbox) + 1
        /\ \A i \in 1..Len(inbox) : inbox'[i] = inbox[i]
        /\ inbox'[Len(inbox) + 1] = m
    BY <1>1
  <1>3. Len(inbox') <= InboxBound
    BY <1>1, <1>2, NoneApart
  <1>4. \A i \in 1..Len(inbox') : i \in 1..Len(inbox) \/ i = Len(inbox) + 1
    BY <1>1, <1>2
  <1>5. GrantsName'
    BY <1>2, <1>4 DEF ConnInv, GrantsName
  <1>6. QED
    BY <1>2, <1>3, <1>5

\* A request that is answered, or not.
LEMMA RequestInbox ==
    ASSUME ConnInv, NEW answers \in SUBSET Connection!Messages, Connection!Request(answers),
           \A m \in answers : m.kind = "acquired" => m.radio \in Radios
    PROVE  inbox' \in Seq(Connection!Messages) /\ Len(inbox') <= InboxBound /\ GrantsName'
           /\ (link = "none" => inbox' = <<>>)
  <1>1. CASE UNCHANGED inbox
    BY <1>1 DEF ConnInv, Connection!TypeOK, GrantsName
  <1>2. CASE link = "open" /\ inbox' # inbox
    <2>1. Len(inbox) < InboxBound /\ \E m \in answers : inbox' = Append(inbox, m)
      BY <1>2 DEF Connection!Request
    <2>2. QED
      BY <1>2, <2>1, InboxGrows
  <1>3. link # "none" \/ inbox = <<>>
    BY DEF ConnInv, Connection!TypeOK
  <1>4. QED
    BY <1>1, <1>2, <1>3 DEF Connection!Request

\* The answers are messages.
LEMMA AnswersTyped ==
    /\ \A r \in Radios : Connection!AnswersToAcquire(r) \in SUBSET Connection!Messages
    /\ \A r \in Radios : \A m \in Connection!AnswersToAcquire(r) : m.radio \in Radios
    /\ {Connection!Msg("released", None)} \in SUBSET Connection!Messages
    /\ Connection!Msg("released", None).kind # "acquired"
    /\ Connection!Msg("ping", None) \in Connection!Messages
    /\ Connection!Msg("ping", None).kind # "acquired"
  BY DEF Connection!AnswersToAcquire, Connection!Msg, Connection!Messages, Connection!Kinds

\* A greeting fits.
LEMMA OpenedInbox ==
    ASSUME NEW s \in Servers, Connection!Opened(s)
    PROVE  /\ inbox' \in Seq(Connection!Messages) /\ Len(inbox') <= InboxBound /\ GrantsName'
           /\ link' \in {"open", "dead"} /\ server' = s /\ s # None
  <1>1. \E m \in Connection!Messages : inbox' = <<m>> /\ m.kind # "acquired"
    BY DEF Connection!Opened, Connection!Msg, Connection!Messages, Connection!Kinds
  <1>2. PICK m \in Connection!Messages : inbox' = <<m>> /\ m.kind # "acquired"
    BY <1>1
  <1>3. inbox' \in Seq(Connection!Messages) /\ Len(inbox') = 1 /\ inbox'[1] = m
    BY <1>2
  <1>4. Len(inbox') <= InboxBound
    BY <1>3, NoneApart
  <1>5. \A i \in 1..Len(inbox') : inbox'[i] = m
    BY <1>3
  <1>6. GrantsName'
    BY <1>2, <1>5 DEF GrantsName
  <1>7. link' \in {"open", "dead"} /\ server' = s /\ s # None
    BY NoneApart DEF Connection!Opened
  <1>8. QED
    BY <1>3, <1>4, <1>6, <1>7

\* A message is taken.
LEMMA InboxShrinks ==
    ASSUME ConnInv, inbox # <<>>, inbox' = Tail(inbox)
    PROVE  inbox' \in Seq(Connection!Messages) /\ Len(inbox') <= InboxBound /\ GrantsName'
  <1>1. inbox \in Seq(Connection!Messages) /\ Len(inbox) <= InboxBound
    BY DEF ConnInv, Connection!TypeOK
  <1>2. /\ inbox' \in Seq(Connection!Messages) /\ Len(inbox') = Len(inbox) - 1
        /\ \A i \in 1..Len(inbox') : i + 1 \in 1..Len(inbox) /\ inbox'[i] = inbox[i + 1]
    BY <1>1
  <1>3. Len(inbox') <= InboxBound
    BY <1>1, <1>2, NoneApart
  <1>4. GrantsName'
    BY <1>2 DEF ConnInv, GrantsName
  <1>5. QED
    BY <1>2, <1>3, <1>4

\* The head of the inbox is a message, and a grant names a radio.
LEMMA HeadTyped ==
    ASSUME ConnInv, inbox # <<>>
    PROVE  Head(inbox) \in Connection!Messages
           /\ (Head(inbox).kind = "acquired" => Head(inbox).radio \in Radios)
  <1>1. inbox \in Seq(Connection!Messages)
    BY DEF ConnInv, Connection!TypeOK
  <1>2. 1 \in 1..Len(inbox) /\ Head(inbox) = inbox[1] /\ inbox[1] \in Connection!Messages
    BY <1>1
  <1>3. QED
    BY <1>2 DEF ConnInv, GrantsName

\* The user's commands.
LEMMA UserInv ==
    ASSUME ConnInv, Connection!UserStep
    PROVE  ConnInv'
  <1> USE DEF Connection!reconnecting, Connection!reacquiring, Connection!socket
  <1>1. ASSUME NEW r \in Radios, Connection!UserAcquire(r)
        PROVE  ConnInv'
    <2>1. inbox' \in Seq(Connection!Messages) /\ Len(inbox') <= InboxBound /\ GrantsName'
          /\ UNCHANGED <<link, server>>
      <3>1. CASE Connection!Request(Connection!AnswersToAcquire(r))
        BY <3>1, RequestInbox, AnswersTyped DEF Connection!Request
      <3>2. CASE UNCHANGED <<link, server, inbox>>
        BY <3>2 DEF ConnInv, Connection!TypeOK, GrantsName
      <3>3. QED
        BY <1>1, <3>1, <3>2 DEF Connection!UserAcquire
    <2>2. last' \in Radios \union {None} /\ wished' = TRUE /\ link # "none"
      BY <1>1 DEF Connection!UserAcquire, ConnInv, Connection!TypeOK
    <2>3. UNCHANGED <<alive, auto, aim, armed, rejected, manual, again, window, acquired, asked, held>>
      BY <1>1 DEF Connection!UserAcquire
    <2>4. QED
      BY <2>1, <2>2, <2>3 DEF ConnInv, Connection!TypeOK, AimsAsAsked, LastIsWished
  <1>2. CASE Connection!UserRelease
    <2>1. inbox' \in Seq(Connection!Messages) /\ Len(inbox') <= InboxBound /\ GrantsName'
          /\ UNCHANGED <<link, server>> /\ (link = "none" => inbox' = <<>>)
      <3>1. CASE link = "none"
        BY <1>2, <3>1 DEF Connection!UserRelease, ConnInv, Connection!TypeOK, GrantsName
      <3>2. CASE Connection!Request({Connection!Msg("released", None)})
        BY <3>2, RequestInbox, AnswersTyped DEF Connection!Request
      <3>3. QED
        BY <1>2, <3>1, <3>2 DEF Connection!UserRelease
    <2>2. /\ last' = None /\ again' = FALSE /\ window' = "none" /\ alive' \in BOOLEAN
          /\ wished' = FALSE /\ held' = None
          /\ UNCHANGED <<auto, aim, armed, rejected, manual, acquired, asked>>
      BY <1>2 DEF Connection!UserRelease, Connection!SendOrDie, ConnInv, Connection!TypeOK
    <2>3. QED
      BY <2>1, <2>2 DEF ConnInv, Connection!TypeOK, AimsAsAsked, LastIsWished
  <1>3. ASSUME NEW s \in Servers, Connection!UserConnect(s)
        PROVE  ConnInv'
    <2>1. /\ link = "none" /\ armed' = FALSE /\ asked' = s
          /\ UNCHANGED <<alive, last, again, window, acquired, wished, held>>
      BY <1>3 DEF Connection!UserConnect
    <2>2. CASE Connection!Opened(s) /\ auto' = TRUE /\ aim' = s /\ rejected' = "none"
               /\ manual' = TRUE
      BY <2>1, <2>2, OpenedInbox
      DEF ConnInv, Connection!TypeOK, AimsAsAsked, LastIsWished
    <2>3. CASE UNCHANGED <<link, server, inbox, auto, aim, rejected, manual>>
      <3>1. Connection!TypeOK'
        <4>1. armed' \in BOOLEAN /\ asked' \in Servers \union {None}
          BY <2>1
        <4>2. UNCHANGED <<alive, link, server, inbox, auto, aim, rejected, manual, last, again,
                          window, acquired, wished, held>>
          BY <2>1, <2>3
        <4>3. QED
          BY <4>1, <4>2 DEF ConnInv, Connection!TypeOK
      <3>2. (GrantsName /\ AimsAsAsked /\ LastIsWished)'
        BY <2>1, <2>3 DEF ConnInv, GrantsName, AimsAsAsked, LastIsWished
      <3>3. QED
        BY <3>1, <3>2 DEF ConnInv
    <2>4. QED
      BY <1>3, <2>2, <2>3 DEF Connection!UserConnect
  <1>4. CASE Connection!UserDisconnect
    <2>1. Connection!TypeOK'
      BY <1>4, EmptyInbox DEF Connection!UserDisconnect, Connection!NoLink, ConnInv,
         Connection!TypeOK
    <2>2. (GrantsName /\ AimsAsAsked /\ LastIsWished)'
      BY <1>4, EmptyInbox DEF Connection!UserDisconnect, Connection!NoLink, GrantsName,
         AimsAsAsked, LastIsWished
    <2>3. QED
      BY <2>1, <2>2 DEF ConnInv
  <1>5. QED
    BY <1>1, <1>2, <1>3, <1>4 DEF Connection!UserStep

\* The server's messages.
LEMMA ReceiveInv ==
    ASSUME ConnInv, Connection!Receive
    PROVE  ConnInv'
  <1> USE DEF Connection!reacquiring
  <1>1. /\ link # "none" /\ server \in Servers /\ inbox # <<>>
        /\ UNCHANGED <<last, again, window>>
    BY DEF Connection!Receive, ConnInv, Connection!TypeOK
  <1>2. CASE Connection!Busy /\ Connection!GiveUp
    <2>1. /\ Connection!NoLink /\ rejected' = "none" /\ auto' = FALSE /\ armed' = FALSE
          /\ aim' = None /\ acquired' = FALSE /\ asked' = None
          /\ UNCHANGED <<alive, manual, wished, held>>
      BY <1>2 DEF Connection!Busy
    <2>2. QED
      <3>1. Connection!TypeOK'
        BY <1>1, <2>1, EmptyInbox DEF Connection!NoLink, ConnInv, Connection!TypeOK
      <3>2. (GrantsName /\ AimsAsAsked /\ LastIsWished)'
        BY <1>1, <2>1, EmptyInbox DEF Connection!NoLink, ConnInv, GrantsName, AimsAsAsked,
           LastIsWished
      <3>3. QED
        BY <3>1, <3>2 DEF ConnInv
  <1>3. CASE Connection!Busy /\ ~Connection!GiveUp
    <2>1. /\ inbox' = Tail(inbox) /\ rejected' \in {"none", "recent", "overdue"}
          /\ UNCHANGED <<link, server, auto, armed, aim, acquired, asked>>
          /\ UNCHANGED <<alive, manual, wished, held>>
      BY <1>3 DEF Connection!Busy, ConnInv, Connection!TypeOK
    <2>2. QED
      BY <1>1, <2>1, InboxShrinks DEF ConnInv, Connection!TypeOK, AimsAsAsked, LastIsWished
  <1>4. CASE Connection!Message(Head(inbox))
    <2>1. inbox' = Tail(inbox) /\ UNCHANGED <<link, server, auto, aim, armed, manual, asked, wished>>
      BY <1>4 DEF Connection!Message
    <2>2. rejected' \in {"none", "recent", "overdue"} /\ alive' \in BOOLEAN
      BY <1>4 DEF Connection!Message, Connection!SendOrDie, ConnInv, Connection!TypeOK
    <2>3. acquired' \in BOOLEAN
      BY <1>4 DEF Connection!Message, ConnInv, Connection!TypeOK
    <2>4. held' \in [server : Servers, radio : Radios] \union {None}
      BY <1>1, <1>4, HeadTyped DEF Connection!Message, ConnInv, Connection!TypeOK
    <2>5. QED
      BY <1>1, <2>1, <2>2, <2>3, <2>4, InboxShrinks
      DEF ConnInv, Connection!TypeOK, AimsAsAsked, LastIsWished
  <1>5. QED
    BY <1>2, <1>3, <1>4 DEF Connection!Receive

\* The timers, and the other arms of the task.
LEMMA TaskInv ==
    ASSUME ConnInv, Connection!TaskStep
    PROVE  ConnInv'
  <1> USE DEF Connection!reconnecting, Connection!reacquiring, Connection!socket,
              Connection!history
  <1>1. CASE Connection!OtherSend
    <2>1. alive' \in BOOLEAN
      BY <1>1 DEF Connection!OtherSend, Connection!SendOrDie
    <2>2. UNCHANGED <<link, server, inbox, auto, aim, armed, rejected, manual, last, again,
                      window, acquired, asked, wished, held>>
      BY <1>1 DEF Connection!OtherSend
    <2>3. Connection!TypeOK'
      BY <2>1, <2>2 DEF ConnInv, Connection!TypeOK
    <2>4. (GrantsName /\ AimsAsAsked /\ LastIsWished)'
      BY <2>2 DEF ConnInv, GrantsName, AimsAsAsked, LastIsWished
    <2>5. QED
      BY <2>3, <2>4 DEF ConnInv
  <1>2. CASE Connection!Receive
    BY <1>2, ReceiveInv
  <1>3. CASE Connection!SocketEnds
    <2>1. /\ link' = "none" /\ server' = None /\ inbox' = <<>> /\ link = "dead"
          /\ armed' = (auto \/ armed) /\ acquired' = FALSE
          /\ UNCHANGED <<alive, auto, aim, rejected, manual, last, again, window, asked,
                         wished, held>>
      BY <1>3 DEF Connection!SocketEnds, Connection!NoLink
    <2>2. Connection!TypeOK'
      <3>1. /\ armed' \in BOOLEAN /\ acquired' \in BOOLEAN
            /\ server' \in Servers \union {None}
        BY <2>1 DEF ConnInv, Connection!TypeOK
      <3>2. inbox' \in Seq(Connection!Messages) /\ Len(inbox') <= InboxBound
        BY <2>1, EmptyInbox
      <3>3. QED
        BY <2>1, <3>1, <3>2 DEF ConnInv, Connection!TypeOK
    <2>3. (GrantsName /\ AimsAsAsked /\ LastIsWished)'
      BY <2>1, EmptyInbox DEF ConnInv, GrantsName, AimsAsAsked, LastIsWished
    <2>4. QED
      BY <2>2, <2>3 DEF ConnInv
  <1>4. CASE Connection!Reconnected
    <2>1. /\ armed /\ aim \in Servers /\ aim = asked /\ Connection!Opened(aim)
          /\ armed' = FALSE /\ manual' = FALSE
          /\ UNCHANGED <<alive, auto, aim, rejected, last, acquired, asked, wished, held>>
      BY <1>4 DEF Connection!Reconnected, ConnInv, AimsAsAsked, Connection!TypeOK
    <2>2. again' \in BOOLEAN /\ window' \in {"none", "running", "passed"}
      BY <1>4 DEF Connection!Reconnected, ConnInv, Connection!TypeOK
    <2>3. QED
      BY <2>1, <2>2, OpenedInbox DEF ConnInv, Connection!TypeOK, AimsAsAsked, LastIsWished
  <1>5. CASE Connection!ReconnectFails
    BY <1>5 DEF Connection!ReconnectFails, Connection!vars, ConnInv, Connection!TypeOK,
       GrantsName, AimsAsAsked, LastIsWished
  <1>6. CASE Connection!Reacquire
    <2>1. /\ last \in Radios /\ link # "none" /\ UNCHANGED <<link, server>>
          /\ Connection!Request(Connection!AnswersToAcquire(last))
          /\ UNCHANGED <<alive, auto, aim, armed, rejected, manual, last, again, window,
                         acquired, asked, wished, held>>
      BY <1>6 DEF Connection!Reacquire, Connection!Request, ConnInv, Connection!TypeOK
    <2>2. QED
      BY <2>1, RequestInbox, AnswersTyped
      DEF ConnInv, Connection!TypeOK, AimsAsAsked, LastIsWished
  <1>7. CASE Connection!ReacquireEnds
    <2>1. /\ again' = FALSE /\ last' \in {last, None}
          /\ window' \in {"none", "running", "passed"}
          /\ UNCHANGED <<alive, link, server, inbox, auto, aim, armed, rejected, manual,
                         acquired, asked, wished, held>>
      BY <1>7 DEF Connection!ReacquireEnds, ConnInv, Connection!TypeOK
    <2>2. Connection!TypeOK'
      <3>1. last' \in Radios \union {None} /\ again' \in BOOLEAN
        BY <2>1 DEF ConnInv, Connection!TypeOK
      <3>2. QED
        BY <2>1, <3>1 DEF ConnInv, Connection!TypeOK
    <2>3. (GrantsName /\ AimsAsAsked /\ LastIsWished)'
      BY <2>1 DEF ConnInv, GrantsName, AimsAsAsked, LastIsWished
    <2>4. QED
      BY <2>2, <2>3 DEF ConnInv
  <1>8. QED
    BY <1>1, <1>2, <1>3, <1>4, <1>5, <1>6, <1>7 DEF Connection!TaskStep

\* The network, the server and time.
LEMMA EnvironmentInv ==
    ASSUME ConnInv, Connection!Environment
    PROVE  ConnInv'
  <1> USE DEF Connection!reconnecting, Connection!reacquiring, Connection!socket,
              Connection!history
  <1>1. CASE Connection!LinkDies
    <2>1. PICK n \in 0..Len(inbox) : inbox' = SubSeq(inbox, 1, n)
      BY <1>1 DEF Connection!LinkDies
    <2>2. inbox \in Seq(Connection!Messages) /\ Len(inbox) <= InboxBound
      BY DEF ConnInv, Connection!TypeOK
    <2>3. /\ inbox' \in Seq(Connection!Messages) /\ Len(inbox') = n
          /\ \A i \in 1..n : i \in 1..Len(inbox) /\ inbox'[i] = inbox[i]
      BY <2>1, <2>2, SubSeqProperties
    <2>4. Len(inbox') <= InboxBound
      BY <2>2, <2>3, NoneApart
    <2>5. GrantsName'
      BY <2>3 DEF ConnInv, GrantsName
    <2>6. QED
      BY <1>1, <2>3, <2>4, <2>5 DEF Connection!LinkDies, ConnInv, Connection!TypeOK,
         AimsAsAsked, LastIsWished
  <1>2. CASE Connection!Ping
    BY <1>2, InboxGrows, AnswersTyped DEF Connection!Ping, ConnInv, Connection!TypeOK,
       AimsAsAsked, LastIsWished
  <1>3. CASE Connection!DeadlinePasses \/ Connection!StreakAges
    BY <1>3 DEF Connection!DeadlinePasses, Connection!StreakAges, ConnInv, Connection!TypeOK,
       GrantsName, AimsAsAsked, LastIsWished
  <1>4. QED
    BY <1>1, <1>2, <1>3 DEF Connection!Environment

\* Every step of the task, its user or its environment keeps the invariant.
LEMMA ConnNextInv ==
    ASSUME ConnInv, [Connection!Next]_connVars
    PROVE  ConnInv'
  <1>1. CASE UNCHANGED connVars \/ UNCHANGED Connection!vars
    BY <1>1 DEF connVars, Connection!vars, Connection!reconnecting, Connection!reacquiring,
       Connection!socket, Connection!history, ConnInv, Connection!TypeOK, GrantsName,
       AimsAsAsked, LastIsWished
  <1>2. QED
    BY <1>1, UserInv, TaskInv, EnvironmentInv DEF Connection!Next, Connection!Closed

\* A connection opens at the user's word, or because the timer was armed.
LEMMA OpensAsAsked ==
    ASSUME ConnInv, [Connection!Next]_connVars, link = "none", link' # "none"
    PROVE  server' = asked'
  <1>1. Connection!Next /\ link' # link
    BY DEF connVars
  <1>2. (\E s \in Servers : Connection!UserConnect(s)) \/ Connection!Reconnected
    BY <1>1 DEF Connection!Next, Connection!UserStep, Connection!TaskStep,
       Connection!Environment, Connection!Closed, Connection!UserAcquire,
       Connection!UserRelease, Connection!UserDisconnect, Connection!NoLink,
       Connection!Request, Connection!OtherSend, Connection!Receive, Connection!SocketEnds,
       Connection!ReconnectFails, Connection!Reacquire, Connection!ReacquireEnds,
       Connection!LinkDies, Connection!Ping, Connection!DeadlinePasses,
       Connection!StreakAges, Connection!socket, Connection!vars
  <1>3. CASE Connection!Reconnected
    BY <1>3 DEF Connection!Reconnected, Connection!Opened, Connection!history, ConnInv,
       AimsAsAsked
  <1>4. CASE \E s \in Servers : Connection!UserConnect(s)
    BY <1>1, <1>4 DEF Connection!UserConnect, Connection!Opened, Connection!socket
  <1>5. QED
    BY <1>2, <1>3, <1>4

(***************************************************************************)
(* All of them.                                                            *)
(***************************************************************************)

LiveInv == CwInv /\ ConnInv /\ SlotInv

\* A step is a step of one component, and leaves the others alone.
LEMMA PartsSteps ==
    ASSUME [PartsNext]_all
    PROVE  /\ [Next]_vars
           /\ [Connection!Next]_connVars /\ [Slot!Next]_slotVars
  <1>1. UNCHANGED all => UNCHANGED <<vars, connVars, slotVars>>
    BY DEF all
  <1>2. QED
    BY <1>1 DEF PartsNext, KeyerNext, ConnectionNext, SlotNext, AudioNext,
       StoreNext, CaptureNext, Ended

\* The components start in their own initial states, whichever of them runs.
LEMMA LiveInvariance == PartsSpec => []LiveInv
  <1>1. PartsInit => LiveInv
    BY CwInitInv, ConnInitInv, SlotInitInv
    DEF PartsInit, LiveInv
  <1>2. LiveInv /\ [PartsNext]_all => LiveInv'
    <2> SUFFICES ASSUME LiveInv, [PartsNext]_all PROVE LiveInv'
      OBVIOUS
    <2>1. CwInv'
      BY PartsSteps, CwNextInv DEF LiveInv
    <2>2. ConnInv'
      BY PartsSteps, ConnNextInv DEF LiveInv
    <2>3. SlotInv'
      BY PartsSteps, SlotNextInv DEF LiveInv
    <2>4. QED
      BY <2>1, <2>2, <2>3 DEF LiveInv
  <1>3. QED
    BY <1>1, <1>2, PTL DEF PartsSpec

\* The keyer, the connection and the slot keep their types: a connection
\* has a server as long as it has a socket, and the slot names one that is served.
THEOREM LiveTypeCorrect == PartsSpec => []AllTypeOK
  <1>1. LiveInv => AllTypeOK
    BY DEF LiveInv, AllTypeOK, CwInv, ConnInv, SlotInv
  <1>2. QED
    BY <1>1, LiveInvariance, PTL

\* However claims, ends and releases of any number of connections interleave, whoever is
\* served owns the slot, so that there is one of them.
THEOREM OneIsServed == PartsSpec => []ServedOwnsSlot
  <1>1. LiveInv => ServedOwnsSlot
    BY DEF LiveInv, SlotInv, ServedOwnsSlot
  <1>2. QED
    BY <1>1, LiveInvariance, PTL

\* Whatever the timers, the drops and the messages still on their way do, the client
\* opens a connection only to the server last asked for, and asks by itself only for a
\* radio that was not released.
THEOREM UserIsRespected == PartsSpec => UserRespected
  <1>1. LiveInv /\ [PartsNext]_all =>
           [link = "none" /\ link' # "none" => server' = asked']_Connection!vars
    BY PartsSteps, OpensAsAsked DEF LiveInv
  <1>2. LiveInv => [Connection!Reacquire => wished]_Connection!vars
    BY DEF LiveInv, ConnInv, LastIsWished, Connection!Reacquire
  <1>3. QED
    BY <1>1, <1>2, LiveInvariance, PTL
    DEF PartsSpec, UserRespected, Connection!ConnectsAsAsked, Connection!ReleaseRespected
=============================================================================
