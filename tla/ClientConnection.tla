-------------------------- MODULE ClientConnection --------------------------
(***************************************************************************)
(* The client's control connection (rigflow-client/src/net/websocket.rs,   *)
(* websocket_control_task): one task whose select! serves the user's       *)
(* commands, the server's messages and two timers, reconnect and           *)
(* re-acquire, and whose locals say what it may do by itself.              *)
(*                                                                         *)
(* The server and the network are the environment: a socket is open, or    *)
(* dead with the messages that arrived before it died still to be read; a  *)
(* send on a dead socket may succeed or fail.  A request is answered in    *)
(* the order it was sent, so the answer joins inbox when it is sent.       *)
(***************************************************************************)
EXTENDS Naturals, Sequences

CONSTANTS
    Servers,        \* addresses the user may connect to
    Radios,         \* radio ids
    None,           \* no server, no radio
    InboxBound      \* bound: messages under way to the client

\* MCLive assumes it of its instance.
ClientAssumption ==
    /\ None \notin Servers \union Radios
    /\ InboxBound \in Nat \ {0}

VARIABLES
    alive,      \* the task has not returned
    link,       \* write_opt and read_opt: none, or a socket that is open or dead
    server,     \* connected_server_ip
    inbox,      \* what the socket still delivers
    auto,       \* auto_reconnect_enabled
    target,     \* reconnect_target_ip
    armed,      \* reconnect_at is set
    last,       \* last_radio_id
    again,      \* reacquire_at is set
    window,     \* reacquire_deadline: none, running, passed
    rejected,   \* rejected_since: none, recent, overdue (SERVER_BUSY_GIVE_UP)
    manual,     \* connect_was_manual
    acquired,   \* UiState.radio_acquired
    asked,      \* history: the server the user last asked for and has not left
    wished,     \* history: the user asked for a radio and has not released it
    held        \* history: [server, radio] of the last grant not released

socket == <<link, server, inbox>>
reconnecting == <<auto, target, armed, rejected, manual>>
reacquiring == <<last, again, window>>
history == <<asked, wished, held>>
vars == <<alive, socket, reconnecting, reacquiring, acquired, history>>

Msg(kind, r) == [kind |-> kind, radio |-> r]
Kinds == {"listed", "acquired", "refused", "released", "ping", "busy"}
Messages == [kind : Kinds, radio : Radios \union {None}]

Init ==
    /\ alive = TRUE
    /\ link = "none" /\ server = None /\ inbox = <<>>
    /\ auto = FALSE /\ target = None /\ armed = FALSE
    /\ rejected = "none" /\ manual = FALSE
    /\ last = None /\ again = FALSE /\ window = "none"
    /\ acquired = FALSE
    /\ asked = None /\ wished = FALSE /\ held = None

(***************************************************************************)
(* The socket.                                                             *)
(***************************************************************************)

NoLink == link' = "none" /\ server' = None /\ inbox' = <<>>

\* try_connect went through: the server lists its radios, or turns the second
\* client away and closes.
Opened(s) ==
    /\ server' = s
    /\ \/ link' = "open" /\ inbox' = <<Msg("listed", None)>>
       \/ link' = "dead" /\ inbox' = <<Msg("busy", None)>>

\* A request goes out; on an open socket one of the answers comes back.
Request(answers) ==
    /\ Len(inbox) < InboxBound
    /\ IF link = "open" THEN \E m \in answers : inbox' = Append(inbox, m)
                        ELSE UNCHANGED inbox
    /\ UNCHANGED <<link, server>>

\* A send with `?`: an error ends the whole task.
SendOrDie == alive' \in IF link = "dead" THEN {TRUE, FALSE} ELSE {TRUE}

(***************************************************************************)
(* The user's commands.                                                    *)
(***************************************************************************)

AnswersToAcquire(r) == {Msg("acquired", r), Msg("refused", r)}

\* AcquireRadio: remembered once it was sent, whatever the answer will be.
UserAcquire(r) ==
    /\ alive
    /\ link # "none"
    /\ \/ Request(AnswersToAcquire(r)) /\ last' = r
       \/ link = "dead" /\ UNCHANGED <<socket, last>>
    /\ wished' = TRUE
    /\ UNCHANGED <<alive, reconnecting, again, window, acquired, asked, held>>

\* Slip: the radio is forgotten only if the release could be sent.
UserReleaseSent ==
    /\ alive
    /\ IF link = "none" THEN UNCHANGED <<alive, socket, reacquiring>>
       ELSE /\ Request({Msg("released", None)}) /\ SendOrDie
            /\ last' = None /\ again' = FALSE /\ window' = "none"
    /\ wished' = FALSE
    /\ held' = None
    /\ UNCHANGED <<reconnecting, acquired, asked>>

\* ReleaseRadio: not to be re-acquired, connected or not.
UserRelease ==
    /\ alive
    /\ last' = None /\ again' = FALSE /\ window' = "none"
    /\ IF link = "none" THEN UNCHANGED <<alive, socket>>
                        ELSE Request({Msg("released", None)}) /\ SendOrDie
    /\ wished' = FALSE
    /\ held' = None
    /\ UNCHANGED <<reconnecting, acquired, asked>>

\* Connect: short-circuits a pending reconnect, then arms it if it went through.
UserConnect(s) ==
    /\ alive
    /\ link = "none"
    /\ armed' = FALSE
    /\ asked' = s
    /\ \/ /\ Opened(s)
          /\ auto' = TRUE /\ target' = s /\ rejected' = "none" /\ manual' = TRUE
       \/ UNCHANGED <<socket, auto, target, rejected, manual>>
    /\ UNCHANGED <<alive, reacquiring, acquired, wished, held>>

\* Slip: the timer set by an earlier drop stays.
UserDisconnectArmed ==
    /\ alive
    /\ NoLink
    /\ auto' = FALSE
    /\ last' = None /\ again' = FALSE /\ window' = "none"
    /\ acquired' = FALSE
    /\ asked' = None /\ wished' = FALSE /\ held' = None
    /\ UNCHANGED <<alive, target, armed, rejected, manual>>

\* Disconnect disarms everything.
UserDisconnect ==
    /\ alive
    /\ NoLink
    /\ auto' = FALSE /\ target' = None /\ armed' = FALSE
    /\ last' = None /\ again' = FALSE /\ window' = "none"
    /\ acquired' = FALSE
    /\ asked' = None /\ wished' = FALSE /\ held' = None
    /\ UNCHANGED <<alive, rejected, manual>>

\* RenewLease of the 10 s timer, or a RadioMessage of the UI: sent if there is a socket.
OtherSend ==
    /\ alive
    /\ link # "none"
    /\ SendOrDie
    /\ UNCHANGED <<socket, reconnecting, reacquiring, acquired, history>>

(***************************************************************************)
(* The server's messages.                                                  *)
(***************************************************************************)

GiveUp == manual \/ rejected = "overdue"

\* Slip: the streak starts anew with every rejection.
BusyForgetful ==
    /\ rejected' = IF manual THEN "none" ELSE "recent"
    /\ IF manual
       THEN /\ NoLink
            /\ auto' = FALSE /\ armed' = FALSE /\ target' = None
            /\ acquired' = FALSE /\ asked' = None
       ELSE /\ inbox' = Tail(inbox)
            /\ UNCHANGED <<link, server, auto, armed, target, acquired, asked>>
    /\ UNCHANGED <<alive, manual, wished, held>>

\* server_busy: a manual Connect gives up at once, a reconnect when the window is over.
Busy ==
    /\ IF GiveUp
       THEN /\ rejected' = "none"
            /\ NoLink
            /\ auto' = FALSE /\ armed' = FALSE /\ target' = None
            /\ acquired' = FALSE /\ asked' = None
       ELSE /\ rejected' = IF rejected = "none" THEN "recent" ELSE rejected
            /\ inbox' = Tail(inbox)
            /\ UNCHANGED <<link, server, auto, armed, target, acquired, asked>>
    /\ UNCHANGED <<alive, manual, wished, held>>

\* apply_radio_server_message, as far as it touches radio_acquired; a Ping is answered.
Message(m) ==
    /\ inbox' = Tail(inbox)
    /\ rejected' = IF m.kind = "ping" THEN rejected ELSE "none"
    /\ IF m.kind = "ping" THEN SendOrDie ELSE UNCHANGED alive
    /\ CASE m.kind = "acquired" -> acquired' = TRUE
         [] m.kind = "released" -> acquired' = FALSE
         [] OTHER -> UNCHANGED acquired
    /\ held' = IF m.kind = "acquired" /\ wished
               THEN [server |-> server, radio |-> m.radio] ELSE held
    /\ UNCHANGED <<link, server, auto, target, armed, manual, asked, wished>>

Receive ==
    /\ alive
    /\ link # "none"
    /\ inbox # <<>>
    /\ IF Head(inbox).kind = "busy" THEN Busy ELSE Message(Head(inbox))
    /\ UNCHANGED reacquiring

\* Slip: the address of the server is kept.
SocketEndsAddressed ==
    /\ alive
    /\ link = "dead"
    /\ inbox = <<>>
    /\ link' = "none"
    /\ armed' = (auto \/ armed)
    /\ acquired' = FALSE
    /\ UNCHANGED <<alive, server, inbox, auto, target, rejected, manual, reacquiring, history>>

\* The read yields an error or the end: an unexpected drop, which arms the reconnect.
SocketEnds ==
    /\ alive
    /\ link = "dead"
    /\ inbox = <<>>
    /\ NoLink
    /\ armed' = (auto \/ armed)
    /\ acquired' = FALSE
    /\ UNCHANGED <<alive, auto, target, rejected, manual, reacquiring, history>>

(***************************************************************************)
(* The two timers.                                                         *)
(***************************************************************************)

Reconnected ==
    /\ alive
    /\ armed
    /\ Opened(target)
    /\ armed' = FALSE
    /\ manual' = FALSE
    /\ IF last = None THEN UNCHANGED <<again, window>>
                      ELSE again' = TRUE /\ window' = "running"
    /\ UNCHANGED <<alive, auto, target, rejected, last, acquired, history>>

\* The attempt failed: the timer is set again, with a longer backoff.
ReconnectFails == alive /\ armed /\ UNCHANGED vars

\* AcquireRadio again, every 4 s until the radio is there.
Reacquire ==
    /\ alive
    /\ again
    /\ ~acquired
    /\ window # "passed"
    /\ last # None
    /\ link # "none"
    /\ Request(AnswersToAcquire(last))
    /\ UNCHANGED <<alive, reconnecting, reacquiring, acquired, history>>

\* Slip: the timer keeps asking after its window.
ReacquireForever ==
    /\ alive
    /\ again
    /\ acquired \/ last = None \/ link = "none"
    /\ again' = FALSE
    /\ UNCHANGED <<alive, socket, reconnecting, last, window, acquired, history>>

\* The radio is there, or the window is over, or the connection is gone again.
ReacquireEnds ==
    /\ alive
    /\ again
    /\ again' = FALSE
    /\ \/ acquired /\ window' = "none" /\ UNCHANGED last
       \/ ~acquired /\ window = "passed" /\ window' = "none" /\ last' = None
       \/ /\ ~acquired /\ window # "passed"
          /\ last = None \/ link = "none"
          /\ UNCHANGED <<last, window>>
    /\ UNCHANGED <<alive, socket, reconnecting, acquired, history>>

(***************************************************************************)
(* The environment: the network, the server and time.                      *)
(***************************************************************************)

\* The connection breaks, on either side; what is under way may be lost.
LinkDies ==
    /\ link = "open"
    /\ link' = "dead"
    /\ \E n \in 0..Len(inbox) : inbox' = SubSeq(inbox, 1, n)
    /\ UNCHANGED <<alive, server, reconnecting, reacquiring, acquired, history>>

Ping ==
    /\ link = "open"
    /\ Len(inbox) < InboxBound
    /\ inbox' = Append(inbox, Msg("ping", None))
    /\ UNCHANGED <<alive, link, server, reconnecting, reacquiring, acquired, history>>

DeadlinePasses ==
    /\ window = "running"
    /\ window' = "passed"
    /\ UNCHANGED <<alive, socket, reconnecting, last, again, acquired, history>>

StreakAges ==
    /\ rejected = "recent"
    /\ rejected' = "overdue"
    /\ UNCHANGED <<alive, socket, auto, target, armed, manual, reacquiring, acquired, history>>

UserStep ==
    \/ \E r \in Radios : UserAcquire(r)
    \/ UserRelease
    \/ \E s \in Servers : UserConnect(s)
    \/ UserDisconnect

TaskStep == OtherSend \/ Receive \/ SocketEnds \/ Reconnected \/ ReconnectFails
            \/ Reacquire \/ ReacquireEnds

Environment == LinkDies \/ Ping \/ DeadlinePasses \/ StreakAges

\* The user may end the program.
Closed == ~alive /\ UNCHANGED vars

Next == UserStep \/ TaskStep \/ Environment \/ Closed

\* select! takes every arm that stays ready, time passes, and a server that is tried
\* again and again is reached again and again.
Fairness ==
    /\ WF_vars(Receive)
    /\ WF_vars(SocketEnds)
    /\ WF_vars(ReacquireEnds)
    /\ SF_vars(Reconnected)
    /\ WF_vars(DeadlinePasses)
    /\ WF_vars(StreakAges)

SafetySpec == Init /\ [][Next]_vars
Spec == SafetySpec /\ Fairness

(***************************************************************************)
(* Properties.                                                             *)
(***************************************************************************)

\* Every variable has its type, and the three parts of the connection come and go
\* together.
TypeOK ==
    /\ alive \in BOOLEAN
    /\ link \in {"none", "open", "dead"} /\ server \in Servers \union {None}
    /\ link = "none" <=> server = None
    /\ link = "none" => inbox = <<>>
    /\ inbox \in Seq(Messages) /\ Len(inbox) <= InboxBound
    /\ auto \in BOOLEAN /\ target \in Servers \union {None} /\ armed \in BOOLEAN
    /\ rejected \in {"none", "recent", "overdue"} /\ manual \in BOOLEAN
    /\ last \in Radios \union {None} /\ again \in BOOLEAN
    /\ window \in {"none", "running", "passed"}
    /\ acquired \in BOOLEAN
    /\ asked \in Servers \union {None} /\ wished \in BOOLEAN
    /\ held \in [server : Servers, radio : Radios] \union {None}

\* The client connects only to the server the user last asked for, and by itself
\* never after the user disconnected or it gave up on a busy server.
ConnectsAsAsked ==
    [][link = "none" /\ link' # "none" => server' = asked']_vars

\* The timer never asks for a radio the user has released since.
ReleaseRespected == [][Reacquire => wished]_vars

\* On a connection that holds, re-acquiring comes to an end, even if the server never
\* grants the radio.
ReacquireStops == <>[](link = "open") => (again ~> ~again \/ ~alive)

\* A server that never lets the client in again is not tried for ever: the streak of
\* rejections spans the attempts, and it ends with the client giving up.
BusyStreakEnds ==
    <>[](link # "open") =>
        <>[](rejected = "none" \/ ~alive \/ (link = "none" /\ ~armed))

\* The task outlives a network failure.
TaskSurvives == alive

\* A drop is never left alone while automatic reconnecting is on.
DropIsRetried == alive /\ auto /\ link = "none" => armed

\* What the timer asks for is the radio that was held, on the server it was held on.
ReacquireHeld ==
    [][Reacquire => held = [server |-> server, radio |-> last]]_vars
=============================================================================
