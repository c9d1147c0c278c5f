----------------------------- MODULE ClientSlot -----------------------------
(***************************************************************************)
(* Who the server serves and where it streams to: the single-client slot   *)
(* (rigflow-server/src/net/websocket.rs, client_socket), the media target  *)
(* that UDP datagrams set without looking at the slot                      *)
(* (net/udp/udp_registration.rs), and the clients that send them           *)
(* (rigflow-client/src/client_runtime.rs): a registration on every attempt *)
(* to connect, and from then on a probe every second for as long as the    *)
(* program runs, connected or not.                                         *)
(***************************************************************************)
EXTENDS FiniteSets

CONSTANTS
    Conns,      \* server side of the websocket connections
    Hosts,      \* client programs, each with its media address
    None

\* MCLive assumes it of its instance.
SlotAssumption == None \notin Conns \union Hosts

VARIABLES
    conn,       \* [Conns -> [at, host]]: free, upgraded, served, ended
    slot,       \* active_client
    target,     \* udp_audio_target
    probing,    \* hosts whose probe thread knows the server
    net         \* hosts with a datagram under way

vars == <<conn, slot, target, probing, net>>

NoConn == [at |-> "free", host |-> None]

Init ==
    /\ conn = [k \in Conns |-> NoConn]
    /\ slot = None
    /\ target = None
    /\ probing = {}
    /\ net = {}

(***************************************************************************)
(* The clients.                                                            *)
(***************************************************************************)

\* try_connect: once the websocket is open the media socket registers; the verdict
\* of the slot comes later.
Connect(k, h) ==
    /\ conn[k].at = "free"
    /\ conn' = [conn EXCEPT ![k] = [at |-> "upgraded", host |-> h]]
    /\ probing' = probing \union {h}
    /\ net' = net \union {h}
    /\ UNCHANGED <<slot, target>>

Probe(h) ==
    /\ h \in probing
    /\ net' = net \union {h}
    /\ UNCHANGED <<conn, slot, target, probing>>

\* The program ends, or its machine drops off the network.
Quit(h) ==
    /\ h \in probing
    /\ probing' = probing \ {h}
    /\ UNCHANGED <<conn, slot, target, net>>

(***************************************************************************)
(* client_socket.                                                          *)
(***************************************************************************)

\* Slip: the slot is looked at and taken under two locks.
ClaimUnlocked(k) ==
    /\ conn[k].at = "upgraded"
    /\ conn' = [conn EXCEPT ![k].at = "served"]
    /\ slot' = k
    /\ UNCHANGED <<target, probing, net>>

\* try_claim_active_client: the connection is served, or turned away at once.
Claim(k) ==
    /\ conn[k].at = "upgraded"
    /\ IF slot = None
       THEN slot' = k /\ conn' = [conn EXCEPT ![k].at = "served"]
       ELSE conn' = [conn EXCEPT ![k] = NoConn] /\ UNCHANGED slot
    /\ UNCHANGED <<target, probing, net>>

\* A close, an error, or 40 s without a frame: the radio is released.
End(k) ==
    /\ conn[k].at = "served"
    /\ conn' = [conn EXCEPT ![k].at = "ended"]
    /\ UNCHANGED <<slot, target, probing, net>>

\* Slip: only the target is cleared.
ReleaseTargetOnly(k) ==
    /\ conn[k].at = "ended"
    /\ conn' = [conn EXCEPT ![k] = NoConn]
    /\ target' = IF slot = k THEN None ELSE target
    /\ UNCHANGED <<slot, probing, net>>

\* release_active_client: the slot and the media target, if this one owns them.
Release(k) ==
    /\ conn[k].at = "ended"
    /\ conn' = [conn EXCEPT ![k] = NoConn]
    /\ IF slot = k THEN slot' = None /\ target' = None ELSE UNCHANGED <<slot, target>>
    /\ UNCHANGED <<probing, net>>

(***************************************************************************)
(* run_udp_registration_listener.                                          *)
(***************************************************************************)

\* Slip: only the first datagram sets the target.
ReceiveFirst(h) ==
    /\ h \in net
    /\ net' = net \ {h}
    /\ target' = IF target = None THEN h ELSE target
    /\ UNCHANGED <<conn, slot, probing>>

\* REGISTER_AUDIO or a TIME_SYNC request: its source becomes the target.
Receive(h) ==
    /\ h \in net
    /\ net' = net \ {h}
    /\ target' = h
    /\ UNCHANGED <<conn, slot, probing>>

Lose(h) ==
    /\ h \in net
    /\ net' = net \ {h}
    /\ UNCHANGED <<conn, slot, target, probing>>

Next ==
    \/ \E k \in Conns, h \in Hosts : Connect(k, h)
    \/ \E k \in Conns : Claim(k) \/ End(k) \/ Release(k)
    \/ \E h \in Hosts : Probe(h) \/ Quit(h) \/ Receive(h) \/ Lose(h)

\* Tasks run; a probe sent every second gets through now and then; the heartbeat
\* ends the connection of a client that is gone.
Fairness ==
    /\ \A k \in Conns :
        /\ WF_vars(Claim(k))
        /\ WF_vars(Release(k))
        /\ WF_vars(conn[k].host \notin probing /\ End(k))
    /\ \A h \in Hosts : WF_vars(Probe(h)) /\ SF_vars(Receive(h))

SafetySpec == Init /\ [][Next]_vars
Spec == SafetySpec /\ Fairness

(***************************************************************************)
(* Properties.                                                             *)
(***************************************************************************)

\* Every variable has its type, and the slot names a connection.
TypeOK ==
    /\ conn \in [Conns -> [at : {"free", "upgraded", "served", "ended"},
                           host : Hosts \union {None}]]
    /\ slot \in Conns \union {None}
    /\ slot # None => conn[slot].at \in {"served", "ended"}
    /\ target \in Hosts \union {None}
    /\ probing \subseteq Hosts /\ net \subseteq Hosts

\* A connection that is served, or whose radio is still being released, owns the slot,
\* so there is one of them.
ServedOwnsSlot ==
    \A k \in Conns : conn[k].at \in {"served", "ended"} => slot = k

\* A client that crashed does not keep the server to itself.
DeadClientEvicted ==
    \A k \in Conns, h \in Hosts :
        slot = k /\ conn[k].host = h /\ h \notin probing ~> slot # k \/ h \in probing

\* When only the served client is left on the network the stream finds it, however many
\* datagrams were lost, late or from somebody else before.
TargetHeals ==
    \A k \in Conns, h \in Hosts :
        <>[](slot = k /\ conn[k].at = "served" /\ conn[k].host = h /\ probing = {h}) =>
            <>[](target = h)

\* A client is not taken on while the stream is aimed at another one.
CleanStart ==
    [][slot = None /\ slot' # None => target \in {None, conn'[slot'].host}]_vars

\* While a client is served, the stream is not turned to another one.
StreamStays ==
    [][slot # None /\ slot' = slot /\ target' # target => target' = conn[slot].host]_vars
=============================================================================
